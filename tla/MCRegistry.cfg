CONSTANTS
    ip1 = ip1
    ip2 = ip2
    if1 = if1
    None = None
    IPs = {ip1, ip2}
    Serials = {1, 3}
    Peers <- MCPeers
    LocalInterface <- MCLocalInterface
    Sockets = {if1}
    Given <- MCGiven
    MaxDevices = 5
SPECIFICATION Spec
INVARIANTS
    ListConsistent
PROPERTIES
    KnownStaysKnown
