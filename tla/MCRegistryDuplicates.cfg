CONSTANTS
    ip1 = ip1
    ip2 = ip2
    if1 = if1
    None = None
    IPs = {ip1, ip2}
    Serials = {1, 3}
    Peers <- MCPeers
    LocalInterface <- MCLocalInterface
    Sockets = {if1, None}
    Given <- MCGiven
    MaxDevices = 3
SPECIFICATION Spec
INVARIANTS
    NoDuplicates
