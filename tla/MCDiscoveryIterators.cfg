CONSTANTS
    ip1 = ip1
    ip2 = ip2
    if1 = if1
    None = None
    IPs = {ip1, ip2}
    Serials = {1}
    Peers <- MCPeers
    LocalInterface <- MCLocalInterface
    Sockets = {if1}
    Given <- MCGiven
    MaxDevices = 2
    Subnets <- MCSubnets
    ScanLimit = 4
    NumRetries = 2
    Burst = 2
    MaxWait = 5
    LongPoll = 2
    ShortPoll = 1
    MaxPackets = 3
SPECIFICATION Spec
PROPERTIES
    ListKeepsIterators
