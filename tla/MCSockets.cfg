SPECIFICATION SocketsSpec
CONSTANTS
    OctetBits = 2
    PortRange = 8
    Hosts <- MCHosts
    Peers <- MCPeers
    MaxFd = 2
    Cells = {1, 2, 3, 4, 5}
    AnyAddr = AnyAddr
    BadAddr = BadAddr
    Closed = Closed
    Lost = Lost
    Simple = Simple
    Refused = Refused
    V6Addrs = {v6}
    V4Addrs <- MCV4Addrs
    Strategies = {"ONE_SOCKET_FOR_EACH_INTERFACE", "ONE_SINGLE_SOCKET",
                  "ONE_MULTICAST_SOCKET_AND_ONE_UNICAST_SOCKET_FOR_EACH_INTERFACE",
                  "ONE_UNICAST_SOCKET_FOR_EACH_INTERFACE"}
    OwnAddrs <- MCOwnAddrs
    Holders = {h1, h2}
SYMMETRY Symmetry
CONSTRAINT Unshared
CHECK_DEADLOCK FALSE
INVARIANTS
    SocketsAccounted
    AnswersPolled
    RequestsLeaveByInterface
PROPERTIES
    UrisTakenApart
    PeersAssigned
