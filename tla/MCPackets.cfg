CONSTANTS
    BufferSize = 160
    UINT32_RANGE = 32768
    Behind <- MCBehind
    ReceiveSizes = {30, 57, 80, 160}
    Addresses <- MCAddresses
    PacketIDs <- MCPacketIDs
    Ips <- MCIps
    Passwords <- MCPasswords
    Registers <- MCRegisters
    Datagrams <- MCDatagrams
    Rooms = {0, 3, 8, 12, 20, 28}
    Elements <- MCElements
SPECIFICATION PacketsSpec
CHECK_DEADLOCK FALSE
INVARIANTS
    Classified
    ReadersStayInside
    FieldsKept
    ElementsDelivered
    RegistersUnderstood
