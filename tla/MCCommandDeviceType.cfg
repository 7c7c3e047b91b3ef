CONSTANTS
    Devices = {d1, d2}
    NoSocket = {d2}
    Broadcast = broadcast
    Multicast = multicast
    NumIds = 3
    MaxDelay = 2
    TimeMod = 3
    Timeout = 1
    MaxCommands = 3
    MaxTime = 0
    MaxNoise = 0
SPECIFICATION Spec
CHECK_DEADLOCK FALSE
INVARIANTS
    WaitsForItsCommand
