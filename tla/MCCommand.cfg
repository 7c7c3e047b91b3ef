CONSTANTS
    Devices = {d1, d2}
    NoSocket = {d2}
    Broadcast = broadcast
    Multicast = multicast
    NumIds = 2
    MaxDelay = 1
    TimeMod = 3
    Timeout = 1
    MaxCommands = 3
    MaxTime = 2
    MaxNoise = 1
SPECIFICATION FairSpec
CHECK_DEADLOCK FALSE
INVARIANTS
    TokensConsistent
    ReplyAnswersCommand
PROPERTIES
    CallSparesOthers
    ExpireSparesYoung
    ExpireLeavesNoOld
    CallReturns
