CONSTANTS
    TimeMax = 16
    EpochMax = 256
    MsPerSecond = 2
    ObisKeys <- MCObisKeys
    TextKeys <- MCTextKeys
    Capacity = 6
    Phases <- MCPhases
    Total = "Total"
    MaxAge = 2
    Emeters = {E1, E2}
    Inverters = {"I1", "B1"}
    Batteries = {"B1"}
    averagingTimeObisData = 3
    averagingTimeSpeedwireData = 1
    Elements <- MCElements
    Replies <- MCReplies
    Filters <- MCFilters
    StartClock = 13
    MaxClock = 17
    MaxPackets = 7
    ReplyCost = 4
SPECIFICATION PipelineSpec
SYMMETRY Symmetry
CHECK_DEADLOCK FALSE
INVARIANTS
    PipelineConsistent
    BlocksWhole
    PaceKept
    HouseholdMatched
    ExpandsToNearest
PROPERTIES
    SignedComplete
    FeedCoversOnce
