CONSTANTS
    Values <- MCValues
    Garbage = garbage
    Capacities <- MCCapacities
    Args <- MCArgs
    SizeMax <- MCSizeMax
    TimeMax = 8
    EpochMax = 64
    MsPerSecond = 1000
    MaxValues = 13
SPECIFICATION Spec
INVARIANTS
    BufferConsistent
    AtAgreesWithIndex
    FindsClosest
    InterpolatesTwoClosest
    EstimatesExact
    SegmentsSound
PROPERTIES
    ImplementsHistory
