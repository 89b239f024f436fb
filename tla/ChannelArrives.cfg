SPECIFICATION FairSpec
CONSTANTS
    End <- MCEnds
    WindowSize = 8
    MaxInFlight = 2
    HoldLimit = 2
    Budget = 1
    CompactStep = 1
    HeaderReach = 2
    BlockSize = 1
    MaxAckBlocks = 1
    LossThreshold = 2
    MaxThreshold = 3
    MaxLane = 2
    Redundancy = 1
    Owners <- MCStream
    Timely = TRUE
    MaxLosses = 2
PROPERTIES
    EverythingArrives
INVARIANTS
    RangesStandForSets
CHECK_DEADLOCK FALSE
