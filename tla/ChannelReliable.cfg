SPECIFICATION Spec
CONSTANTS
    End <- MCEnds
    WindowSize = 2
    MaxInFlight = 2
    HoldLimit = 2
    Budget = 2
    CompactStep = 1
    HeaderReach = 1
    BlockSize = 1
    MaxAckBlocks = 1
    LossThreshold = 2
    MaxThreshold = 3
    MaxLane = 1
    Redundancy = 1
    Owners <- MCStreamOrMessages
    Timely = FALSE
    MaxLosses = 0
INVARIANTS
    TypeOK
    AckedIsHeld
    NothingForgotten
    HandedAtMostOnce
PROPERTIES
    SendsOnlyWhatIsOwed
CHECK_DEADLOCK FALSE
