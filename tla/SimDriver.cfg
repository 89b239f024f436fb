SPECIFICATION FairSpec
CONSTANTS
    QueueCap = 1
    BusyAhead = 1
    FastLead = 1
    Lead = 0
    CatchUp = 1
    OneAtATime = TRUE
    MaxBeat = 2
    MaxUses = 2
INVARIANTS
    TypeOK
    SimExclusive
    BeatsKeepTheirDistance
    PacketsInOrder
    NoSaveForgotten
PROPERTIES
    GameGoesOn
    ShutDownEnds
