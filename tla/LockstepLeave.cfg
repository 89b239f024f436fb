CONSTANTS
    Client = {a, b, c}
    MaxBeat = 2
    Advances = {2}
    MaxLead = 2
    Leavers = {c}
    MaxCuts = 0
    NoRequest = NoRequest
SPECIFICATION FairSpec
INVARIANTS TypeOK AcksAreTrue StreamsKeepUp AvailableIsFullyQueued SurvivorsDifferInLastBeat
PROPERTIES ImplementsBarrier SurvivorsProgress
