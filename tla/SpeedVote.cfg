SPECIFICATION Spec
CONSTANTS
    Player <- MCPlayers
    MinRate <- MCMinRate
    MaxRate = 2
    Asked <- MCAsked
    MaxAsks = 3
    MaxGone = 1
INVARIANTS
    TypeOK
    OneStampOneSpeed
    SameRateWhenQuiet
CHECK_DEADLOCK FALSE
