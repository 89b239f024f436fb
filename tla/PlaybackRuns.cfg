SPECIFICATION FairSpec
CONSTANTS
    Players = 2
    NoSource = NoSource
    MaxBeat = 3
    MaxSkip = 2
    MaxLead = 1
    Kind <- MCReports
    Chunk <- MCByMessage
INVARIANTS
    PlaybackRunsTheGame
    SourcesInStep
PROPERTIES
    PlaybackEnds
