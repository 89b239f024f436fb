SPECIFICATION FairSpec
CONSTANTS
    a = a
    b = b
    End <- MCEnds
    Items <- MCOneAndNone
    Window = 1
    MaskBits = 1
    SeqSpace = 8
    InputCap = 2
    Leavers <- MCOnlyA
    Quitters <- MCNone
    MaxSilences <- MCNothing
    MaxConns <- MCTwoForB
    FirstSeq = 0
    MaxTime <- MCTwoForA
    NetCap <- MCOneEach
CHECK_DEADLOCK FALSE
PROPERTIES WrittenArrives ClosingEnds
INVARIANT OneLiveConnection
