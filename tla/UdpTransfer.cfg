SPECIFICATION TransferSpec
CONSTANTS
    a = a
    b = b
    End <- MCEnds
    Items <- MCTwoAndNone
    Window = 2
    MaskBits = 1
    SeqSpace = 8
    InputCap = 2
    Leavers <- MCNone
    Quitters <- MCOnlyA
    MaxSilences <- MCOneAndNone
    MaxConns <- MCOnceEach
    FirstSeq = 6
    MaxTime <- MCOneEach
    NetCap <- MCTwoEach
CHECK_DEADLOCK FALSE
INVARIANTS TypeOK AckedIsHeld
PROPERTIES ImplementsLink
