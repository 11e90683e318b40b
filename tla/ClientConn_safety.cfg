SPECIFICATION Spec
CONSTANTS
    c1 = c1
    c2 = c2
    c3 = c3
    f1 = f1
    f2 = f2
    Clients = {c1, c2, c3}
    Frames = {f1, f2}
    StreamLimit = 1
    TotalLimit = 3
    MaxRetries = 1
    ResponseLen = 1
    FrameLen = 2
    WriteMax = 1
    SndBuf = 1
    NULL = NULL
SYMMETRY Symmetry
INVARIANTS
    TypeOK
    CountsMatch
    ListIsClients
    WritesItsFrame
PROPERTIES
    KeepsContract
    FramesWhole
    OneFramePerSnap
