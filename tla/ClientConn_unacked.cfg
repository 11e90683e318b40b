SPECIFICATION Spec
CONSTANTS
    c1 = c1
    f1 = f1
    f2 = f2
    Clients = {c1}
    Frames = {f1, f2}
    StreamLimit = 1
    TotalLimit = 1
    MaxRetries = 2
    ResponseLen = 1
    FrameLen = 3
    WriteMax = 2
    SndBuf = 3
    NULL = NULL
INVARIANTS
    UnackedFramesHeld
