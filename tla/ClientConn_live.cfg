SPECIFICATION FairSpec
CONSTANTS
    c1 = c1
    c2 = c2
    f1 = f1
    Clients = {c1, c2}
    Frames = {f1}
    StreamLimit = 1
    TotalLimit = 2
    MaxRetries = 1
    ResponseLen = 1
    FrameLen = 3
    WriteMax = 1
    SndBuf = 1
    NULL = NULL
PROPERTIES
    FrameComesBack
    NoIdleForever
