SPECIFICATION FairSpec
CONSTANTS
    f1 = f1
    f2 = f2
    f3 = f3
    c1 = c1
    Frames = {f1, f2, f3}
    Clients = {c1}
    MAX = 2
    MaxTime = 3
    Overrun = {}
    MallocFails = FALSE
    NULL = NULL
PROPERTIES
    LockedComesBack
    CameraResumes
