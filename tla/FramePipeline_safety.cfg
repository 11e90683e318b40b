SPECIFICATION Spec
CONSTANTS
    f1 = f1
    f2 = f2
    f3 = f3
    f4 = f4
    c1 = c1
    c2 = c2
    Frames = {f1, f2, f3, f4}
    Clients = {c1, c2}
    MAX = 2
    MaxTime = 4
    Overrun = {"truncated"}
    MallocFails = TRUE
    NULL = NULL
SYMMETRY Symmetry
INVARIANTS
    TypeOK
    Conservation
    OneHolder
    PendingIsNews
    QuietCamera
PROPERTIES
    SharesFrames
    KeepsContract
    NewerEachTime
