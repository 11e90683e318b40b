SPECIFICATION Spec
CONSTANTS
    f1 = f1
    f2 = f2
    f3 = f3
    c1 = c1
    c2 = c2
    Frames = {f1, f2, f3}
    Clients = {c1, c2}
    MAX = 2
    MaxTime = 3
    Overrun = {"truncated", "complete", "full"}
    MallocFails = TRUE
    NULL = NULL
SYMMETRY Symmetry
INVARIANTS
    DmaOwnsTarget
    ClientsHoldPublished
    WalksInOverrunOnly
