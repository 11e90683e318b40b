SPECIFICATION FairSpec
CONSTANTS
    p1 = p1
    p2 = p2
    c1 = c1
    c2 = c2
    a = a
    b = b
    Pushers = {p1, p2}
    Poppers = {c1, c2}
    Values = {a, b}
    MemLen = 2
    IndexRange = 4
    Starts = {3}
    MaxCalls = 3
    NULL = NULL
INVARIANTS
    TypeOK
    IndexOrder
PROPERTIES
    IsFifo
    EmptyIsTrue
    ClaimsFilled
