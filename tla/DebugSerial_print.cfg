SPECIFICATION FairSpec
CONSTANTS
    Top = 2
    QueueLen = 4
    BufLen = 2
    WindowPrints = FALSE
    MaxPrints = 9
    NULL = NULL
INVARIANTS
    TypeOK
    OnceInOrder
    HasTransmitter
PROPERTIES
    MainPrintReturns
CHECK_DEADLOCK FALSE
