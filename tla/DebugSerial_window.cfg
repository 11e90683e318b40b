SPECIFICATION FairSpec
CONSTANTS
    Top = 2
    QueueLen = 2
    BufLen = 2
    WindowPrints = TRUE
    MaxPrints = 6
    NULL = NULL
PROPERTIES
    MainPrintReturns
CHECK_DEADLOCK FALSE
