SPECIFICATION FairSpec
CONSTANTS
    Webhook_Retrys = 2
    Pool = 3
    MaxTriggers = 7
INVARIANTS
    TypeOK
    BusyHasCause
    AttemptsBounded
PROPERTIES
    BecomesFree
CHECK_DEADLOCK FALSE
