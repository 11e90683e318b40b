SPECIFICATION FairSpec
CONSTANTS
    Count = 2
    Fields = {"x", "y"}
    Settings = {"a"}
    Default = "default"
    Blank = "blank"
    Scrap = {"scrap"}
    Pointed <- LastPointed
    InFlash = "in flash"
    MaxSaves = 2
    MaxFaults = 2
    NULL = NULL
INVARIANTS
    TypeOK
    NothingForgotten
    NothingTornInUse
PROPERTIES
    
    Heals
