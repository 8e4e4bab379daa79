SPECIFICATION FairSpec
CONSTANTS
    Sources = {"video"}
    Ops = {"start", "toggle", "rewind", "pause", "switch", "destroy"}
    MaxOps = 4
PROPERTIES
    ShutdownReturns
CHECK_DEADLOCK FALSE
