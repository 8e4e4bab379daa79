SPECIFICATION FairSpec
CONSTANTS
    Sources = {"missing", "video"}
    Ops = {"start", "toggle", "rewind", "pause", "switch", "destroy"}
    MaxOps = 5
INVARIANTS
    TypeOK
    TokensCoverQueue
    CodecUsedAlive
PROPERTIES
    QuitIsObeyed
    WorkIsKept
CHECK_DEADLOCK FALSE
