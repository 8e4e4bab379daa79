SPECIFICATION FairSpec
CONSTANTS
    None = None
    Windows = {w1, w2}
    Queues = {q1}
    AsyncCmds = {"LOST_FOCUS", "LOW_MEMORY"}
    MaxBacklog = 1
    PipeCap = 3
    Restored = TRUE
INVARIANTS
    TypeOK
    NoUseAfterFree
    SavedStateIsFresh
    SavedStateNotLeaked
    NothingLeftBehind
PROPERTIES
    CallbacksReturn
    DisplayIsLeased
    InputQueueIsLeased
CHECK_DEADLOCK FALSE
