SPECIFICATION FairSpec
CONSTANTS
    Threads = {t1, t2, t3}
    Openers = {t1, t2}
    Users = {t2, t3}
    Devices = {d1, d2}
    OpenedBefore = {d1}
    None = None
    MaxCalls = 3
    MaxFailures = 1
INVARIANTS
    TypeOK
    NoStaleFd
    HandlesPolled
PROPERTIES
    EventHandled
    OpenReturns
    TransferReturns
CHECK_DEADLOCK FALSE
