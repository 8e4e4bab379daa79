SPECIFICATION Spec
CONSTANTS
    Passive = FALSE
    Silent = FALSE
    ListenTime = TRUE
    AuthRequired = TRUE
    NoAuthAddrs = FALSE
    NullLogin = TRUE
    MaxChallenge = 1
    Rechallenge = TRUE
    MaxAuthReq = 1
    NPs = {"ipcp", "ipv6cp"}
    IdleLimit = TRUE
    ConnectLimit = TRUE
    Persist = TRUE
    MaxFail = 0
    Demands = {"chap", "pap", "none"}
    Offers = {"chap", "pap", "none"}
    Signals = {"hup"}
    ConnectMayFail = TRUE
    ConfigMayFail = TRUE
    HoldoffCap = 1
    PapTimerCap = 1
INVARIANTS
    TypeOK
    AuthBeforeNetwork
    NetworkAccounting
    LayersFollowLcp
PROPERTIES
    AccessIsGuarded
CHECK_DEADLOCK FALSE
