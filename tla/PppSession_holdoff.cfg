SPECIFICATION Spec
CONSTANTS
    Passive = FALSE
    Silent = FALSE
    ListenTime = FALSE
    AuthRequired = TRUE
    NoAuthAddrs = FALSE
    NullLogin = FALSE
    MaxChallenge = 2
    Rechallenge = FALSE
    MaxAuthReq = 2
    NPs = {"ipcp"}
    IdleLimit = FALSE
    ConnectLimit = FALSE
    Persist = TRUE
    MaxFail = 0
    Demands = {"chap"}
    Offers = {"none"}
    Signals = {"hup"}
    ConnectMayFail = TRUE
    ConfigMayFail = FALSE
    HoldoffCap = 1
    PapTimerCap = 1
INVARIANTS
    OpenLinkPhase
CHECK_DEADLOCK FALSE
