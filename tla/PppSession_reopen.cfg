SPECIFICATION FairSpec
CONSTANTS
    Passive = FALSE
    Silent = FALSE
    ListenTime = FALSE
    AuthRequired = TRUE
    NoAuthAddrs = FALSE
    NullLogin = FALSE
    MaxChallenge = 2
    Rechallenge = FALSE
    MaxAuthReq = 2
    NPs = {"ipcp"}
    IdleLimit = FALSE
    ConnectLimit = FALSE
    Persist = TRUE
    MaxFail = 0
    Demands = {"chap"}
    Offers = {"none"}
    Signals = {}
    ConnectMayFail = TRUE
    ConfigMayFail = FALSE
    HoldoffCap = 1
    PapTimerCap = 1
PROPERTIES
    AuthEnds
CHECK_DEADLOCK FALSE
