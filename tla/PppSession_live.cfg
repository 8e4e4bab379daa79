SPECIFICATION FairSpec
CONSTANTS
    Passive = TRUE
    Silent = FALSE
    ListenTime = TRUE
    AuthRequired = TRUE
    NoAuthAddrs = TRUE
    NullLogin = FALSE
    MaxChallenge = 2
    Rechallenge = FALSE
    MaxAuthReq = 2
    NPs = {"ipcp"}
    IdleLimit = FALSE
    ConnectLimit = FALSE
    Persist = TRUE
    MaxFail = 0
    Demands = {"pap", "none"}
    Offers = {"none", "chap", "pap"}
    Signals = {"term"}
    ConnectMayFail = TRUE
    ConfigMayFail = FALSE
    HoldoffCap = 1
    PapTimerCap = 1
PROPERTIES
    SigtermExits
    AuthEnds
CHECK_DEADLOCK FALSE
