SPECIFICATION LoopSpec
CONSTANTS
    MaxConf = 2
    MaxTerm = 2
    MaxNak = 4
    IdMod = 4
    WantOf <- MutualWant
    AllowOf <- MutualAllow
    PassiveEnds = {"b"}
    SilentEnds = {"b"}
    EchoFails = 2
    SlowTimers = TRUE
    WireCap = 6
    MaxLosses = 1
    MaxDrops = 1
    MaxCloses = 1
INVARIANTS
    TypeOK
    StrongestCommonMethod
    EchoWithLayer
PROPERTIES
    CloseReachesPeer
    Settles
    KeepaliveSparesLive
CHECK_DEADLOCK FALSE
