SPECIFICATION Spec
CONSTANTS
    MaxConf = 1
    MaxTerm = 2
    MaxNak = 2
    IdMod = 4
    WantOf <- ServerWant
    AllowOf <- ClientAllow
    PassiveEnds = {}
    SilentEnds = {}
    EchoFails = 0
    SlowTimers = FALSE
    WireCap = 3
    MaxLosses = 0
    MaxDrops = 1
    MaxCloses = 0
INVARIANTS
    Agreement
PROPERTIES
    IdsNotReused
CHECK_DEADLOCK FALSE
