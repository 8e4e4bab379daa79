SPECIFICATION FairSpec
CONSTANTS
    MaxConf = 2
    MaxTerm = 2
    MaxNak = 2
    IdMod = 3
    Passive = FALSE
    Silent = FALSE
    Restart = FALSE
    RejectStops = FALSE
    Want = {"eap", "pap"}
    Allow = {"chap"}
INVARIANTS
    TypeOK
    TimerDiscipline
    UpperLayerPaired
    MutualConsent
PROPERTIES
    ImplementsService
    TerminationEnds
