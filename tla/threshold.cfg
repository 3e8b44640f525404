CONSTANTS
    MinReplicas = 2
    MaxReplicas = 5
    InitialReplicas = 5
    StartupDelay = 3
    ControlInterval = 2
    Multipliers <- TriPoint
    TelemetryDelay = 1
    HistoryTicks = 1
    NominalCapacity = 2
    Jittered = FALSE
    EpisodeTicks = 6
    Worlds <- EveryDemand
    Low = 40
    High = 80
    CtlMin = 1
    CtlMax = 3
    CooldownTicks = 2
SPECIFICATION LoopSpec
INVARIANTS
    LoopTypeOK
    CooldownExact
    CorrectedOnePerTick
PROPERTY StepMeansTheSame
