CONSTANTS
    MinReplicas = 1
    MaxReplicas = 3
    InitialReplicas = 2
    StartupDelay = 5
    ControlInterval = 2
    Multipliers <- TriPoint
    TelemetryDelay = 1
    HistoryTicks = 2
    NominalCapacity = 2
    Jittered = TRUE
    EpisodeTicks = 5
    Worlds <- SmallWorlds
SPECIFICATION ReplaySpec
INVARIANTS
    TypeOK
    VisibleIsDelayedTruth
    TargetReached
    Reproducible
    SameWorldForEveryPolicy
    RequestsConserved
    ServingIsWindowMinimum
