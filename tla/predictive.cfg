CONSTANTS
    MinReplicas = 1
    MaxReplicas = 10
    InitialReplicas = 5
    StartupDelay = 3
    ControlInterval = 2
    Multipliers <- NominalOnly
    TelemetryDelay = 0
    HistoryTicks = 1
    NominalCapacity = 3
    Jittered = FALSE
    EpisodeTicks = 8
    Worlds <- RampsAndBursts
    Policies <- AllPolicies
    HistoryWindow = 4
    TargetPercent = 80
    Profile <- MorningProfile
    StaticTarget = 8
SPECIFICATION PolicySpec
INVARIANTS
    SamplesAreVisibleDemands
    RampServed
PROPERTY ReducesCarefully
