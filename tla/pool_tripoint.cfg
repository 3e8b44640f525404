CONSTANTS
    MinReplicas = 1
    MaxReplicas = 4
    InitialReplicas = 2
    StartupDelay = 5
    ControlInterval = 2
    Multipliers <- TriPoint
    Elapsed <- UnevenTimes
    TerminatingBound = 2
SPECIFICATION FairSpec
INVARIANTS
    TypeOK
    CapacityWithinBounds
    RequestOrderKept
    ScheduleErrorBounded
PROPERTIES
    KeepsPromise
    Converges
