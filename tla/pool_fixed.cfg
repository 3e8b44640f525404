CONSTANTS
    MinReplicas = 2
    MaxReplicas = 6
    InitialReplicas = 3
    StartupDelay = 5
    ControlInterval = 2
    Multipliers <- Fixed
    Elapsed <- WholeIntervals
    TerminatingBound = 3
SPECIFICATION Spec
PROPERTY VisibleScheduleIsExact
