CONSTANTS
    Plans = {p, q}
    NumCases = 3
    NoPlan = NoPlan
    Removable = {q}
    MaxStops = 3
SPECIFICATION FairSpec
INVARIANTS
    TypeOK
    RowsInPlanOrder
    RowsFromFinishedRuns
    OnePlanPerDirectory
    FinishedOnce
PROPERTY EventuallyComplete
