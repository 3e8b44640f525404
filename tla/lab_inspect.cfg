CONSTANTS
    EpisodeTicks = 2
    Periods = {10}
    NormalPeriod = 10
    Lateness = 1
SPECIFICATION FairSpec
PROPERTY InspectAdvancesByClick
