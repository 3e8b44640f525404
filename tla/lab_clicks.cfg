CONSTANTS
    EpisodeTicks = 2
    Periods = {40, 20, 10, 4}
    NormalPeriod = 20
    Lateness = 5
SPECIFICATION FairSpec
INVARIANTS
    TypeOK
    PlayingIsPlayable
    TimerMatches
PROPERTIES
    OneDriver
    NoBurst
    Completes
