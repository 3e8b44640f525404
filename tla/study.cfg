CONSTANTS
    Timesteps = 4
    RolloutSize = 2
    LearningStarts = 2
    LogInterval = 1
    CheckpointInterval = 2
    Kinds <- AllKinds
    Budget = 2
    Suggestions = 2
    Workers = {w1, w2}
    OneWorker = w1
    Identities = {d1, d2}
    NoIdentity = NoIdentity
    MaxStops = 1
SPECIFICATION FairSpec
INVARIANTS
    TrialsSampleAlike
    RunsTellTheirTrial
    LearningRecorded
PROPERTY StudyCompletes
