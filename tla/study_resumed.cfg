CONSTANTS
    Timesteps = 4
    RolloutSize = 2
    LearningStarts = 2
    LogInterval = 1
    CheckpointInterval = 2
    Kinds = {"ppo"}
    Budget = 2
    Suggestions = 2
    Workers = {w1}
    OneWorker = w1
    Identities = {d1}
    NoIdentity = NoIdentity
    MaxStops = 1
SPECIFICATION Spec
INVARIANT ResumedProposesTheSame
