SPECIFICATION Spec
CONSTANTS
    Experiments = {"heldout", "startup", "baseline", "action", "reward", "sim-to-real", "selection"}
    Definitions = {1, 2, 3, 4}
    Tried <- SmallTried
    TraceVersions = {0, 1, 2}
    Measured <- SmallMeasured
    MaxChanges = 2
    Benchmarks <- SmallBenchmarks
    TestWorkloads <- SmallTestWorkloads
    ScenarioTable <- SmallScenarios
    DynamicsSeeds <- TwoSeeds
    StartupMatrix <- SmallStartupMatrix
    RuleVariants <- SmallRules
    Deployment <- SmallDeployment
    Slices <- SmallSlices
    PinnedPart <- SmallPinned
    FrozenPart = 1
    ReplayControllers <- SmallReplay
    ExpectedCounts <- SmallCounts
    SplitOf <- SmallSplits
    ValidationWorkloads <- SmallValidation
    StartupScenarios <- SmallStartups
    StartupSeeds <- TwoSeeds
    RuleControllers <- SmallRuleControllers
    ActionDecision <- SmallDecision
    StepInfos <- SmallInfos
    BaselineControllers <- SmallControllers
    SyntheticValidation <- SmallValidation
    AzureValidation <- SmallAzure
    RecordsIssued <- SmallIssued
    Families <- SmallFamilies
    Candidates <- SmallCandidates
    RetrainingSeeds <- OneSeed
    ActionRules <- SmallRuleSet
    SelectionRule <- SmallRule
    Learnt <- SmallLearnt
    Rewards <- SmallRewards
    Fallback = "full-default-v1"
    DqnCandidates <- SmallCandidates
    PpoCandidate = 8
    RewardSeeds <- TwoSeeds
    RewardRule <- SmallRule
    Rewarded <- SmallRewarded
    RequestCounts <- SmallCountsOf
    WindowBins = 2
    Upstream <- SmallUpstream
    LoadSeeds <- SmallLoadSeeds
    ReplaySeedsOf <- SmallReplaySeeds
    Validated <- SmallValidated
    DeployRule <- SmallRule
    SelectionWorkloads <- Developed
    Reference = "threshold-v1"
    SelectionFamilies <- SmallLearnedFamilies
    ManifestVariants <- SmallVariants
    EvaluationRows <- SmallRows
INVARIANTS
    RowsTellTheirRuns
    FrozenWell
    LaunchesSurvive
CHECK_DEADLOCK FALSE
