--------------------------- MODULE RewardAblation ---------------------------
(***************************************************************************)
(* The reward ablation (reward_ablation). One command per reward variant,  *)
(* in parallel with the others, does all of its training: every DQN        *)
(* candidate once, the selection among them, the selected one with every   *)
(* seed, and a fixed PPO configuration with every seed. The decision reads *)
(* the files of all rewards and takes one reward, or the fallback.         *)
(***************************************************************************)
EXTENDS CaseRuns, ModelSelection

CONSTANTS
    Rewards,            \* the reward variants, in the order of their names
    Fallback,           \* full-default-v1
    DqnCandidates, PpoCandidate,
    RewardSeeds,
    RewardRule,         \* the frozen selection rule
    Rewarded(_, _)      \* metrics per workload of a trained policy on a version

DqnScreening == "dqn-screening"
DqnRetraining == "dqn-retraining"
PpoTraining == "ppo-training"
FirstSeed == 0

\* The predeclared variants, seeds and validation workloads; nothing held out.
RewardSpec(definition) ==
    [id |-> definition, rewards |-> Rewards, candidates |-> DqnCandidates,
     seeds |-> RewardSeeds, workloads |-> RewardRule.workloads, fallback |-> Fallback,
     heldOut |-> {}]
RewardSpecAllowed(spec) ==
    /\ spec.heldOut = {}
    /\ \A w \in spec.workloads : SplitOf[w] = "validation"
    /\ spec.workloads = RewardRule.workloads
    /\ spec.rewards = Rewards /\ spec.seeds = RewardSeeds
LoadsRewardSpec ==
    /\ tree.file = tree.code /\ RewardSpecAllowed(RewardSpec(tree.file))
    /\ RuleWellFormed(RewardRule, SplitOf)

-----------------------------------------------------------------------------
(* Evidence.                                                               *)
RewardPath(reward, phase, candidate, seed) == <<reward, phase, candidate, seed>>
RewardEvidence(path) == {e \in files.evidence : e.path = path}

\* One configuration trained under one reward and validated on every workload.
TrainedUnder(job, reward, phase, candidate, seed) ==
    [spec |-> job.spec, path |-> RewardPath(reward, phase, candidate, seed),
     reward |-> reward, phase |-> phase, candidate |-> candidate, seed |-> seed,
     metrics |-> Rewarded([reward |-> reward, phase |-> phase, candidate |-> candidate,
                           seed |-> seed], job.version)]

\* A file must be of this experiment, and of the reward, candidate and seed of its name.
Belongs(e, spec) ==
    /\ e.spec = spec
    /\ e.path = RewardPath(e.reward, e.phase, e.candidate, e.seed)

DqnFamily(reward) ==
    {[index |-> e.candidate, metrics |-> e.metrics] :
        e \in {f \in files.evidence : f.reward = reward /\ f.phase = DqnScreening}}
Reselected(reward) == Select(RewardRule, DqnFamily(reward))

-----------------------------------------------------------------------------
(* run --reward: one command per reward.                                   *)
\* Slip: one temporary name for all commands.
TempFileShared(reward) == "experiment-spec.json.tmp"

\* Each process has a temporary name of its own.
TempFile(reward) == <<"experiment-spec.json", reward>>

RewardUnchanged == UNCHANGED <<experiment, tree, commits, inputs, changes>>

\* What the command goes through before and after the selection.
Steps(phase, candidate) ==
    CASE phase = DqnScreening -> [i \in DOMAIN DqnCandidates |-> <<DqnCandidates[i], FirstSeed>>]
      [] phase = DqnRetraining -> [i \in DOMAIN RewardSeeds |-> <<candidate, RewardSeeds[i]>>]
      [] OTHER -> [i \in DOMAIN RewardSeeds |-> <<PpoCandidate, RewardSeeds[i]>>]

\* Bounds the model: a finished reward is not run again.
Unfinished(reward) ==
    \/ reward \notin DOMAIN files.chosen
    \/ \E phase \in {DqnScreening, PpoTraining} :
        \E step \in ToSet(Steps(phase, 0)) :
            RewardEvidence(RewardPath(reward, phase, step[1], step[2])) = {}
    \/ /\ reward \in DOMAIN files.chosen /\ files.chosen[reward].succeeded
       /\ \E step \in ToSet(Steps(DqnRetraining, files.chosen[reward].selected)) :
            RewardEvidence(RewardPath(reward, DqnRetraining, step[1], step[2])) = {}

RewardLaunch(reward) ==
    /\ experiment = "reward" /\ frozen = NoResult
    /\ reward \notin DOMAIN jobs /\ Unfinished(reward)
    /\ LoadsRewardSpec
    /\ jobs' = Having(jobs, reward, [pc |-> "rename", spec |-> tree.file, version |-> inputs,
                                     at |-> 1, candidate |-> Nothing.index])
    /\ files' = [files EXCEPT !.temps = @ \cup {TempFile(reward)}]
    /\ UNCHANGED <<raw, runs, proc, frozen>> /\ RewardUnchanged

RewardRenamed(reward) ==
    /\ experiment = "reward" /\ jobs[reward].pc = "rename"
    /\ jobs' = IF TempFile(reward) \in files.temps
               THEN [jobs EXCEPT ![reward].pc = DqnScreening] ELSE Without(jobs, reward)
    /\ files' = [files EXCEPT !.temps = @ \ {TempFile(reward)}]
    /\ UNCHANGED <<raw, runs, proc, frozen>> /\ RewardUnchanged

After(job) ==
    CASE job.pc = DqnScreening -> [job EXCEPT !.pc = "select", !.at = 1]
      [] job.pc = DqnRetraining -> [job EXCEPT !.pc = PpoTraining, !.at = 1]
      [] OTHER -> [job EXCEPT !.pc = "done"]

\* _get_or_train: what is there must belong; what is missing is trained and saved.
RewardTrain(reward) ==
    /\ experiment = "reward"
    /\ LET job == jobs[reward]
           steps == Steps(job.pc, job.candidate)
           step == steps[job.at]
           found == RewardEvidence(RewardPath(reward, job.pc, step[1], step[2]))
           next == IF job.at = Len(steps) THEN After(job) ELSE [job EXCEPT !.at = @ + 1]
       IN  /\ job.pc \in {DqnScreening, DqnRetraining, PpoTraining}
           /\ IF \A e \in found : Belongs(e, job.spec)
              THEN jobs' = IF next.pc = "done" THEN Without(jobs, reward)
                           ELSE [jobs EXCEPT ![reward] = next]
              ELSE jobs' = Without(jobs, reward)
           /\ files' = IF found # {} THEN files
                       ELSE [files EXCEPT !.evidence = @ \cup
                                {TrainedUnder(job, reward, job.pc, step[1], step[2])}]
    /\ UNCHANGED <<raw, runs, proc, frozen>> /\ RewardUnchanged

\* The selection is saved; what was selected is retrained, and nothing is when
\* nothing was selected.
RewardSelect(reward) ==
    /\ experiment = "reward" /\ jobs[reward].pc = "select"
    /\ Selectable(RewardRule, DqnFamily(reward))
    /\ LET result == Reselected(reward)
       IN  /\ files' = [files EXCEPT !.chosen = Having(@, reward, result)]
           /\ jobs' = [jobs EXCEPT ![reward].pc = IF result.succeeded THEN DqnRetraining
                                                  ELSE PpoTraining,
                                   ![reward].candidate = result.selected]
    /\ UNCHANGED <<raw, runs, proc, frozen>> /\ RewardUnchanged

-----------------------------------------------------------------------------
(* The decision.                                                           *)
ModelsOf(reward, phase) == {e \in files.evidence : e.reward = reward /\ e.phase = phase}
Evidenced(reward, phase, candidate) ==
    {e.path : e \in ModelsOf(reward, phase)}
        = {RewardPath(reward, phase, s[1], s[2]) : s \in ToSet(Steps(phase, candidate))}

\* Slip: the stored selection is trusted.
ExactRewardTrusting(reward, spec) ==
    /\ reward \in DOMAIN files.chosen
    /\ Evidenced(reward, DqnScreening, 0)
    /\ IF files.chosen[reward].succeeded
       THEN Evidenced(reward, DqnRetraining, files.chosen[reward].selected)
       ELSE ModelsOf(reward, DqnRetraining) = {}
    /\ Evidenced(reward, PpoTraining, PpoCandidate)
    /\ \A e \in files.evidence : e.reward = reward => Belongs(e, spec)

\* load_reward_models: the stored selection is the one the screening evidence gives,
\* and the files are exactly those of the candidates and seeds it asks for.
ExactReward(reward, spec) ==
    /\ reward \in DOMAIN files.chosen /\ ResultWellFormed(files.chosen[reward])
    /\ Evidenced(reward, DqnScreening, 0)
    /\ files.chosen[reward] = Reselected(reward)
    /\ IF files.chosen[reward].succeeded
       THEN Evidenced(reward, DqnRetraining, files.chosen[reward].selected)
       ELSE ModelsOf(reward, DqnRetraining) = {}
    /\ Evidenced(reward, PpoTraining, PpoCandidate)
    /\ \A e \in files.evidence : e.reward = reward => Belongs(e, spec)

\* Sums over the seeds and, for the objective, over the workloads and algorithms: means
\* over as many compare as sums do.
SeedSum(models, w, metric) == MapThenSumSet(LAMBDA e : e.metrics[w][metric], models)
Passes(models) ==
    \A w \in RewardRule.workloads :
        SeedSum(models, w, "sla") <= Cardinality(models) * RewardRule.threshold[w]
EqualAlgorithm(models, metric) ==
    MapThenSumSet(LAMBDA w : SeedSum(models, w, metric), RewardRule.workloads)

\* decide_reward: among the rewards under which both algorithms serve well on every
\* workload, the cheapest, then by the other metrics and by name.
JointlyFeasible(entry) == entry.selected /\ Passes(entry.dqn) /\ Passes(entry.ppo)
DecideReward(perReward) ==
    LET joint == {r \in DOMAIN perReward : JointlyFeasible(perReward[r])}
        Both(r) == perReward[r].dqn \cup perReward[r].ppo
        name(r) == CHOOSE i \in DOMAIN Rewards : Rewards[i] = r
        Key(r) == <<EqualAlgorithm(Both(r), "cost"), EqualAlgorithm(Both(r), "pressure"),
                    EqualAlgorithm(Both(r), "churn"), EqualAlgorithm(Both(r), "sla"), name(r)>>
    IN  IF joint = {} THEN Fallback
        ELSE CHOOSE r \in joint : \A q \in joint \ {r} : Before(Key(r), Key(q))

RewardReport ==
    [r \in ToSet(Rewards) |->
        [selected |-> files.chosen[r].succeeded, selection |-> files.chosen[r],
         screening |-> ModelsOf(r, DqnScreening),
         dqn |-> ModelsOf(r, DqnRetraining), ppo |-> ModelsOf(r, PpoTraining)]]

RewardContract ==
    [experiment |-> "reward", spec |-> tree.file, reward |-> DecideReward(RewardReport),
     perReward |-> RewardReport]

\* decide --freeze, at any time, also while rewards are still being run. Without a
\* complete and consistent matrix of every reward it fails.
RewardFreeze ==
    /\ experiment = "reward" /\ frozen = NoResult
    /\ LoadsRewardSpec
    /\ \A reward \in ToSet(Rewards) : ExactReward(reward, tree.file)
    /\ frozen' = RewardContract
    /\ UNCHANGED <<raw, runs, files, proc, jobs>> /\ RewardUnchanged

RewardNext ==
    \/ \E reward \in ToSet(Rewards) : RewardLaunch(reward)
    \/ \E reward \in DOMAIN jobs :
            RewardRenamed(reward) \/ RewardTrain(reward) \/ RewardSelect(reward)
    \/ RewardFreeze

\* The parallel commands never take each other's temporary files: none fails at its
\* first rename because of another.
LaunchesSurvive ==
    experiment = "reward" =>
        \A reward \in DOMAIN jobs :
            jobs[reward].pc = "rename" => TempFile(reward) \in files.temps

\* A frozen reward contract rests, for every reward, on models of exactly the
\* candidate that its own screening evidence selects; and the contract's reward
\* served every workload well with both algorithms, unless no reward did.
RewardFrozenWell ==
    LET Entrants(entry) == {[index |-> e.candidate, metrics |-> e.metrics] : e \in entry.screening}
        Served(entry) == /\ entry.dqn # {}
                         /\ \A w \in RewardRule.workloads, m \in {entry.dqn, entry.ppo} :
                                SeedSum(m, w, "sla") <= Cardinality(m) * RewardRule.threshold[w]
    IN  /\ \A r \in ToSet(Rewards) :
            LET entry == frozen.perReward[r]
            IN  /\ entry.selection = Select(RewardRule, Entrants(entry))
                /\ \A e \in entry.dqn : e.candidate = entry.selection.selected
        /\ \/ Served(frozen.perReward[frozen.reward])
           \/ /\ frozen.reward = Fallback
              /\ ~\E r \in ToSet(Rewards) : Served(frozen.perReward[r])
=============================================================================
