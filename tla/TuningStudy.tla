----------------------------- MODULE TuningStudy -----------------------------
(***************************************************************************)
(* A hyperparameter study (run_study): the trials left in the budget are   *)
(* run by one or more workers, each opening tracked runs; the study may be *)
(* interrupted or killed and run again. The parameters of a trial come     *)
(* from the grid (threshold), from TPE (PPO and DQN) or at random, the     *)
(* last two by a sampler seeded for this trial. A trial of a learned       *)
(* controller trains (TrainingRun) inside its first tracked run and        *)
(* validates in a second, nested one; a threshold trial evaluates its      *)
(* workloads in one run after the other.                                   *)
(*                                                                         *)
(* Durable: the study's trials and identity, the tracked runs, the         *)
(* experiment. Volatile: the samplers, the trial contexts, the workers.    *)
(* Optuna and MLflow are modelled as the code here uses them.              *)
(***************************************************************************)
EXTENDS TrainingRun, FiniteSets

CONSTANTS
    Kinds,          \* the studies to run: "ppo", "dqn", "threshold", "parallel"
    Budget,         \* n_trials, or the size of the grid
    Suggestions,    \* parameters suggested per trial
    Workers,        \* the threads of a parallel study (n_jobs)
    OneWorker,      \* the one of a sequential study
    Identities,     \* definitions a user may run the study with
    NoIdentity,
    MaxStops        \* bounds the model: kills, interrupts and failed objectives

ASSUME StudyConfig ==
    /\ Kinds \subseteq {"ppo", "dqn", "threshold", "parallel"}
    /\ Budget \in Nat \ {0}
    /\ Suggestions \in Nat
    /\ IsFiniteSet(Workers) /\ OneWorker \in Workers
    /\ NoIdentity \notin Identities
    /\ MaxStops \in Nat

VARIABLES
    kind,           \* what the objective does
    identity,       \* the definition stored with the study
    trials,         \* the study's trials, by number
    runs,           \* the tracked runs, by id
    experiments,    \* how many tracking experiments of that name exist
    invocation,     \* the call of run_study
    samplers,       \* TrialSeededSampler._samplers: values taken from each
    contexts,       \* trials with a live TrialContext
    workers,        \* what each worker is doing
    stops,          \* stops so far
    cut             \* history: trials that a kill or an interrupt caught

vars == <<kind, identity, trials, runs, experiments, invocation, samplers, contexts,
          workers, stops, cut>>

Learned == {"ppo", "dqn"}
Jobs == IF kind = "parallel" THEN Workers ELSE {OneWorker}
Finished == {"COMPLETE", "PRUNED", "FAIL"}
NoTag == "none"

\* Which sampler proposes: the callers' choice, sequential but for a random one.
Sampler == IF kind = "threshold" THEN "grid" ELSE IF kind \in Learned THEN "tpe" ELSE "random"

Idle == [pc |-> "idle", trial |-> 0, open |-> <<>>, opened |-> 0,
         learn |-> Fresh("ppo"), outcome |-> "none"]
NotRunning == [pc |-> "idle", left |-> 0, raised |-> FALSE]

-----------------------------------------------------------------------------
FinishedTrials == {k \in DOMAIN trials : trials[k].state \in Finished}

\* Slip: every invocation runs the whole budget.
RemainingOfNone == Budget

\* Slip: only completed trials count.
RemainingOfCompleted ==
    Budget - Cardinality({k \in DOMAIN trials : trials[k].state = "COMPLETE"})

Remaining == Budget - Cardinality(FinishedTrials)

\* Slip: all trials share one sampler.
SamplerSeedShared(trial) == 1

\* trial_seed: a seed per trial, the same in every invocation.
SamplerSeed(trial) == trial

\* TrialSeededSampler._sampler: the trial's sampler, made on first use.
WithSampler(trial) ==
    [seed \in DOMAIN samplers \cup {SamplerSeed(trial)} |->
        IF seed \in DOMAIN samplers THEN samplers[seed] ELSE 0]

\* GridSampler.before_trial: a point that no trial finished or has begun, else one
\* that none finished. The grid is the budget, its points are numbered.
Grid == 1 .. Budget
PointsOf(states) == {trials[k].point : k \in {k \in DOMAIN trials : trials[k].state \in states}}
UnvisitedPoints ==
    LET unbegun == Grid \ PointsOf(Finished \cup {"RUNNING"})
        unfinished == Grid \ PointsOf(Finished)
    IN  IF unbegun # {} THEN unbegun ELSE IF unfinished # {} THEN unfinished ELSE Grid

\* The completed history that TPE fits its next proposal to.
CompletedTrials == {k \in DOMAIN trials : trials[k].state \in {"COMPLETE", "PRUNED"}}

Without(f, key) == [k \in DOMAIN f \ {key} |-> f[k]]

SetRuns(ids, field, value) ==
    [r \in DOMAIN runs |->
        IF r \notin ids THEN runs[r]
        ELSE CASE field = "tag" -> [runs[r] EXCEPT !.tag = value]
               [] field = "status" -> [runs[r] EXCEPT !.status = value]]

\* _tag_trial_state: all runs the trial opened in this invocation.
Tagged(trial, state) ==
    SetRuns({trials[trial].runs[i] : i \in DOMAIN trials[trial].runs}, "tag", state)

OpenRuns(w) == {workers[w].open[i] : i \in DOMAIN workers[w].open}

\* How many runs an objective opens, and whether a second one is nested.
RunsPerTrial == 2
Nested == kind \in Learned

At(w, pc) == workers[w].pc = pc
Goto(w, pc) == workers' = [workers EXCEPT ![w].pc = pc]

-----------------------------------------------------------------------------
Init ==
    /\ kind \in Kinds
    /\ identity = NoIdentity
    /\ trials = <<>>
    /\ runs = <<>>
    /\ experiments = 0
    /\ invocation = NotRunning
    /\ samplers = <<>>
    /\ contexts = {}
    /\ workers = [w \in Workers |-> Idle]
    /\ stops = 0
    /\ cut = {}

\* run_study is called: refused under another definition, done if the budget is
\* used up, else it starts the remaining trials. Sampler and contexts are new.
Invoke(asked) ==
    /\ invocation.pc = "idle"
    /\ identity' = IF identity = NoIdentity THEN asked ELSE identity
    /\ invocation' = IF identity' = asked /\ Remaining > 0
                     THEN [pc |-> "optimize", left |-> Remaining, raised |-> FALSE]
                     ELSE NotRunning
    /\ samplers' = <<>>
    /\ contexts' = {}
    /\ UNCHANGED <<kind, trials, runs, experiments, workers, stops, cut>>

\* A free worker begins the next trial; a sequential study stops at an error, a
\* parallel one may notice it later.
Begin(w) ==
    /\ invocation.pc = "optimize" /\ invocation.left > 0
    /\ invocation.raised => kind = "parallel"
    /\ w \in Jobs /\ At(w, "idle")
    /\ LET trial == Len(trials) + 1
       IN  /\ \E point \in IF Sampler = "grid" THEN UnvisitedPoints ELSE {0} :
                trials' = Append(trials, [state |-> "RUNNING", params |-> <<>>,
                                          runs |-> <<>>, point |-> point])
           /\ samplers' = IF Sampler = "grid" THEN samplers ELSE WithSampler(trial)
           /\ contexts' = contexts \cup {trial}
           /\ workers' = [workers EXCEPT ![w] =
                [Idle EXCEPT !.pc = "suggest", !.trial = trial,
                             !.learn = Fresh(IF Nested THEN kind ELSE "ppo")]]
    /\ invocation' = [invocation EXCEPT !.left = @ - 1]
    /\ UNCHANGED <<kind, identity, runs, experiments, stops, cut>>

\* The next parameter: the one of the trial's stored grid point, or the next value
\* of its own sampler, which for TPE depends on the completed history too.
Suggest(w) ==
    /\ At(w, "suggest")
    /\ LET trial == workers[w].trial
           seed == SamplerSeed(trial)
           position == Len(trials[trial].params) + 1
           Propose(value) == trials' = [trials EXCEPT ![trial].params = Append(@, value)]
       IN  IF position > Suggestions
           THEN Goto(w, "lookup") /\ UNCHANGED <<trials, samplers>>
           ELSE /\ IF Sampler = "grid"
                   THEN Propose(<<trials[trial].point, position, {}>>) /\ UNCHANGED samplers
                   ELSE /\ samplers' = [WithSampler(trial) EXCEPT ![seed] = @ + 1]
                        /\ Propose(<<seed, samplers'[seed],
                                     IF Sampler = "tpe" THEN CompletedTrials ELSE {}>>)
                /\ UNCHANGED workers
    /\ UNCHANGED <<kind, identity, runs, experiments, invocation, contexts, stops, cut>>

\* start_tracked_run, first part: the experiment is looked up by name.
LookUp(w) ==
    /\ At(w, "lookup")
    /\ Goto(w, IF experiments > 0 THEN "open" ELSE "create")
    /\ UNCHANGED <<kind, identity, trials, runs, experiments, invocation, samplers,
                   contexts, stops, cut>>

\* Slip: whoever finds that another worker was quicker fails.
CreateOrFail(w) ==
    /\ At(w, "create")
    /\ IF experiments > 0
       THEN workers' = [workers EXCEPT ![w].pc = "leave", ![w].outcome = "FAIL"]
            /\ UNCHANGED experiments
       ELSE Goto(w, "open") /\ experiments' = 1
    /\ UNCHANGED <<kind, identity, trials, runs, invocation, samplers, contexts, stops, cut>>

\* It was missing and is created; the tracking store refuses a second one of
\* that name, and the loser joins the winner's.
Create(w) ==
    /\ At(w, "create")
    /\ experiments' = IF experiments > 0 THEN experiments ELSE 1
    /\ Goto(w, "open")
    /\ UNCHANGED <<kind, identity, trials, runs, invocation, samplers, contexts, stops, cut>>

\* The run is created and noted on the trial at once.
Open(w) ==
    /\ At(w, "open")
    /\ LET id == Len(runs) + 1
           trial == workers[w].trial
       IN  /\ runs' = Append(runs, [trial |-> trial, experiment |-> experiments,
                                    status |-> "RUNNING", tag |-> NoTag])
           /\ trials' = [trials EXCEPT ![trial].runs = Append(@, id)]
           /\ workers' = [workers EXCEPT
                ![w].open = Append(@, id), ![w].opened = @ + 1,
                ![w].pc = IF Nested /\ workers[w].opened = 0 THEN "learn" ELSE "inside"]
    /\ UNCHANGED <<kind, identity, experiments, invocation, samplers, contexts, stops, cut>>

\* The model learns, one step of the library after the other, and is then
\* validated in a run of its own.
Learn(w) ==
    /\ At(w, "learn")
    /\ IF workers[w].learn.phase = "done"
       THEN workers' = [workers EXCEPT ![w].pc = "lookup", ![w].learn = Idle.learn]
       ELSE \E next \in LearnSteps(workers[w].learn) :
                workers' = [workers EXCEPT ![w].learn = next]
    /\ UNCHANGED <<kind, identity, trials, runs, experiments, invocation, samplers,
                   contexts, stops, cut>>

\* A tracked run ends well, or with the trial pruned inside it; the objective
\* goes on to its next run or leaves with a value.
Close(w) ==
    /\ At(w, "inside")
    /\ \E pruned \in IF Nested THEN {FALSE} ELSE BOOLEAN :
        LET last == workers[w].open[Len(workers[w].open)]
            done == pruned \/ workers[w].opened = RunsPerTrial
        IN  /\ runs' = SetRuns(IF done THEN OpenRuns(w) ELSE {last}, "status", "FINISHED")
            /\ workers' = [workers EXCEPT
                    ![w].open = <<>>,
                    ![w].pc = IF done THEN "leave" ELSE "lookup",
                    ![w].outcome = CASE pruned -> "PRUNED"
                                     [] ~pruned /\ done -> "COMPLETE"
                                     [] OTHER -> @]
    /\ UNCHANGED <<kind, identity, trials, experiments, invocation, samplers, contexts,
                   stops, cut>>

\* The objective raises: every open run ends as failed, and because an uncaught
\* error ends optimize() before its callback, the handler tags the runs.
RaiseError(w) ==
    /\ workers[w].pc \in {"lookup", "learn", "inside"} /\ stops < MaxStops
    /\ stops' = stops + 1
    /\ LET trial == workers[w].trial
           failed == SetRuns(OpenRuns(w), "status", "FAILED")
       IN  runs' = [r \in DOMAIN failed |->
                        IF runs[r].trial = trial THEN [failed[r] EXCEPT !.tag = "FAIL"]
                        ELSE failed[r]]
    /\ contexts' = contexts \ {workers[w].trial}
    /\ workers' = [workers EXCEPT ![w].pc = "leave", ![w].outcome = "FAIL",
                                     ![w].open = <<>>, ![w].learn = Idle.learn]
    /\ UNCHANGED <<kind, identity, trials, experiments, invocation, samplers, cut>>

\* Slip: the sampler is not kept to the end of its trial but dropped with any.
LeaveDroppingAll(w) ==
    /\ At(w, "leave")
    /\ trials' = [trials EXCEPT ![workers[w].trial].state = workers[w].outcome]
    /\ samplers' = <<>>
    /\ invocation' = IF workers[w].outcome = "FAIL"
                     THEN [invocation EXCEPT !.raised = TRUE] ELSE invocation
    /\ workers' = [workers EXCEPT ![w] =
            IF @.outcome = "FAIL" THEN Idle ELSE [@ EXCEPT !.pc = "callback"]]
    /\ UNCHANGED <<kind, identity, runs, experiments, contexts, stops, cut>>

\* Optuna stores the trial's state and calls after_trial, which drops the
\* trial's sampler. An error is raised to the caller instead of the callback.
Leave(w) ==
    /\ At(w, "leave")
    /\ trials' = [trials EXCEPT ![workers[w].trial].state = workers[w].outcome]
    /\ samplers' = Without(samplers, SamplerSeed(workers[w].trial))
    /\ invocation' = IF workers[w].outcome = "FAIL"
                     THEN [invocation EXCEPT !.raised = TRUE] ELSE invocation
    /\ workers' = [workers EXCEPT ![w] =
            IF @.outcome = "FAIL" THEN Idle ELSE [@ EXCEPT !.pc = "callback"]]
    /\ UNCHANGED <<kind, identity, runs, experiments, contexts, stops, cut>>

\* Slip: pruned trials are not tagged.
CallbackOfComplete(w) ==
    /\ At(w, "callback")
    /\ LET trial == workers[w].trial
       IN  /\ runs' = IF trials[trial].state = "COMPLETE"
                      THEN Tagged(trial, trials[trial].state) ELSE runs
           /\ contexts' = contexts \ {trial}
    /\ workers' = [workers EXCEPT ![w] = Idle]
    /\ UNCHANGED <<kind, identity, trials, experiments, invocation, samplers, stops, cut>>

\* tag_runs: the runs of the trial learn its final state.
Callback(w) ==
    /\ At(w, "callback")
    /\ LET trial == workers[w].trial
       IN  /\ runs' = IF trial \in contexts THEN Tagged(trial, trials[trial].state) ELSE runs
           /\ contexts' = contexts \ {trial}
    /\ workers' = [workers EXCEPT ![w] = Idle]
    /\ UNCHANGED <<kind, identity, trials, experiments, invocation, samplers, stops, cut>>

\* optimize() returns or raises once no worker is busy.
Return ==
    /\ invocation.pc = "optimize"
    /\ \A w \in Workers : At(w, "idle")
    /\ invocation.left = 0 \/ invocation.raised
    /\ invocation' = NotRunning
    /\ UNCHANGED <<kind, identity, trials, runs, experiments, samplers, contexts,
                   workers, stops, cut>>

Busy == {w \in Workers : ~At(w, "idle")}

\* Ctrl-C in a sequential study: the open runs are marked as killed, Optuna
\* stores the trial as failed, and neither handler nor callback tags its runs.
Interrupt ==
    /\ invocation.pc = "optimize" /\ stops < MaxStops
    /\ kind # "parallel" /\ workers[OneWorker].pc \in {"suggest", "lookup", "create", "open", "learn", "inside"}
    /\ stops' = stops + 1
    /\ runs' = SetRuns(OpenRuns(OneWorker), "status", "KILLED")
    /\ trials' = [trials EXCEPT ![workers[OneWorker].trial].state = "FAIL"]
    /\ cut' = cut \cup {workers[OneWorker].trial}
    /\ invocation' = NotRunning
    /\ workers' = [w \in Workers |-> Idle]
    /\ samplers' = <<>>
    /\ contexts' = {}
    /\ UNCHANGED <<kind, identity, experiments>>

\* The process is killed: what it ran stays as it is in both stores.
Kill ==
    /\ invocation.pc = "optimize" /\ stops < MaxStops
    /\ stops' = stops + 1
    /\ cut' = cut \cup {workers[w].trial : w \in Busy}
    /\ invocation' = NotRunning
    /\ workers' = [w \in Workers |-> Idle]
    /\ samplers' = <<>>
    /\ contexts' = {}
    /\ UNCHANGED <<kind, identity, trials, runs, experiments>>

Work(w) ==
    \/ Begin(w) \/ Suggest(w) \/ LookUp(w) \/ Create(w) \/ Open(w) \/ Learn(w)
    \/ Close(w) \/ Leave(w) \/ Callback(w)

Next ==
    \/ \E asked \in Identities : Invoke(asked)
    \/ \E w \in Workers : Work(w) \/ RaiseError(w)
    \/ Return \/ Interrupt \/ Kill

Spec == Init /\ [][Next]_vars

\* Workers make progress, and whoever began the study runs it again.
FairSpec ==
    /\ Spec
    /\ \A w \in Workers : WF_vars(Work(w))
    /\ WF_vars(Return)
    /\ WF_vars(\E asked \in Identities : identity = asked /\ Invoke(asked))

-----------------------------------------------------------------------------
\* What trial k proposes depends on nothing that a stop loses or another worker
\* changes: its number alone if it is random; its number and which trials before
\* it were completed, if it is TPE's ("given the same completed history"); its
\* stored point on a grid, and no point is finished twice. The table of samplers
\* holds running trials only.
CompletedBefore(k) == {i \in 1 .. k - 1 : trials[i].state \in {"COMPLETE", "PRUNED"}}
Proposal(k, j) ==
    CASE Sampler = "grid" -> <<trials[k].point, j, {}>>
      [] Sampler = "tpe" -> <<k, j, CompletedBefore(k)>>
      [] Sampler = "random" -> <<k, j, {}>>
TrialsSampleAlike ==
    /\ \A k \in DOMAIN trials : \A j \in DOMAIN trials[k].params :
            trials[k].params[j] = Proposal(k, j)
    /\ Sampler = "grid" => \A i, k \in FinishedTrials :
            i # k => trials[i].point # trials[k].point
    /\ invocation.pc = "optimize" =>
            Cardinality(DOMAIN samplers) <= Cardinality(Busy)

\* "A resumed study proposes exactly the same trials as an uninterrupted one":
\* when the budget is used up, and no trial failed, its finished trials are those
\* that trials 1 to Budget would have been.
ResumedProposesTheSame ==
    FinishedTrials = CompletedTrials /\ Cardinality(FinishedTrials) = Budget =>
        {trials[k].params : k \in FinishedTrials} =
            {[j \in 1 .. Suggestions |->
                <<k, j, IF Sampler = "tpe" THEN 1 .. k - 1 ELSE {}>>] : k \in 1 .. Budget}

\* "When the trial ends, every one of its runs is tagged with the final state",
\* unless its process was killed or interrupted; a tag never tells another
\* state, a completed trial has no failed run, all runs are of one experiment,
\* and nothing but a stop, certainly not the race to create the experiment,
\* fails a trial.
RunsTellTheirTrial ==
    /\ \A r \in DOMAIN runs :
        LET trial == runs[r].trial
            ended == trials[trial].state \in Finished
            busy == \E w \in Busy : workers[w].trial = trial
        IN  /\ ended /\ ~busy /\ trial \notin cut => runs[r].tag = trials[trial].state
            /\ ended /\ runs[r].tag # NoTag => runs[r].tag = trials[trial].state
            /\ trials[trial].state = "COMPLETE" => runs[r].status = "FINISHED"
            /\ runs[r].experiment = 1
    /\ Cardinality({k \in DOMAIN trials : trials[k].state = "FAIL"}) <= stops

\* Whatever a trial's training does, its checkpoints and its learning curve are
\* those of the model (see TrainingRun).
LearningRecorded ==
    \A w \in Workers :
        workers[w].learn.steps > 0 =>
            CheckpointsExact(workers[w].learn) /\ CurveComplete(workers[w].learn)

\* n_trials is the total budget, and a finished grid point is not run again: a
\* study that is run again after every kill, error and interrupt comes to
\* exactly that many finished trials and stays there.
StudyCompletes == identity # NoIdentity ~> [](Cardinality(FinishedTrials) = Budget)
=============================================================================
