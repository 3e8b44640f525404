# Formal models of ScaleRL

ScaleRL simulates a replicated web service whose size is chosen, tick by tick, by
an autoscaling controller (thresholds, forecasts or a learned policy), and
evaluates controllers against one another. This directory holds TLA+ models of
the parts of it that keep state, the TLC runs that check them, and theorems about
them checked by TLAPS. Paths below are relative to the repository root.

## 1. The system

### Components, their state and their operations

| component | source | state | operations |
|---|---|---|---|
| replica pool | `src/scalerl/environment/replicas.py` | serving count, pending list with two clocks per replica, terminating count | `scale_up`, `scale_down`, `advance`, `reset`, two schedules by tick |
| startup sampling | `environment/startup.py` | position of a seeded generator | one multiplier of a tri-point distribution per replica |
| action contract | `environment/actions.py` | none | code to target and back under `delta-v1` and `desired-replicas-v1` |
| queue, clock, trace replay | `environment/queue.py`, `clock.py`, `workloads/trace.py` | backlog, elapsed ticks, position | serve one tick, step, next demand |
| environment | `environment/gym_env.py` | all of the above, a telemetry buffer, two generators, whether an episode runs | `reset`, `step`, `visible_telemetry`, `decision_info` |
| metrics, reward, observation | `environment/metrics.py`, `reward.py`, `observation.py` | none | arithmetic |
| threshold controller | `controllers/threshold.py` | cooldown, last tick counted, last decision | `reset`, `act` |
| predictive controllers | `controllers/predictive.py`, `proactive_predictive.py` | recent samples, forecasts | `reset`, `act` |
| baseline controllers | `controllers/baselines.py` | none, or a seeded generator | `act` |
| multi-seed runner | `evaluation/multiseed.py` | plan file, raw rows, outputs, tracked runs | `run_plan`, `summarize` |
| held-out, startup and baseline evaluations | `evaluation/heldout.py`, `startup_robustness.py`, `predictive_baseline.py` | raw rows, forecast records, tracked runs, a frozen result | spec, run, freeze: each predeclared case once |
| action-contract experiment, reward ablation | `evaluation/action_semantics.py`, `reward_ablation.py` | evidence files per trained policy, selections, raw rows, a frozen decision | training commands in parallel, selection, decision |
| sim-to-real protocol | `evaluation/sim_to_real.py` | schedules, two manifests and a protocol | freeze file by file, check file by file |
| model selection | `evaluation/model_selection.py` | a frozen rule | freeze, diagnose |
| tracking | `mlops/tracking.py` | a run's status in MLflow | `start_tracked_run` |
| studies | `tuning/study.py`, `_sampler.py` | an Optuna study, samplers per trial | `run_study` |
| training | `training/common.py` | callbacks' windows and saved checkpoints | `train_and_validate` |
| dashboard | `dashboard/app.py`, `playback.py`, `session.py` | one session, playback, script state | callbacks, script run, timer-driven fragment |

### How they interact

`AutoscalingEnv.step` translates the action code into a target, asks the pool for
the difference, serves the tick's demand and the backlog with the replicas that
are serving now, measures, and lets one control interval pass in the pool. A
controller reads `decision_info`: current replica counts and the newest
measurement that the telemetry delay lets through. Evaluation runs whole
episodes and stores one row each, with MLflow as a second record of what
finished. The dashboard drives the same environment from callbacks of a web page
and from a timer.

### What is hard, and what makes each part correct

* **Pool.** Startup times are random, so replicas overtake one another while
  cancellation is defined by age; the schedule shown to controllers is nominal,
  the physical one is not. Correct means: bounds on committed and on serving
  replicas, request order kept, every starting replica shown exactly once, and
  everything committed gets to serve.
* **Environment.** Much state is restarted by `reset`, two random sequences must
  not influence one another, and the delayed view is cut from a bounded buffer.
  Correct means: episodes are reproducible, demand and capacity do not depend on
  the policy, requests are conserved, a controller sees exactly the ticks it may.
* **Threshold controller.** It learns what it did from the info it is shown
  later, which may be clipped, repeated or missing. Correct means: a cooldown
  exactly as long as configured, no decision without a measurement, and bounds
  that are restored one replica at a time.
* **Multi-seed runner.** It may stop anywhere, inside a file write too. Correct
  means: no case twice, none skipped, no mixture of plans, and completion when
  it is resumed.
* **Dashboard.** Clicks refer to an old page, interrupt script runs and compete
  with a timer. Correct means: one driver at a time, no tick by a redraw, no
  catch-up after a late timer, no playback of a session that cannot be played.
* **Predictive controllers.** They decide on samples of an old tick for a tick to
  come. Correct means: one sample per tick and the right one, capacity that is
  there when a ramp arrives, none removed while requests wait.
* **Studies.** Several workers share one table of samplers and one set of tracked
  runs; a study is stopped and run again. Correct means: what a trial proposes
  depends on nothing that a stop loses or another worker changes (on its number; under
  TPE also on the trials completed before it; on a grid on the points left), its runs
  carry its outcome, and the budget is spent exactly.
* **Training.** Callbacks see the model only between steps, while it learns
  between rollouts. Correct means: a checkpoint holds exactly the learning of its
  step, a learning curve every episode once.
* **Experiments.** Evidence is gathered over days, by commands that are stopped and
  resumed, while code, data and commits change under them. Correct means: what is
  frozen rests on complete evidence of one definition, one version of the inputs
  and (held-out) one clean commit, and nothing is left out silently.

`PROJECT.json` lists each of these hazards at its line with the properties that
cover it, the uncovered ones with the reason.

## 2. The modules

| module | models | extends or instantiates |
|---|---|---|
| `ReplicaLifecycle` | the pool's data and operations as operators, `PoolInv` | |
| `ReplicaPool` | the pool as a state machine, called in any order | `ReplicaLifecycle`; INSTANCEs `Fleet`, `StartupPipeline` |
| `Fleet` | abstract: what a caller may rely on whatever the startup times | |
| `StartupPipeline` | abstract: a shift register, what a controller may rely on under fixed startup | |
| `ActionContract` | action codes and targets | |
| `AutoscalingEnv` | `reset` and `step` with pool, queue, replay, clock, generators, telemetry | `ReplicaLifecycle`, `ActionContract` |
| `EpisodeReplay` | the environment with the record of two successive episodes | `AutoscalingEnv` |
| `ThresholdLoop` | the threshold controller in its loop with the environment | `AutoscalingEnv` |
| `ScenarioLab` | dashboard session, playback, script runs, browser timer, stale page | |
| `EvaluationPlan` | `run_plan` with its files, its tracked runs and stops anywhere | |
| `PredictiveLoop` | the linear, the seasonal and the static controller in their loop with the environment | `AutoscalingEnv` |
| `TrainingRun` | one call of `learn()` as a value, the two callbacks that watch it | |
| `TuningStudy` | `run_study`: workers, samplers, tracked runs, stops and resumption | `TrainingRun` |
| `CaseRuns` | what the experiments share: checkout, inputs, files, tracked runs, the user | |
| `ModelSelection` | the selection rule, pure | |
| `HeldoutRun`, `StartupRun`, `BaselineRun` | the three serial evaluations, from spec to frozen result | `CaseRuns` |
| `ActionSemantics`, `RewardAblation` | the two experiments with parallel training commands | `CaseRuns`, `ModelSelection` |
| `SimToReal`, `SelectionRun` | the frozen protocol, the frozen rule | `CaseRuns`, `ModelSelection` |
| `MCReplicaPool`, `MCEpisodeReplay`, `MCThresholdLoop`, `MCPredictiveLoop`, `MCTuningStudy` | values of the constants for TLC | |
| `AllExperiments` | all seven experiments and the user composed | the seven modules |
| `MCExperiments` | values of their constants for TLC | `AllExperiments` |
| `Sums` | sums of sequences as a recursive function, which proofs can unfold | |
| `ReplicaLifecycleProofs` | lemmas about the pool's operations, running sums, induction | `ReplicaLifecycle`, `Sums` |
| `ReplicaPoolProofs` | theorems about the pool, the two refinements | `ReplicaPool` |
| `AutoscalingEnvProofs` | theorems about the environment and whole episodes | `EpisodeReplay` |
| `ControllerProofs` | theorems about the loops of the threshold, the forecasting and the static controllers | `ThresholdLoop`, `PredictiveLoop` |
| `ScenarioLabProofs`, `EvaluationPlanProofs`, `TuningStudyProofs` | theorems about dashboard, plan, studies and training | the module of the name |
| `ExperimentProofs` | theorems about all experiments at once | `AllExperiments` |

Definitions called *slips* in the comments are plausible mistakes in the code
beside them. No specification uses them: each one, put in the place of its
neighbour, must make TLC report the property it is paired with in
`PROJECT.json`.

### State and actions against the code

*Pool.* `pool.active`, `pool.pending`, `pool.terminating` are the fields of
`ReplicaPool`; a pending record carries `remaining` and `nominal`, the two clocks
of `PendingReplica`. Time is counted in half seconds, so that a multiplier in
{0.5, 1, 1.5} (as 1, 2, 3) of a whole delay stays whole; the tolerance of one
nanosecond then has no counterpart. `ScaleUp`, `ScaleDown`, `Advance`, `Reset`
are the four methods.

*Environment.* A `world` fixes what is given before the first reset: the trace and
the two sequences that the seeds determine; `draws` counts what was taken from
each. `Reset` and `Step(code)` are the whole methods. Requests per tick and per
replica are whole numbers. Latency, cost, reward and the observation vector are
functions of the measurements kept, and are left out.

*Threshold loop.* `controller` holds `_cooldown_remaining`, `_consumed_tick` and
the last decision; `Decided` is `act`, branch by branch, with utilization as an
integer percentage. `Tick` is one iteration of the runner; `Consult` asks the
controller without stepping, as diagnostics do.

*Dashboard.* `playback` is `PlaybackState` with the time left instead of a
deadline. `phase` follows the script of `main()`: a click runs its callback, then
the script; a new click interrupts it between its parts. `shown` is what the
controls on the page were drawn for, which is what can be clicked. The order in
which Streamlit runs callbacks, fragments and timers is modelled from how
`app.py` uses it.

*Evaluation plan.* `planFile`, `raw` and `runs` are durable, `proc` is lost when the
invocation stops. The plan file is replaced atomically, as `EvaluationPlan.save`
does it; the raw file is appended to, and truncated and rewritten by the repair.
A stop inside either leaves any prefix of what was being written.

*Predictive loop.* `forecaster` holds the samples, the tick last consumed and the
last decision. A forecast is an exact fraction, the trend a least-squares line;
the code rounds to floats. `PolicyTick` is one iteration of the runner,
`PolicyConsult` a decision nobody acts on. Sizing, the backlog hold, the encoding under either
contract and the seasonal controller's scale-in by one are the branches of `act`.

*Study.* `trials`, `identity`, `runs` and `experiments` are in the two stores and
survive; `samplers`, `contexts`, `workers` are lost with the process. A worker
goes through `Begin` (a trial number), `Suggest`, `LookUp`/`Create` (the tracking
experiment, which two workers may create at once), `Open`, `Learn`, `Close`,
`Leave` and `Callback` (the tags). `RaiseError` is an objective that fails,
`Interrupt` Ctrl-C, `Kill` the end of the process. Optuna and MLflow are external
and modelled from how the code uses them. The sampler is the one each caller of
`run_study` asks for: Optuna's grid sampler for thresholds, which takes a point that
no stored trial has finished; TPE for PPO and DQN, seeded by the trial number and
fed with the completed trials; a random sampler, seeded by the trial number, for the
parallel study, as in the tests (`docs/MLOPS.md` makes no promise about TPE with
several workers). A parameter is the tuple of what it was computed from. The grid
sampler also stops a study itself when no point is left, which is when the budget,
the size of the grid, is used up. A threshold trial that failed counts toward that
budget and its point is not evaluated again; a trial that was interrupted is failed
and its runs carry no tag.

*Training.* `TrainingRun` keeps which step a policy has learned up to, what the
library's logger holds and what the callbacks have written; `LearnSteps` is every
way one more step of `learn()` can go. Stable-Baselines3 is external.

*Experiments.* `tree` is the checkout (commit, uncommitted edits, what the code
builds, the frozen file), `inputs` the version of what no definition fixes, `raw`
and `files` what is on disk, `runs` what MLflow holds, `proc` the serial command,
`jobs` the parallel ones, `frozen` the result. Each command of a module is a chain
of actions split where another command, the user or a stop can come between:
load, begin, scan, recover, check, open, tag, finish, append, return; a training
command trains and saves one policy at a time. The user (`UserChanges`) edits the
definition, writes the spec file, exchanges inputs, removes evidence and stops
commands anywhere, also inside a write; in the held-out evaluation, the only one
that looks at commits, he commits and checks out too (`GitChanges`). Metrics of an
episode are small records or one number, given per case and version of the inputs,
so that a row of other inputs can be told apart. `ActionSemantics` recovers a row
by its case alone, as the code does, and its rows name no inputs (their field is
always 0); the consistency check of the decision is what then refuses rows of other
models. The check of the sim-to-real protocol is a job beside the freeze: it reads
the two manifests and the protocol, then schedule by schedule, then the listing of
the directory and, given the source data, every schedule once more; other code may be
checked out and write between two reads. As in the code it
compares the protocol with what the checking code pins and states, and the
controller manifest only with itself and with the protocol: that manifest
is never built again. What the code makes of a definition is therefore split in two:
`Upstream` (the pinned artifacts) and `LoadSeeds` (what else the protocol states).
`SelectionRun` keeps of a tracked evaluation what the five filters of the nominal
rows look at. `decide` does not compute the stored selections
again, but retrained models must match them.

## 3. What is checked

| run | instance | what it shows |
|---|---|---|
| `pool_tripoint` | 1 to 4 replicas, delay of 5 seconds times {0.5, 1, 1.5}, interval 2, uneven advances, fairness | bounds, request order, a schedule that errs by at most half a startup and omits nobody, refinement of `Fleet`, committed capacity gets to serve |
| `pool_fixed` | 2 to 6 replicas, fixed startup over three ticks | the visible schedule is exactly a shift register (refinement of `StartupPipeline`) |
| `replay` | 5 ticks, startup of three ticks, jittered capacity, delay 1, history 2, four worlds over both action contracts | reproducibility, common random numbers, conservation, the delayed view, exact targets; with nominal startups, what serves a tick is the least capacity committed in the startup window |
| `threshold` | controller bounds 1 to 3, environment 2 to 5, delay 1, cooldown 2, every demand over 6 ticks, both action contracts | exact cooldown (also after clipped requests and repeated decisions), exact corrections, the same step under both contracts |
| `lab_clicks` | episodes of 2 ticks, the code's four speeds, every click at every moment, fairness | one driver, no burst, a timer exactly while playing, playback left alone ends |
| `lab_inspect` | expects a violation | see Findings |
| `plan_resumes` | 2 plans, the file of one removable, 3 cases, 3 stops, fairness | rows in plan order, from finished runs, of one plan; every case of a plan that is not deleted finishes once; resuming completes it with every case once |
| `predictive` | 1 to 10 replicas, startup of two ticks, 8 ticks, 15 ramps and 27 bursts under both contracts, three controllers, no delay | samples are the latest demands; a ramp within reach is served without a waiting request and at the target utilization; no careless reduction |
| `predictive_delayed` | one ramp, delay 1, expects a violation | see Findings |
| `study` | `ppo`, `dqn`, `threshold` and a parallel study of two workers; budget 2, 2 suggestions, one stop or error, two definitions, fairness | what a trial proposes is what its sampler computes from its number and the completed trials, no grid point is finished twice; runs tell their trial; checkpoints and curves are exact; the budget is spent exactly |
| `study_resumed` | `ppo` with one worker, budget 2, one stop; expects a violation | see Findings |
| `experiments` | seven experiments, three versions of the inputs, two changes by the user; two definitions (held-out: nominal with a replay, or jitter and delay under two dynamics seeds with a startup scenario of two seeds), for sim-to-real four | rows tell their runs; what is frozen, or accepted by a check, is well founded (one conjunct per experiment); parallel commands do not fail each other |

Each run is kept for a question of its own; an invariant that another checked
property implies on the same instance is not listed twice.

**Why the bounds are enough.** The pool needs room for an early, a nominal and a
late replica at once, a cancellation that reaches some of them, and a reduction that
reaches serving ones: four replicas give that, and the theorems cover the rest.
Three control intervals of startup are the shortest schedule with a first, a middle
and a last bucket. An episode is longer than delay plus history plus one, so the
buffer fills and drops. Demand includes nothing, less than and more than the fleet
serves. The controller's bounds leave the environment's at both ends, so there are
corrections above and clipped requests below. Cooldown 2 is the shortest with an
inner tick. Two ticks in the dashboard give a tick that does not complete the
episode and one that does; its unit is a twentieth of a second, in which the code's
speeds 0.5x, 1x, 2x and 5x have the periods 40, 20, 10 and 4; `Lateness` lets a
check come more than a period late. Three cases and three stops allow a stop before,
in and after a repaired case. `TerminatingBound` limits successive reductions with
no time between them, a counter that otherwise grows by at most the fleet per call;
`MaxStops` counts crashes. The ramps of `predictive` rise and fall at several slopes
and leave the initial fleet too large and too small; the profile holds a silent tick
and ends before the episode. In `study` two rollouts to an interval, one learning
start and two checkpoints give a checkpoint before and after the first update; one
stop is enough to resume, and the second definition to be refused. `MaxChanges`
counts edits, exchanged inputs, removed evidence and stops of the user in the
experiments: two allow a change and a change back, a stop and a change before the
resumption, or a mixture of two versions. The second definition of the held-out
evaluation, with more conditions and seeds than the first, is reached by an edit, so
one change is left for it. The four definitions of the sim-to-real protocol are the
first, one with other load seeds, one with another controller manifest only and one
with other pins. There a serial command begins only when no parallel one runs,
training and saving one policy is one step (what is not saved leaves nothing
behind), and nothing happens once a result is frozen. Two cases, candidates, seeds
and rewards each make one missing, one repeated and one exchanged possible. In
`study_resumed` a budget of two is the smallest in which a later number can take the
place of an earlier one.

**Deadlock** is checked in every run but `experiments`, where a frozen result ends a
behaviour, and so does a definition that does not load once the changes are
used up.

**Fairness.** `pool_tripoint` assumes for `Converges` that time passes:
every step of the environment ends in an advance. `lab_clicks` assumes for
`Completes` that a requested script
run happens, that the timer keeps firing and that time passes; nothing is assumed
of the user, and the property only speaks of runs in which clicks end.
`plan_resumes` assumes that an invocation makes progress and that somebody invokes
the plan with resume again; stops are bounded by `MaxStops`, so they are finitely
many. `study` assumes for `StudyCompletes` that each worker makes progress, that
`run_study` returns, and that the user who began the study runs it again with the
same definition; stops, interrupts and errors are bounded by `MaxStops`. The
experiments have no liveness property: every command of theirs needs a person.

### Findings

`lab_inspect`: `MODE_HELP` (`dashboard/app.py:95`) says that Inspect "advances
deliberately, one tick per click". A Play click on a Live City page whose switch to
Inspect is already handled starts playback in Inspect, because `start_playback`
(`dashboard/playback.py:119`) does not look at the mode; the fragment's timer then
advances the episode until a control stops it.

`predictive_delayed`: `_record_sample` promises to "Add the latest completed
tick's demand once, keyed by its tick" (`controllers/predictive.py:342`). The key
is the tick of the info, the demand the newest that the telemetry delay lets
through: under a delay each sample is recorded under a later tick than its own.
Spacing is kept, so the slope is right, but the forecast is short by the delay.

`study_resumed`: `docs/MLOPS.md:285` says that "a resumed study proposes exactly the
same trials as an uninterrupted one". Optuna numbers every trial that was begun, and
the seed comes from that number (`tuning/_sampler.py`), while `run_study` counts
finished trials only: a kill within trial *k* uses its number up, the study
completes its budget with a later number, and what trial *k* would have proposed is
never tried. What does hold, `TrialsSampleAlike`, is the narrower statement of
`_sampler.py`: the same number with the same completed history samples alike.

## 4. What is proved

All theorems hold for every value of the constants that satisfies the assumptions
named in the modules (`ReplicaConfig`, `TimingConfig`, the two of `ReplicaPool`,
`EnvConfig`, `WorldConfig`, `ControllerConfig`, `PredictiveConfig`, `LabConfig`,
`PlanConfig`, `TrainingConfig`, `StudyConfig`), which are the ranges the
configuration classes enforce and, for the dashboard, the plan and the study, what
the code's own constants and identifiers guarantee.

* `ReplicaLifecycleProofs` shows what each pool operation preserves. The invariant
  `PoolInv` is the type of the pool, the bounds on committed and serving
  replicas, `OldestFirst` and `ClocksAgree`. The last two are needed because
  `advance` filters the list: the filter must be shown to keep order
  (`NthIsOrdered`), and that a replica is due depends on both of its clocks.
  `Inductive` is induction over the naturals, from the well-foundedness of finite
  sets under inclusion: it speaks of a set of numbers instead of a predicate, so
  the provers can use it. `SumsExist` and `SumsAre` derive by it that a running
  sum exists and what it is: every statement about sums rests on them.
* `ReplicaPoolProofs`: `PoolInvariant`, and from it `TypeCorrect`, `BoundsHold`
  and `OrderKept`; `PromiseKept` shows that the pool implements
  `Fleet`: every scale-up or scale-down maps to an order or a release of the same
  request, an advance to a settlement of however many became ready.
  `ScheduleIsHonest`: each of the two clocks of a replica counts down from a
  startup within half of the nominal one of the other and both lose the same
  time, so the ticks they round up to differ by at most `HalfStartup`; rounding
  twice costs nothing, which is what `RoundedSum` shows. `ScheduleIsExact` shows
  that the pool implements `StartupPipeline` under the two conditions the
  abstraction is about: one fixed startup time (`Multipliers = {2}`) and calls
  to `advance` of whole control intervals, which are the only ones the
  environment makes. Both clocks of a replica then agree, pending replicas are due
  in the order of their requests, and the replicas shown up to a bucket are a
  prefix of the list (`RegisterSums`); so a request enters the last bucket
  (`RequestEnters`), a cancellation empties buckets from the last one on
  (`ReleaseTruncates`) and an interval shifts them by one (`IntervalShifts`).
* `AutoscalingEnvProofs`: `EpisodeInvariant` adds the counters. Its point is the
  bound on the startup generator (at most `MaxReplicas` draws per elapsed tick),
  without which a draw beyond the seeded sequence could not be excluded and
  nothing could be said of the pool after a scale-up; `TargetReached` needs that
  the two clamps agree; `TargetsReached` follows.
  `TelemetryInvariant` says that the buffer is the latest ticks of the running
  episode, newest first, and `DelayedTruth` concludes what a controller sees. Together they
  give `EnvTypes`.
  Its second half is about whole episodes. `WindowInvariant`: `WindowInv`
  gives every starting replica an *age*, the decisions since it was requested.
  Its clock is the nominal delay less that many intervals, the fleet was
  committed to at least its rank at every decision since and to less before.
  The age is needed because the pool keeps no request times, and its rank because
  a cancellation takes the newest: a replica survives exactly as long as the
  commitment stays at its rank or above. `ServingWindow` follows. `WorldIsFixed`
  ties each entry of the log to the trace and to the capacity sequence by its
  index alone (`WorldInv`). `EpisodesRepeat` writes a step as a function of what
  the environment holds and of the code taken (`After`, `Seen`, `StepIsFunction`);
  each log then is the trace of that function from the fresh state
  (`TracedInv`), so equal codes give equal entries, whatever came before the
  reset. `TicksBalance` (`BalanceInv`) is conservation tick by tick: what waited
  and what arrived is served or waits, and nothing waits that could be served.
  `RequestsAreConserved` adds the ticks up, by induction over the log.
* `ControllerProofs` extends these to the closed loop. `LoopInv` adds that the
  info belongs to the latest tick (`InfoInv`) and what the cooldown is worth
  (`CoolInv`): the controller learns of a change one decision late, so its
  cooldown equals `Left(since)`, what is left since the change, except between a
  change and its reading (`Unread`), when nothing was decided since. From it
  follow `LoopTypes`, `CooldownIsExact` and, with `StepCode` (a one-replica step
  means the same under both contracts), `StepsMeanTheSame`. `CorrectedTickByTick`
  uses that a sample is visible exactly from tick `TelemetryDelay + 1` on
  (`SampleSeen`) and that a decision on one brings the capacity one replica
  closer (`OneCloser`).
  The second half is about the forecasting controllers and the static one. That a
  decision has a valid code needs that its forecast is a number at all: the
  least-squares line is never vertical (`NeverVertical`: for pairwise different
  ticks n times the sum of squares exceeds the square of the sum, by induction
  through `DistancesAdd`), and a median exists (`EveryPlaceTaken`: the places of
  the entries are a bijection). `PolicyInv` then carries the window:
  after a decision it holds the newest of the demands that can be seen,
  and as many decisions or ticks may come without one, `SampleInv` leaves it at this tick
  or the one before; `WindowSlides` and `SampledKeeps` bring it forward.
  `SamplesAreVisible` follows. `ReductionsAreCareful` follows each branch of the
  three policies to the capacity the step commits (`TrendMoves`,
  `ProactiveMoves`, `StaticMoves`), under either action contract (`Toward`).
* `ScenarioLabProofs`: `LabInv` strengthens the checked invariants with `PageInv`
  (what the page shows was drawn for a session that exists: without it a click on
  an old page could start playback of none) and `PaceInv` (the time since the
  latest tick and the time to the next fill the period, which a change of speed
  keeps). Time is in any unit that makes the periods whole; nothing is assumed about
  how they divide one another. `LabTypes`, `PlaybackDrivesPlayable`, `TimerFollowsPlayback`,
  `TimerDrives` and `TicksKeepTheirDistance` follow.
* `EvaluationPlanProofs`: `PlanInv` speaks of `Held`, the rows the directory stands
  for, which are those in memory while the repair rewrites the file; a stop
  there loses a suffix, and a prefix of good rows is good (`GoodPrefix`). It ties
  the running case to the first one without a row, whence `RowsComeInOrder`,
  `RowsHaveFinishedRuns` and `DirectoryOfOnePlan`. `NothingFinishesTwice` needs
  `OnceInv`: a finished run is found by the recovery before its case is run, and
  a run of a plan that nobody deletes (`Lasting`) stands in the directory of that
  plan.
  `PlanTypes` and `ReturnsComplete` (a return leaves every case in the file, once
  and in order) rest on `ResultInv`, what is true of an outcome until the next
  invocation.
* `TuningStudyProofs` has two halves. The first is about one call of `learn()`:
  `LearnInv` is kept by each of `LearnSteps` for every rollout length and
  interval. It says which update the policy, the logger and the callback hold in
  each phase (`Knows`), and, as a checkpoint is only taken where a rollout ends,
  needs that intervals are whole numbers of rollouts (`NextCheckpoint`). The curve
  is kept complete without a sum: a point carries the episodes ended when it was
  written, as history (`ended`), and its count is the difference to the point
  before. The second is the study: `StudyInv` joins what a worker holds
  (`WorkerInv`: its trial, its open runs, its sampler's position at each of its
  points), what a trial's runs say (`TrialInv`) and what workers share
  (`SharedInv`: no two hold one trial, samplers are those of held trials, failed or
  failing trials are at most as many as stops). Its last part is stronger than
  checked: a trial that will fail must be counted before its worker leaves.
  `RunsTell` and
  `LearningIsRecorded` follow. What a trial proposes is a second invariant beside it,
  `SampleInv` (`SampleInvariant`): the trial at work in a sequential study is the
  newest, so what is completed later cannot have been seen (`AtWork`); and on a grid
  (`GridInv`) the finished points differ, the one at work is not among them, and an
  invocation has no more trials left than there are points, so the sampler always
  finds one. `TrialsAlike` follows from both, with any number of workers, budget and
  suggestions; that a resumed study repeats the trials of an uninterrupted one does
  not (see Findings), and is not claimed.
* `ExperimentProofs` is about all seven experiments, their commands and the user at
  once. `EvidenceInv` joins the rows with the command at work (`ProcInv`): while
  it evaluates, its run is one of the due case, tagged before it finishes, and a
  row about to be appended has no predecessor. The records of the files come
  without declared types, so `Shapes` says which fields they have, no more.
  What changes a run or a row is small (`FinishedStay`: finished runs stay as they
  are; `BackedIn`: rows depend on finished runs only), so each of the many actions
  needs a few lines; a check changes no evidence at all (`CheckReads`).
  `RowsAlwaysTellTheirRuns` follows, for every matrix of cases and
  code. `LaunchesAlwaysSurvive` needs only that a command which has not yet
  renamed its temporary file still has it (`LaunchInv`): no other command, stop or
  edit removes a file of that name.

**Model-checked only.** Out of the prover's reach are the liveness properties
(`Converges`, `Completes`, `EventuallyComplete`, `StudyCompletes`). Two invariants
are checked and not proved:

* `FrozenWell`. Its conjuncts rest on the library's `SelectSeq`, `FlattenSeq` and
  `SetToSeq`, of which the back ends know nothing (the order of the baseline's
  records, the groups of the startup evaluation), and on a lexicographic minimum
  that must be shown to exist (action contract, reward ablation). The conjunct of
  the held-out evaluation is moreover not an invariant for every matrix: it
  holds for the frozen file as it is written, and needs at least two cases, because a
  matrix of one case can be repaired by a command that a freeze overtakes.
* `RampServed`. The trend through a window of a straight line would have to be
  shown to be that line, and the fleet's arrival along the pipeline followed over
  the horizon; `NeverVertical` is the first step.

Modules with theorems reach no RECURSIVE operator.

## 5. What is not modelled

Float rounding, the formulas of latency, cost and reward, the observation vector,
drawing, statistics and reports, data import and generated workloads, and the
learning algorithms, which belong to libraries. Of the experiments: the prose of
manifests, the diagnostics of a report (pathology flags, rank correlations,
invariant checks of an episode), the errors of forecasts. The export of a study's
best trial, the search spaces, and the loading of a model into the gym wrapper.
The seeded generator of the random controller. Validation that raises before
anything changes is an assumption on inputs. What is left of the source is
of these kinds: stateless arithmetic and formatting, where a model would repeat
the formulas.

Known and not a property: parallel commands of the action-contract experiment write
their copy of the plan through one temporary name (`evaluation/action_semantics.py:1516`),
so that one of two started at the same moment may fail; the model contains the
failing command, which loses no evidence. `docs/EXPERIMENTS.md` tells of an abort of
the same kind in the reward ablation, whose names have been distinct since:
`LaunchesSurvive` is about those. A decision under telemetry delay pairs an old
utilization with current replica counts; the code intends it and promises nothing
that could be checked.

## 6. Plan

Done: pool, environment and its replay, threshold and predictive loops, dashboard,
evaluation plan, studies and training, the seven experiments and the selection
rule; proofs about each but the selection rule (which `FrozenWell` checks), and of
both refinements of the pool.

What could follow:

1. `SimFrozenWell` and `SelectionFrozenWell` as theorems about their experiment
   alone: every manifest is torn or one of those a freeze writes.
2. Lemmas about `SelectSeq` and `FlattenSeq` by induction as in
   `SumsAre`, and with them the startup and baseline conjuncts of `FrozenWell`.
3. That least squares reproduce a straight line, the second step toward
   `RampServed`.
4. The abstract "each case once" specification that `EvaluationPlan`,
   `HeldoutRun`, `StartupRun` and `BaselineRun` have in common, with a refinement
   mapping from each.
5. Lexicographic trial selection and the export of a study, the pending-bucket
   features of the observation.
