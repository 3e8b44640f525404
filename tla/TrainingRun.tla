----------------------------- MODULE TrainingRun -----------------------------
(***************************************************************************)
(* One call of learn() as a value and its steps as operators: the loop of  *)
(* the learning library over whole rollouts, and the two callbacks of      *)
(* train_and_validate that watch it, one writing the learning curve, one   *)
(* saving checkpoints.                                                     *)
(*                                                                         *)
(* The library is modelled as the callbacks rely on it: a rollout starts,  *)
(* steps are taken, an update learns from every step so far and records    *)
(* its values in a logger, and the logger is cleared by a dump, after each *)
(* rollout (ppo) or after some finished episodes (dqn). A policy is known  *)
(* by how many steps it has learned from, an update's values by the same   *)
(* number.                                                                 *)
(***************************************************************************)
EXTENDS Naturals, Sequences

CONSTANTS
    Timesteps,          \* the budget of a training run
    RolloutSize,        \* n_steps (ppo) or train_freq (dqn)
    LearningStarts,     \* steps before the first update (dqn)
    LogInterval,        \* steps between two points of the learning curve
    CheckpointInterval  \* steps between two checkpoints

\* require_whole_rollouts and require_checkpoint_interval
ASSUME TrainingConfig ==
    /\ RolloutSize \in Nat \ {0}
    /\ Timesteps \in Nat \ {0} /\ Timesteps % RolloutSize = 0
    /\ CheckpointInterval \in Nat \ {0} /\ CheckpointInterval % RolloutSize = 0
    /\ LogInterval \in Nat \ {0}
    /\ LearningStarts \in Nat

NoValue == 0

\* A run of learn() before its first rollout (_last_logged starts at -1 in the
\* code; no step is numbered 0 either).
Fresh(algorithm) ==
    [algorithm |-> algorithm, phase |-> "rollout", steps |-> 0, learned |-> 0,
     logger |-> NoValue,                            \* what the library's logger holds
     recorded |-> NoValue, written |-> NoValue,     \* _recorded, _logged_recorded
     window |-> 0, episodes |-> 0, lastLogged |-> 0,
     curve |-> <<>>, saved |-> <<>>]

\* A point of the curve; ended is history, the episodes ended by then.
Point(t, episodes) ==
    [step |-> t.steps, episodes |-> episodes, value |-> t.recorded, ended |-> t.episodes]

-----------------------------------------------------------------------------
(* MLflowTrainingCallback.                                                 *)
\* A value not produced yet is omitted, a value once seen is kept.
Snapshot(t) == IF t.logger = NoValue THEN t ELSE [t EXCEPT !.recorded = t.logger]

\* Slip: the window is not emptied.
LoggedKeepingWindow(t) ==
    [t EXCEPT !.curve = Append(@, Point(t, t.window)),
              !.written = t.recorded, !.lastLogged = t.steps]

Logged(t) ==
    [t EXCEPT !.curve = Append(@, Point(t, t.window)),
              !.written = t.recorded, !.window = 0, !.lastLogged = t.steps]

Observed(t) == IF t.steps % LogInterval = 0 THEN Logged(t) ELSE t

\* Slip: nothing is written at the end if the last step was logged.
CurveEndedEarly(t) == IF t.lastLogged # t.steps THEN Logged(Snapshot(t)) ELSE Snapshot(t)

\* The last update is only seen now: its values are written if they are new.
CurveEnded(t) ==
    LET s == Snapshot(t)
    IN  CASE s.lastLogged # s.steps -> Logged(s)
          [] s.lastLogged = s.steps /\ s.recorded # s.written ->
                [s EXCEPT !.curve = Append(@, Point(s, 0)), !.written = s.recorded]
          [] OTHER -> s

-----------------------------------------------------------------------------
(* CheckpointCallback.                                                     *)
CheckpointSteps(t) == {t.saved[i].step : i \in DOMAIN t.saved}

Saved(t) ==
    IF t.steps = 0 \/ t.steps % CheckpointInterval # 0 \/ t.steps \in CheckpointSteps(t)
    THEN t
    ELSE [t EXCEPT !.saved = Append(@, [step |-> t.steps, learned |-> t.learned])]

-----------------------------------------------------------------------------
(* The library's loop; its hooks call both callbacks, the curve first.     *)
RolloutStarted(t) == [Saved(Snapshot(t)) EXCEPT !.phase = "steps"]

\* Slip: checkpoints are taken in the middle of a rollout.
SteppedSaving(t, done) ==
    LET counted == [t EXCEPT !.steps = @ + 1,
                             !.window = IF done THEN @ + 1 ELSE @,
                             !.episodes = IF done THEN @ + 1 ELSE @]
    IN  [Saved(Observed(counted)) EXCEPT
            !.phase = IF @ = "steps" /\ counted.steps % RolloutSize = 0
                      THEN "update" ELSE @]

\* One environment step, which may end an episode.
Stepped(t, done) ==
    LET counted == [t EXCEPT !.steps = @ + 1,
                             !.window = IF done THEN @ + 1 ELSE @,
                             !.episodes = IF done THEN @ + 1 ELSE @]
    IN  [Observed(counted) EXCEPT
            !.phase = IF counted.steps % RolloutSize = 0 THEN "update" ELSE @]

\* dqn dumps its log after some of the finished episodes.
Dumped(t) == [t EXCEPT !.logger = NoValue]

LearnsNow(t) == t.algorithm = "dqn" => t.steps > LearningStarts

\* The end of a rollout: the update, if learning has begun.
Updated(t) ==
    LET next == IF t.steps < Timesteps THEN "rollout" ELSE "end"
    IN  IF LearnsNow(t)
        THEN [t EXCEPT !.learned = t.steps, !.logger = t.steps, !.phase = next]
        ELSE [t EXCEPT !.phase = next]

Ended(t) == [Saved(CurveEnded(t)) EXCEPT !.phase = "done"]

\* Every way one more step of learn() can go.
LearnSteps(t) ==
    CASE t.phase = "rollout" -> {RolloutStarted(t)}
      [] t.phase = "steps"   -> {Stepped(t, FALSE), Stepped(t, TRUE)}
                                  \cup (IF t.algorithm = "dqn"
                                        THEN {Dumped(Stepped(t, TRUE))} ELSE {})
      [] t.phase = "update"  -> {Updated(t)}
      [] t.phase = "end"     -> {Ended(t)}

-----------------------------------------------------------------------------
\* What a policy knows after n steps of learning.
LearnedAfter(t, n) == IF t.algorithm = "dqn" /\ n <= LearningStarts THEN 0 ELSE n

\* "step-N.zip is exactly the model after N timesteps of learning": no update
\* missing, none too many, each checkpoint once, and all of them by the end.
CheckpointsExact(t) ==
    /\ \A i \in DOMAIN t.saved :
        /\ t.saved[i].step = i * CheckpointInterval
        /\ t.saved[i].learned = LearnedAfter(t, t.saved[i].step)
    /\ t.phase = "done" => Len(t.saved) = Timesteps \div CheckpointInterval

\* How many episodes had ended when point i of the curve was written.
EndedBy(t, i) == IF i = 0 THEN 0 ELSE t.curve[i].ended

\* The last multiple of RolloutSize before step n.
RolloutBefore(n) == ((n - 1) \div RolloutSize) * RolloutSize

\* Every episode is in exactly one point of the curve, the first written after
\* it ended, a point shows the update its rollout started from, and the last
\* update is not lost.
CurveComplete(t) ==
    /\ \A i \in DOMAIN t.curve :
        EndedBy(t, i - 1) + t.curve[i].episodes = EndedBy(t, i)
    /\ EndedBy(t, Len(t.curve)) + t.window = t.episodes
    /\ \A i \in DOMAIN t.curve :
        t.curve[i].value =
            IF t.phase = "done" /\ i = Len(t.curve) /\ t.curve[i].step = Timesteps
            THEN LearnedAfter(t, Timesteps)
            ELSE LearnedAfter(t, RolloutBefore(t.curve[i].step))
    /\ t.phase = "done" => /\ t.window = 0
                           /\ t.curve # <<>>
                           /\ t.curve[Len(t.curve)].step = Timesteps
=============================================================================
