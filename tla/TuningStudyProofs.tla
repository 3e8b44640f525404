------------------------- MODULE TuningStudyProofs -------------------------
(***************************************************************************)
(* What a study keeps for every kind of objective, budget and number of    *)
(* workers, wherever it is stopped: first one call of learn() by itself,   *)
(* for every length of a rollout and every interval, then the study whose  *)
(* workers race, fail, are interrupted and killed.                         *)
(***************************************************************************)
EXTENDS TuningStudy, SequenceTheorems, FiniteSetTheorems, TLAPS

-----------------------------------------------------------------------------
(* Counting in whole rollouts and intervals.                               *)
LEMMA Quotient ==
    ASSUME NEW n \in Nat, NEW d \in Nat \ {0}
    PROVE  /\ n \div d \in Nat
           /\ (n \div d) * d <= n /\ n < (n \div d) * d + d
           /\ n % d = n - (n \div d) * d
    OBVIOUS

LEMMA QuotientIs ==
    ASSUME NEW n \in Nat, NEW d \in Nat \ {0}, NEW q \in Nat, q * d <= n, n < (q + 1) * d
    PROVE  n \div d = q
    OBVIOUS

LEMMA Regrouped ==
    ASSUME NEW a \in Nat, NEW b \in Nat, NEW c \in Nat PROVE a * (b * c) = (a * b) * c
    OBVIOUS

LEMMA TimesMonotone ==
    ASSUME NEW a \in Nat, NEW b \in Nat, NEW c \in Nat, a <= b
    PROVE  a * c <= b * c /\ a * c \in Nat /\ b * c \in Nat
<1>1. PICK k \in Nat : b = a + k
    <2>1. b - a \in Nat
        OBVIOUS
    <2> QED BY <2>1
<1>2. b * c = a * c + k * c /\ a * c \in Nat /\ k * c \in Nat
    BY <1>1
<1> QED BY <1>2

\* The next number is in the same block unless it starts the next one.
LEMMA SameBlock ==
    ASSUME NEW n \in Nat, NEW d \in Nat \ {0}, (n + 1) % d # 0
    PROVE  (n + 1) \div d = n \div d
<1>1. /\ n \div d \in Nat /\ (n + 1) \div d \in Nat
      /\ (n \div d) * d <= n /\ n < (n \div d) * d + d
      /\ ((n + 1) \div d) * d <= n + 1 /\ n + 1 < ((n + 1) \div d) * d + d
      /\ (n + 1) % d = (n + 1) - ((n + 1) \div d) * d
    <2>1. n + 1 \in Nat
        OBVIOUS
    <2> QED BY <2>1, Quotient
<1>2. ((n + 1) \div d) * d \in Nat /\ ((n + 1) \div d) * d <= n
    BY <1>1
<1>3. (((n + 1) \div d) + 1) * d = ((n + 1) \div d) * d + d
    BY <1>1
<1>4. n < (((n + 1) \div d) + 1) * d
    BY <1>1, <1>2, <1>3
<1> QED BY <1>1, <1>2, <1>4, QuotientIs

\* What divides exactly is its quotient's multiple.
LEMMA WholeBlocks ==
    ASSUME NEW n \in Nat, NEW d \in Nat \ {0}, n % d = 0
    PROVE  (n \div d) * d = n
<1>1. n % d = n - (n \div d) * d /\ (n \div d) \in Nat
    BY Quotient
<1>2. (n \div d) * d \in Nat
    BY <1>1
<1> QED BY <1>1, <1>2

\* The rollout that ends at a whole number of rollouts began one before.
LEMMA RolloutBehind ==
    ASSUME NEW n \in Nat \ {0}, n % RolloutSize = 0
    PROVE  RolloutBefore(n) = n - RolloutSize /\ RolloutBefore(n) \in Nat
<1> DEFINE q == n \div RolloutSize
<1>1. RolloutSize \in Nat \ {0}
    BY TrainingConfig
<1>2. q \in Nat /\ q * RolloutSize = n
    BY <1>1, WholeBlocks, Quotient
<1> HIDE DEF q
<1>3. q # 0
    BY <1>1, <1>2
<1>4. q - 1 \in Nat /\ (q - 1) * RolloutSize = n - RolloutSize /\ ((q - 1) + 1) * RolloutSize = n
    BY <1>1, <1>2, <1>3
<1>5. (q - 1) * RolloutSize \in Nat
    BY <1>1, <1>4
<1>6. (n - 1) \div RolloutSize = q - 1
    <2>1. n - 1 \in Nat /\ (q - 1) * RolloutSize <= n - 1 /\ n - 1 < ((q - 1) + 1) * RolloutSize
        BY <1>1, <1>4, <1>5
    <2> QED BY <1>1, <1>4, <2>1, QuotientIs
<1> QED BY <1>4, <1>5, <1>6 DEF RolloutBefore

\* In general it began at most where it is now, before this step.
LEMMA RolloutBeforeRange ==
    ASSUME NEW n \in Nat \ {0}
    PROVE  RolloutBefore(n) \in 0 .. n - 1
<1>1. n - 1 \in Nat /\ RolloutSize \in Nat \ {0}
    BY TrainingConfig
<1>2. /\ (n - 1) \div RolloutSize \in Nat
      /\ ((n - 1) \div RolloutSize) * RolloutSize <= n - 1
    BY <1>1, Quotient
<1>3. ((n - 1) \div RolloutSize) * RolloutSize \in Nat
    BY <1>1, <1>2
<1> QED BY <1>1, <1>2, <1>3 DEF RolloutBefore

\* Checkpoints lie at ends of rollouts: from one end to the next at most one
\* more is due, and exactly at the later end.
LEMMA NextCheckpoint ==
    ASSUME NEW n \in Nat \ {0}, n % RolloutSize = 0, NEW c \in Nat,
           c * CheckpointInterval <= n - RolloutSize,
           n - RolloutSize < (c + 1) * CheckpointInterval
    PROVE  c * CheckpointInterval < n /\ n <= (c + 1) * CheckpointInterval
<1> DEFINE R == RolloutSize
           q == n \div R
           p == CheckpointInterval \div R
<1>1. /\ R \in Nat \ {0} /\ CheckpointInterval \in Nat \ {0}
      /\ CheckpointInterval % R = 0
    BY TrainingConfig
<1>2. q \in Nat /\ q * R = n /\ p \in Nat /\ p * R = CheckpointInterval
    BY <1>1, WholeBlocks, Quotient
<1>3. (c + 1) * CheckpointInterval = ((c + 1) * p) * R
    <2> HIDE DEF p, R
    <2>1. c + 1 \in Nat
        OBVIOUS
    <2> QED BY <1>1, <1>2, <2>1, Regrouped
<1> DEFINE e == (c + 1) * p
<1>4. e \in Nat
    BY <1>2
<1> HIDE DEF q, p, e, R
<1>5. c * CheckpointInterval \in Nat
    BY <1>1
<1>6. q * R - R < e * R
    BY <1>2, <1>3 DEF e, R
<1>7. q <= e
    <2> SUFFICES ASSUME q > e PROVE FALSE
        BY <1>2, <1>4
    <2>1. PICK k \in Nat : q = e + 1 + k
        <3>1. q - e - 1 \in Nat
            BY <1>2, <1>4
        <3> QED BY <1>2, <1>4, <3>1
    <2>2. q * R = e * R + R + k * R
        BY <1>1, <1>4, <2>1
    <2>3. k * R \in Nat /\ e * R \in Nat /\ q * R \in Nat
        BY <1>1, <1>2, <1>4
    <2> QED BY <1>1, <1>6, <2>2, <2>3
<1>8. PICK k \in Nat : e = q + k
    <2>1. e - q \in Nat
        BY <1>2, <1>4, <1>7
    <2> QED BY <1>2, <1>4, <2>1
<1>9. e * R = q * R + k * R /\ k * R \in Nat /\ q * R \in Nat
    BY <1>1, <1>2, <1>4, <1>8
<1>10. n <= (c + 1) * CheckpointInterval
    BY <1>2, <1>3, <1>9 DEF e
<1> QED BY <1>1, <1>5, <1>10 DEF R

-----------------------------------------------------------------------------
(* One call of learn().                                                    *)
Mark == [step : 1 .. Timesteps, episodes : Nat, value : Nat, ended : Nat]
Learner ==
    [algorithm : {"ppo", "dqn"}, phase : {"rollout", "steps", "update", "end", "done"},
     steps : 0 .. Timesteps, learned : Nat, logger : Nat, recorded : Nat, written : Nat,
     window : Nat, episodes : Nat, lastLogged : Nat, curve : Seq(Mark),
     saved : Seq([step : Nat, learned : Nat])]

\* The steps taken when the rollout under way began: all of them between two.
Start(t) ==
    CASE t.phase = "steps"  -> (t.steps \div RolloutSize) * RolloutSize
      [] t.phase = "update" -> RolloutBefore(t.steps)
      [] OTHER -> t.steps

\* The loop is over whole rollouts and ends with the budget.
LoopShape(t) ==
    /\ t.phase = "rollout" => t.steps < Timesteps /\ t.steps % RolloutSize = 0
    /\ t.phase = "steps" => t.steps < Timesteps
    /\ t.phase = "update" => t.steps > 0 /\ t.steps % RolloutSize = 0
    /\ t.phase \in {"end", "done"} => t.steps = Timesteps

\* What the policy, the logger and the callback know. The logger may have been
\* cleared within a rollout; the callback sees an update when the next rollout
\* starts, or at the end.
Knows(t) ==
    /\ t.learned = LearnedAfter(t, Start(t))
    /\ t.phase \in {"rollout", "end"} =>
        /\ t.logger = t.learned
        /\ t.recorded = IF t.steps = 0 THEN 0 ELSE LearnedAfter(t, RolloutBefore(t.steps))
    /\ t.phase \in {"steps", "update"} =>
        t.logger \in {NoValue, t.learned} /\ t.recorded = t.learned
    /\ t.phase = "done" => t.recorded = t.learned

\* The curve, and what the callback remembers of its last point.
CurveSoFar(t) ==
    /\ \A i \in DOMAIN t.curve :
        EndedBy(t, i - 1) + t.curve[i].episodes = EndedBy(t, i)
    /\ EndedBy(t, Len(t.curve)) + t.window = t.episodes
    /\ t.phase # "done" =>
        \A i \in DOMAIN t.curve :
            t.curve[i].value = LearnedAfter(t, RolloutBefore(t.curve[i].step))
    /\ t.lastLogged = IF t.curve = <<>> THEN 0 ELSE t.curve[Len(t.curve)].step
    /\ t.written = IF t.curve = <<>> THEN 0 ELSE t.curve[Len(t.curve)].value
    /\ t.lastLogged <= t.steps
    /\ t.lastLogged = t.steps => t.window = 0

\* Checkpoints: the due ones, one for every interval before the rollout under
\* way, with that at its start once it has started.
Due(t, count) ==
    IF t.phase \in {"rollout", "end"}
    THEN \/ t.steps = 0 /\ count = 0
         \/ count * CheckpointInterval < t.steps /\ t.steps <= (count + 1) * CheckpointInterval
    ELSE /\ count * CheckpointInterval <= Start(t)
         /\ Start(t) < (count + 1) * CheckpointInterval
SavedSoFar(t) ==
    /\ \A i \in DOMAIN t.saved :
        /\ t.saved[i].step = i * CheckpointInterval
        /\ t.saved[i].learned = LearnedAfter(t, t.saved[i].step)
    /\ Due(t, Len(t.saved))

\* A call of learn() that is over also has the complete curve.
LearnInv(t) ==
    /\ t \in Learner
    /\ LoopShape(t) /\ Knows(t) /\ CurveSoFar(t) /\ SavedSoFar(t)
    /\ CurveComplete(t)

-----------------------------------------------------------------------------
LEMMA TrainingFacts ==
    /\ RolloutSize \in Nat \ {0} /\ Timesteps \in Nat \ {0} /\ Timesteps % RolloutSize = 0
    /\ CheckpointInterval \in Nat \ {0} /\ LogInterval \in Nat \ {0} /\ LearningStarts \in Nat
BY TrainingConfig

\* What the curve is complete for, before the end, is what it is so far.
LEMMA CompleteSoFar ==
    ASSUME NEW t, CurveSoFar(t), t.phase # "done"
    PROVE  CurveComplete(t)
BY DEF CurveSoFar, CurveComplete

\* learn() before its first rollout.
LEMMA FreshInv ==
    ASSUME NEW algorithm \in {"ppo", "dqn"}
    PROVE  LearnInv(Fresh(algorithm))
<1> DEFINE t == Fresh(algorithm)
<1>1. /\ t.algorithm = algorithm /\ t.phase = "rollout" /\ t.steps = 0 /\ t.learned = 0
      /\ t.logger = 0 /\ t.recorded = 0 /\ t.written = 0 /\ t.window = 0 /\ t.episodes = 0
      /\ t.lastLogged = 0 /\ t.curve = <<>> /\ t.saved = <<>>
    BY DEF Fresh, NoValue
<1>2. t \in Learner
    BY TrainingFacts DEF Fresh, NoValue, Learner
<1> HIDE DEF t
<1>3. 0 % RolloutSize = 0
    <2>1. 0 \div RolloutSize \in Nat /\ (0 \div RolloutSize) * RolloutSize <= 0
              /\ 0 % RolloutSize = 0 - (0 \div RolloutSize) * RolloutSize
        BY TrainingFacts, Quotient
    <2>2. (0 \div RolloutSize) * RolloutSize \in Nat
        BY <2>1, TrainingFacts
    <2> QED BY <2>1, <2>2
<1>4. LoopShape(t)
    BY <1>1, <1>3, TrainingFacts DEF LoopShape
<1>5. Knows(t)
    BY <1>1 DEF Knows, Start, LearnedAfter
<1>6. CurveSoFar(t)
    BY <1>1 DEF CurveSoFar, EndedBy
<1>7. SavedSoFar(t)
    BY <1>1 DEF SavedSoFar, Due
<1> QED BY <1>1, <1>2, <1>4, <1>5, <1>6, <1>7, CompleteSoFar DEF LearnInv, t

-----------------------------------------------------------------------------
(* The callbacks.                                                          *)
\* The value the callback keeps once it has looked at the logger.
LEMMA SnapshotIs ==
    ASSUME NEW t \in Learner
    PROVE  Snapshot(t) = [t EXCEPT !.recorded = IF t.logger = 0 THEN t.recorded ELSE t.logger]
BY DEF Snapshot, NoValue, Learner

\* At the start of a rollout and at the end the callback sees the last update.
LEMMA SnapshotKnows ==
    ASSUME NEW t, LearnInv(t), t.phase \in {"rollout", "end"}
    PROVE  (IF t.logger = 0 THEN t.recorded ELSE t.logger) = t.learned
<1>1. /\ t \in Learner /\ t.steps \in Nat /\ t.learned = LearnedAfter(t, t.steps)
      /\ t.logger = t.learned
      /\ t.recorded = IF t.steps = 0 THEN 0 ELSE LearnedAfter(t, RolloutBefore(t.steps))
    BY DEF LearnInv, Learner, Knows, Start
<1>2. CASE t.logger # 0
    BY <1>1, <1>2
<1>3. CASE t.logger = 0 /\ t.steps = 0
    BY <1>1, <1>3
<1>4. CASE t.logger = 0 /\ t.steps # 0
    <2>1. RolloutBefore(t.steps) \in 0 .. t.steps - 1
        BY <1>1, <1>4, RolloutBeforeRange
    <2> QED BY <1>1, <1>4, <2>1, TrainingFacts DEF LearnedAfter
<1> QED BY <1>2, <1>3, <1>4

\* A checkpoint is written where one is due.
LEMMA SavedAsDue ==
    ASSUME NEW t \in Learner, t.phase \in {"rollout", "end"}, SavedSoFar(t),
           t.learned = LearnedAfter(t, t.steps)
    PROVE  \E saved \in Seq([step : Nat, learned : Nat]) :
            /\ Saved(t) = [t EXCEPT !.saved = saved]
            /\ \A i \in DOMAIN saved :
                /\ saved[i].step = i * CheckpointInterval
                /\ saved[i].learned = LearnedAfter(t, saved[i].step)
            /\ Len(saved) * CheckpointInterval <= t.steps
            /\ t.steps < (Len(saved) + 1) * CheckpointInterval
<1> DEFINE C == CheckpointInterval
           c == Len(t.saved)
           n == t.steps
<1>1. /\ C \in Nat \ {0} /\ n \in Nat /\ c \in Nat
      /\ t.saved \in Seq([step : Nat, learned : Nat])
      /\ DOMAIN t.saved = 1 .. c
      /\ t = [t EXCEPT !.saved = t.saved]
      /\ t.learned \in Nat
    BY TrainingFacts DEF Learner
<1>2. \/ n = 0 /\ c = 0
      \/ c * C < n /\ n <= (c + 1) * C
    BY DEF SavedSoFar, Due
<1>3. \A i \in DOMAIN t.saved :
        t.saved[i].step = i * C /\ t.saved[i].learned = LearnedAfter(t, t.saved[i].step)
    BY DEF SavedSoFar
<1> HIDE DEF C, c, n
<1>4. c * C \in Nat /\ (c + 1) * C = c * C + C /\ (c + 2) * C = (c + 1) * C + C
      /\ (c + 1) * C \in Nat
    BY <1>1
<1>5. CASE n = 0
    <2>1. Saved(t) = t
        BY <1>5 DEF Saved, n
    <2>2. c * C <= n /\ n < (c + 1) * C
        <3>1. c = 0
            BY <1>1, <1>2, <1>4, <1>5
        <3>2. 0 * C = 0 /\ (0 + 1) * C = C
            BY <1>1
        <3> QED BY <1>1, <1>5, <3>1, <3>2
    <2> QED BY <1>1, <1>3, <2>1, <2>2 DEF c, C, n
<1>6. CASE n # 0 /\ n # (c + 1) * C
    <2>1. c * C <= n /\ n < (c + 1) * C
        BY <1>1, <1>2, <1>4, <1>6
    <2>2. c * C # n
        BY <1>1, <1>2, <1>4, <1>6
    <2>3. n % C # 0
        <3>1. n \div C = c
            BY <1>1, <2>1, QuotientIs
        <3>2. n % C = n - c * C
            BY <1>1, <3>1, Quotient
        <3> QED BY <1>1, <1>4, <2>2, <3>2
    <2>4. Saved(t) = t
        BY <2>3 DEF Saved, n, C
    <2> QED BY <1>1, <1>3, <2>1, <2>4 DEF c, C, n
<1>7. CASE n # 0 /\ n = (c + 1) * C
    <2>1. n % C = 0
        <3>1. n \div C = c + 1
            <4>1. c + 1 \in Nat /\ (c + 1) * C <= n /\ n < ((c + 1) + 1) * C
                BY <1>1, <1>4, <1>7
            <4> QED BY <1>1, <4>1, QuotientIs
        <3>2. n % C = n - (c + 1) * C
            BY <1>1, <3>1, Quotient
        <3> QED BY <1>1, <1>4, <1>7, <3>2
    <2>2. n \notin CheckpointSteps(t)
        <3> SUFFICES ASSUME NEW i \in 1 .. c, t.saved[i].step = n PROVE FALSE
            BY <1>1 DEF CheckpointSteps
        <3>1. i * C = n
            BY <1>1, <1>3
        <3>2. i \in Nat /\ i <= c
            BY <1>1
        <3>3. i * C <= c * C
            BY <1>1, <3>2, TimesMonotone
        <3>4. c * C < n
            BY <1>1, <1>4, <1>7
        <3> QED BY <1>1, <1>4, <3>1, <3>3, <3>4
    <2> DEFINE point == [step |-> n, learned |-> t.learned]
               saved == Append(t.saved, point)
    <2>3. Saved(t) = [t EXCEPT !.saved = saved]
        BY <1>7, <2>1, <2>2 DEF Saved, n, C
    <2>4. point \in [step : Nat, learned : Nat] /\ point.step = n /\ point.learned = t.learned
        BY <1>1
    <2> HIDE DEF point
    <2>5. /\ saved \in Seq([step : Nat, learned : Nat]) /\ Len(saved) = c + 1
          /\ DOMAIN saved = 1 .. c + 1
          /\ saved[c + 1] = point /\ \A i \in 1 .. c : saved[i] = t.saved[i]
        BY <1>1, <2>4 DEF c
    <2> HIDE DEF saved
    <2>6. ASSUME NEW i \in DOMAIN saved
          PROVE  saved[i].step = i * C /\ saved[i].learned = LearnedAfter(t, saved[i].step)
        <3>1. CASE i = c + 1
            BY <1>7, <2>4, <2>5, <3>1 DEF n
        <3>2. CASE i # c + 1
            <4>1. i \in 1 .. c
                BY <1>1, <2>5, <3>2
            <4> QED BY <1>1, <1>3, <2>5, <4>1
        <3> QED BY <3>1, <3>2
    <2>7. (c + 1) * C <= n /\ n < ((c + 1) + 1) * C
        BY <1>1, <1>4, <1>7
    <2> QED BY <2>3, <2>5, <2>6, <2>7 DEF C, n
<1> QED BY <1>5, <1>6, <1>7

-----------------------------------------------------------------------------
(* The steps of the library's loop.                                        *)
\* Steps that leave the curve alone keep what holds of it.
LEMMA CurveStays ==
    ASSUME NEW t, NEW s, CurveSoFar(t), t.phase # "done", s.phase # "done",
           s.algorithm = t.algorithm, s.curve = t.curve, s.window = t.window,
           s.episodes = t.episodes, s.lastLogged = t.lastLogged, s.written = t.written,
           s.steps = t.steps
    PROVE  CurveSoFar(s)
BY DEF CurveSoFar, EndedBy, LearnedAfter

\* The next rollout starts: the last update is seen, a due checkpoint saved.
LEMMA RolloutStartedInv ==
    ASSUME NEW t, LearnInv(t), t.phase = "rollout"
    PROVE  LearnInv(RolloutStarted(t))
<1> DEFINE u == [t EXCEPT !.recorded = t.learned]
<1>1. /\ t \in Learner /\ t.steps \in Nat /\ t.learned = LearnedAfter(t, t.steps)
      /\ t.logger = t.learned /\ t.steps < Timesteps /\ t.steps % RolloutSize = 0
      /\ t.learned \in Nat
    BY DEF LearnInv, Learner, Knows, Start, LoopShape
<1>2. Snapshot(t) = u
    BY <1>1, SnapshotIs, SnapshotKnows
<1>3. /\ u \in Learner /\ u.phase = "rollout" /\ u.steps = t.steps /\ u.saved = t.saved
      /\ u.learned = t.learned /\ u.algorithm = t.algorithm
    BY <1>1 DEF Learner
<1>4. SavedSoFar(u)
    BY <1>3 DEF LearnInv, SavedSoFar, Due, LearnedAfter
<1>5. u.learned = LearnedAfter(u, u.steps)
    BY <1>1, <1>3 DEF LearnedAfter
<1> HIDE DEF u
<1>6. PICK saved \in Seq([step : Nat, learned : Nat]) :
            /\ Saved(u) = [u EXCEPT !.saved = saved]
            /\ \A i \in DOMAIN saved :
                /\ saved[i].step = i * CheckpointInterval
                /\ saved[i].learned = LearnedAfter(u, saved[i].step)
            /\ Len(saved) * CheckpointInterval <= u.steps
            /\ u.steps < (Len(saved) + 1) * CheckpointInterval
    BY <1>3, <1>4, <1>5, SavedAsDue
<1> DEFINE s == [[u EXCEPT !.saved = saved] EXCEPT !.phase = "steps"]
<1>7. RolloutStarted(t) = s
    BY <1>2, <1>6 DEF RolloutStarted
<1>8. /\ s \in Learner /\ s.phase = "steps" /\ s.steps = t.steps /\ s.saved = saved
      /\ s.learned = t.learned /\ s.algorithm = t.algorithm /\ s.logger = t.logger
      /\ s.recorded = t.learned /\ s.curve = t.curve /\ s.window = t.window
      /\ s.episodes = t.episodes /\ s.lastLogged = t.lastLogged /\ s.written = t.written
    <2>1. /\ u.recorded = t.learned /\ u.logger = t.logger /\ u.curve = t.curve
          /\ u.window = t.window /\ u.episodes = t.episodes
          /\ u.lastLogged = t.lastLogged /\ u.written = t.written
        BY <1>1 DEF u, Learner
    <2> QED BY <1>3, <1>6, <2>1 DEF Learner
<1> HIDE DEF s
<1>9. Start(s) = t.steps
    BY <1>1, <1>8, TrainingFacts, WholeBlocks DEF Start
<1>10. LoopShape(s)
    BY <1>1, <1>8 DEF LoopShape
<1>11. Knows(s)
    BY <1>1, <1>8, <1>9 DEF Knows, LearnedAfter
<1>12. CurveSoFar(s) /\ CurveComplete(s)
    BY <1>8, CurveStays, CompleteSoFar DEF LearnInv
<1>13. SavedSoFar(s)
    BY <1>3, <1>6, <1>8, <1>9 DEF SavedSoFar, Due, LearnedAfter
<1> QED BY <1>7, <1>8, <1>10, <1>11, <1>12, <1>13 DEF LearnInv

\* What becomes of a curve when a point is added to it.
LEMMA PointAdded ==
    ASSUME NEW t \in Learner, CurveSoFar(t), NEW m \in Mark,
           NEW s, s.curve = Append(t.curve, m),
           EndedBy(t, Len(t.curve)) + m.episodes = m.ended
    PROVE  /\ s.curve # <<>> /\ s.curve[Len(s.curve)] = m
           /\ DOMAIN s.curve = 1 .. Len(t.curve) + 1 /\ Len(s.curve) = Len(t.curve) + 1
           /\ s.curve[Len(t.curve) + 1] = m
           /\ \A i \in 1 .. Len(t.curve) : s.curve[i] = t.curve[i]
           /\ \A i \in DOMAIN s.curve :
                EndedBy(s, i - 1) + s.curve[i].episodes = EndedBy(s, i)
           /\ EndedBy(s, Len(s.curve)) = m.ended
<1> DEFINE k == Len(t.curve)
<1>1. /\ k \in Nat /\ t.curve \in Seq(Mark) /\ DOMAIN t.curve = 1 .. k
    BY DEF Learner
<1>2. /\ s.curve # <<>> /\ s.curve[Len(s.curve)] = m
      /\ DOMAIN s.curve = 1 .. k + 1 /\ Len(s.curve) = k + 1
      /\ s.curve[k + 1] = m
      /\ \A i \in 1 .. k : s.curve[i] = t.curve[i]
    BY <1>1
<1>3. \A i \in 0 .. k : EndedBy(s, i) = EndedBy(t, i)
    BY <1>1, <1>2 DEF EndedBy
<1>4. EndedBy(s, k + 1) = m.ended
    BY <1>1, <1>2 DEF EndedBy
<1>5. ASSUME NEW i \in DOMAIN s.curve
      PROVE  EndedBy(s, i - 1) + s.curve[i].episodes = EndedBy(s, i)
    <2>1. CASE i = k + 1
        <3>1. i - 1 = k /\ k \in 0 .. k
            BY <1>1, <2>1
        <3> QED BY <1>2, <1>3, <1>4, <2>1, <3>1
    <2>2. CASE i # k + 1
        <3>1. i \in 1 .. k /\ i - 1 \in 0 .. k /\ i \in 0 .. k
            BY <1>1, <1>2, <2>2
        <3> QED BY <1>1, <1>2, <1>3, <3>1 DEF CurveSoFar
    <2> QED BY <2>1, <2>2
<1> QED BY <1>2, <1>4, <1>5

\* What one environment step changes.
LEMMA SteppedIs ==
    ASSUME NEW t \in Learner, t.steps < Timesteps, NEW done \in BOOLEAN
    PROVE  LET s == Stepped(t, done)
               n == t.steps + 1
               e == IF done THEN 1 ELSE 0
               m == [step |-> n, episodes |-> t.window + e, value |-> t.recorded,
                     ended |-> t.episodes + e]
           IN  /\ s \in Learner /\ m \in Mark
               /\ s.algorithm = t.algorithm /\ s.steps = n /\ s.learned = t.learned
               /\ s.logger = t.logger /\ s.recorded = t.recorded /\ s.saved = t.saved
               /\ s.episodes = t.episodes + e
               /\ s.phase = IF n % RolloutSize = 0 THEN "update" ELSE t.phase
               /\ \/ /\ s.curve = Append(t.curve, m) /\ s.written = t.recorded
                     /\ s.window = 0 /\ s.lastLogged = n
                  \/ /\ s.curve = t.curve /\ s.written = t.written
                     /\ s.window = t.window + e /\ s.lastLogged = t.lastLogged
<1> DEFINE n == t.steps + 1
           e == IF done THEN 1 ELSE 0
           m == [step |-> n, episodes |-> t.window + e, value |-> t.recorded,
                 ended |-> t.episodes + e]
           counted == [t EXCEPT !.steps = n, !.window = t.window + e,
                                !.episodes = t.episodes + e]
<1>1. /\ n \in 1 .. Timesteps /\ t.steps \in Nat /\ e \in Nat
      /\ t.window + e \in Nat /\ t.episodes + e \in Nat
      /\ t.curve \in Seq(Mark) /\ t.recorded \in Nat
    BY TrainingFacts DEF Learner
<1>2. counted = [t EXCEPT !.steps = @ + 1, !.window = IF done THEN @ + 1 ELSE @,
                          !.episodes = IF done THEN @ + 1 ELSE @]
    <2>1. CASE done
        BY <2>1
    <2>2. CASE ~done
        <3>1. t.window + 0 = t.window /\ t.episodes + 0 = t.episodes
            BY DEF Learner
        <3> QED BY <2>2, <3>1
    <2> QED BY <2>1, <2>2
<1> HIDE DEF n, e
<1>3. /\ counted \in Learner
      /\ counted.algorithm = t.algorithm /\ counted.phase = t.phase /\ counted.steps = n
      /\ counted.learned = t.learned /\ counted.logger = t.logger
      /\ counted.recorded = t.recorded /\ counted.written = t.written
      /\ counted.window = t.window + e /\ counted.episodes = t.episodes + e
      /\ counted.lastLogged = t.lastLogged /\ counted.curve = t.curve
      /\ counted.saved = t.saved
    <2>1. n \in 0 .. Timesteps
        BY <1>1
    <2> DEFINE window == t.window + e
               episodes == t.episodes + e
    <2>2. window \in Nat /\ episodes \in Nat
        BY <1>1
    <2>3. counted = [t EXCEPT !.steps = n, !.window = window, !.episodes = episodes]
        OBVIOUS
    <2> HIDE DEF window, episodes, counted
    <2>4. counted \in Learner
        BY <2>1, <2>2, <2>3 DEF Learner
    <2>5. /\ counted.algorithm = t.algorithm /\ counted.phase = t.phase /\ counted.steps = n
          /\ counted.learned = t.learned /\ counted.logger = t.logger
          /\ counted.recorded = t.recorded /\ counted.written = t.written
          /\ counted.window = window /\ counted.episodes = episodes
          /\ counted.lastLogged = t.lastLogged /\ counted.curve = t.curve
          /\ counted.saved = t.saved
        BY <2>3 DEF Learner
    <2> QED BY <2>4, <2>5 DEF window, episodes
<1>4. m \in Mark
    BY <1>1 DEF Mark
<1> HIDE DEF counted
<1> DEFINE o == Observed(counted)
<1>5. /\ o \in Learner
      /\ o.algorithm = t.algorithm /\ o.phase = t.phase /\ o.steps = n
      /\ o.learned = t.learned /\ o.logger = t.logger
      /\ o.recorded = t.recorded /\ o.episodes = t.episodes + e /\ o.saved = t.saved
      /\ \/ /\ o.curve = Append(t.curve, m) /\ o.written = t.recorded
            /\ o.window = 0 /\ o.lastLogged = n
         \/ /\ o.curve = t.curve /\ o.written = t.written
            /\ o.window = t.window + e /\ o.lastLogged = t.lastLogged
    <2>1. CASE o = counted
        BY <1>3, <2>1
    <2>2. CASE o = Logged(counted)
        <3>1. Point(counted, counted.window) = m
            BY <1>3 DEF Point
        <3>2. Append(t.curve, m) \in Seq(Mark)
            BY <1>1, <1>4
        <3> HIDE DEF m
        <3>3. o = [counted EXCEPT !.curve = Append(t.curve, m), !.written = t.recorded,
                                  !.window = 0, !.lastLogged = n]
            BY <1>3, <2>2, <3>1 DEF Logged
        <3>4. n \in Nat
            BY <1>1
        <3> HIDE DEF o
        <3> QED BY <1>1, <1>3, <3>2, <3>3, <3>4 DEF Learner
    <2> QED BY <2>1, <2>2 DEF Observed
<1> HIDE DEF o
<1>6. Stepped(t, done) = [o EXCEPT !.phase = IF n % RolloutSize = 0 THEN "update" ELSE @]
    BY <1>2, <1>3 DEF Stepped, o
<1> DEFINE s == Stepped(t, done)
<1>7. /\ s \in Learner
      /\ s.algorithm = o.algorithm /\ s.steps = o.steps
      /\ s.learned = o.learned /\ s.logger = o.logger
      /\ s.recorded = o.recorded /\ s.episodes = o.episodes /\ s.saved = o.saved
      /\ s.phase = IF n % RolloutSize = 0 THEN "update" ELSE t.phase
      /\ s.curve = o.curve /\ s.written = o.written
      /\ s.window = o.window /\ s.lastLogged = o.lastLogged
    BY <1>5, <1>6 DEF Learner
<1> HIDE DEF s, m
<1> QED BY <1>4, <1>5, <1>7 DEF n, e, m, s

\* A step within a rollout counts its episode, and a point takes all episodes
\* ended since the last.
LEMMA SteppedInv ==
    ASSUME NEW t, LearnInv(t), t.phase = "steps", NEW done \in BOOLEAN
    PROVE  LearnInv(Stepped(t, done)) /\ Stepped(t, done).phase \in {"steps", "update"}
<1> DEFINE s == Stepped(t, done)
           n == t.steps + 1
           e == IF done THEN 1 ELSE 0
           m == [step |-> n, episodes |-> t.window + e, value |-> t.recorded,
                 ended |-> t.episodes + e]
<1>1. /\ t \in Learner /\ t.steps \in Nat /\ t.steps < Timesteps
      /\ t.learned = LearnedAfter(t, Start(t)) /\ t.recorded = t.learned
      /\ t.logger \in {NoValue, t.learned}
      /\ Start(t) = (t.steps \div RolloutSize) * RolloutSize
      /\ t.window \in Nat /\ t.episodes \in Nat /\ t.curve \in Seq(Mark)
      /\ CurveSoFar(t) /\ SavedSoFar(t)
    BY DEF LearnInv, Learner, Knows, Start, LoopShape
<1>2. /\ s \in Learner /\ m \in Mark
      /\ s.algorithm = t.algorithm /\ s.steps = n /\ s.learned = t.learned
      /\ s.logger = t.logger /\ s.recorded = t.recorded /\ s.saved = t.saved
      /\ s.episodes = t.episodes + e
      /\ s.phase = IF n % RolloutSize = 0 THEN "update" ELSE "steps"
      /\ \/ /\ s.curve = Append(t.curve, m) /\ s.written = t.recorded
            /\ s.window = 0 /\ s.lastLogged = n
         \/ /\ s.curve = t.curve /\ s.written = t.written
            /\ s.window = t.window + e /\ s.lastLogged = t.lastLogged
    BY <1>1, SteppedIs
<1>3. m.step = n /\ m.episodes = t.window + e /\ m.value = t.recorded /\ m.ended = t.episodes + e
    OBVIOUS
<1>4. n \in Nat \ {0} /\ e \in {0, 1} /\ n - 1 = t.steps
    BY <1>1
<1> HIDE DEF s, m, e
<1>5. RolloutBefore(n) = Start(t)
    BY <1>1, <1>4 DEF RolloutBefore
<1>6. Start(s) = Start(t)
    <2>1. CASE n % RolloutSize = 0
        BY <1>2, <1>5, <2>1 DEF Start
    <2>2. CASE n % RolloutSize # 0
        <3>1. n \div RolloutSize = t.steps \div RolloutSize
            BY <1>1, <2>2, TrainingFacts, SameBlock
        <3> QED BY <1>1, <1>2, <2>2, <3>1 DEF Start
    <2> QED BY <2>1, <2>2
<1>7. LoopShape(s)
    <2>1. CASE n % RolloutSize = 0
        BY <1>2, <1>4, <2>1 DEF LoopShape
    <2>2. CASE n % RolloutSize # 0
        <3>1. n # Timesteps
            BY <2>2, TrainingFacts
        <3> QED BY <1>1, <1>2, <2>2, <3>1, TrainingFacts DEF LoopShape
    <2> QED BY <2>1, <2>2
<1>8. Knows(s)
    BY <1>1, <1>2, <1>6 DEF Knows, LearnedAfter
<1>9. SavedSoFar(s)
    BY <1>1, <1>2, <1>6 DEF SavedSoFar, Due, LearnedAfter
<1>10. /\ \A i \in DOMAIN t.curve :
            t.curve[i].value = LearnedAfter(t, RolloutBefore(t.curve[i].step))
       /\ EndedBy(t, Len(t.curve)) + t.window = t.episodes
       /\ t.lastLogged <= t.steps
    BY <1>1 DEF CurveSoFar
<1>11. Len(t.curve) \in Nat /\ t.lastLogged \in Nat /\ EndedBy(t, Len(t.curve)) \in Nat
    <2>1. Len(t.curve) \in Nat /\ t.lastLogged \in Nat
        BY <1>1 DEF Learner
    <2>2. Len(t.curve) # 0 => t.curve[Len(t.curve)] \in Mark
        BY <1>1, <2>1
    <2> QED BY <2>1, <2>2 DEF EndedBy, Mark
<1>12. CurveSoFar(s)
    <2>1. CASE s.curve = Append(t.curve, m) /\ s.written = t.recorded /\ s.window = 0
               /\ s.lastLogged = n
        <3>1. EndedBy(t, Len(t.curve)) + m.episodes = m.ended
            BY <1>1, <1>3, <1>4, <1>10, <1>11
        <3>2. /\ s.curve # <<>> /\ s.curve[Len(s.curve)] = m
              /\ DOMAIN s.curve = 1 .. Len(t.curve) + 1
              /\ s.curve[Len(t.curve) + 1] = m
              /\ \A i \in 1 .. Len(t.curve) : s.curve[i] = t.curve[i]
              /\ \A i \in DOMAIN s.curve :
                    EndedBy(s, i - 1) + s.curve[i].episodes = EndedBy(s, i)
              /\ EndedBy(s, Len(s.curve)) = m.ended
            <4>1. t \in Learner /\ CurveSoFar(t) /\ m \in Mark /\ s.curve = Append(t.curve, m)
                BY <1>1, <1>2, <2>1
            <4>2. /\ DOMAIN s.curve = 1 .. Len(t.curve) + 1
                  /\ s.curve[Len(t.curve) + 1] = m /\ Len(s.curve) = Len(t.curve) + 1
                BY <3>1, <4>1, PointAdded
            <4>3. s.curve # <<>> /\ s.curve[Len(s.curve)] = m
                BY <1>11, <4>2
            <4>4. \A i \in 1 .. Len(t.curve) : s.curve[i] = t.curve[i]
                BY <3>1, <4>1, PointAdded
            <4>5. \A i \in DOMAIN s.curve :
                    EndedBy(s, i - 1) + s.curve[i].episodes = EndedBy(s, i)
                BY <3>1, <4>1, PointAdded
            <4>6. EndedBy(s, Len(s.curve)) = m.ended
                BY <3>1, <4>1, PointAdded
            <4> QED BY <4>2, <4>3, <4>4, <4>5, <4>6
        <3>3. \A i \in DOMAIN s.curve :
                s.curve[i].value = LearnedAfter(s, RolloutBefore(s.curve[i].step))
            <4> SUFFICES ASSUME NEW i \in DOMAIN s.curve
                         PROVE  s.curve[i].value = LearnedAfter(s, RolloutBefore(s.curve[i].step))
                OBVIOUS
            <4>1. CASE i = Len(t.curve) + 1
                BY <1>1, <1>2, <1>3, <1>5, <3>2, <4>1 DEF LearnedAfter
            <4>2. CASE i # Len(t.curve) + 1
                <5>1. i \in 1 .. Len(t.curve) /\ i \in DOMAIN t.curve
                    BY <1>1, <1>11, <3>2, <4>2
                <5> QED BY <1>2, <1>10, <3>2, <5>1 DEF LearnedAfter
            <4> QED BY <4>1, <4>2
        <3>4. m.ended + 0 = s.episodes
            BY <1>1, <1>2, <1>3, <1>4
        <3>5. /\ EndedBy(s, Len(s.curve)) + s.window = s.episodes
              /\ s.lastLogged = s.curve[Len(s.curve)].step
              /\ s.written = s.curve[Len(s.curve)].value
              /\ s.lastLogged <= s.steps
            BY <1>2, <1>3, <1>4, <2>1, <3>2, <3>4
        <3> QED BY <2>1, <3>2, <3>3, <3>5 DEF CurveSoFar
    <2>2. CASE s.curve = t.curve /\ s.written = t.written
               /\ s.window = t.window + e /\ s.lastLogged = t.lastLogged
        <3>1. EndedBy(t, Len(t.curve)) + (t.window + e) = t.episodes + e
            BY <1>1, <1>4, <1>10, <1>11
        <3>2. \A i \in Nat : EndedBy(s, i) = EndedBy(t, i)
            BY <2>2 DEF EndedBy
        <3>3. \A i \in DOMAIN t.curve : EndedBy(s, i) = EndedBy(t, i) /\ EndedBy(s, i - 1) = EndedBy(t, i - 1)
            BY <2>2 DEF EndedBy
        <3>4. t.lastLogged <= n /\ t.lastLogged # n
            BY <1>1, <1>4, <1>10, <1>11
        <3> QED BY <1>1, <1>2, <1>10, <1>11, <2>2, <3>1, <3>2, <3>3, <3>4
                DEF CurveSoFar, LearnedAfter
    <2> QED BY <1>2, <2>1, <2>2
<1>13. s.phase \in {"steps", "update"} /\ s.phase # "done"
    BY <1>2
<1> QED BY <1>2, <1>7, <1>8, <1>9, <1>12, <1>13, CompleteSoFar DEF LearnInv, s

\* Clearing the logger loses nothing the callback has not seen.
LEMMA DumpedInv ==
    ASSUME NEW t, LearnInv(t), t.phase \in {"steps", "update"}
    PROVE  LearnInv(Dumped(t))
<1> DEFINE s == Dumped(t)
<1>1. /\ t \in Learner /\ s = [t EXCEPT !.logger = 0]
    BY DEF LearnInv, Dumped, NoValue
<1> HIDE DEF s
<1>2. /\ s \in Learner /\ s.algorithm = t.algorithm /\ s.phase = t.phase
      /\ s.steps = t.steps /\ s.learned = t.learned /\ s.logger = NoValue
      /\ s.recorded = t.recorded /\ s.written = t.written /\ s.window = t.window
      /\ s.episodes = t.episodes /\ s.lastLogged = t.lastLogged /\ s.curve = t.curve
      /\ s.saved = t.saved
    BY <1>1 DEF Learner, NoValue
<1>3. Start(s) = Start(t)
    BY <1>2 DEF Start
<1>4. LoopShape(s)
    BY <1>2 DEF LearnInv, LoopShape
<1>5. Knows(s)
    BY <1>2, <1>3 DEF LearnInv, Knows, LearnedAfter
<1>6. CurveSoFar(s) /\ CurveComplete(s)
    BY <1>2, CurveStays, CompleteSoFar DEF LearnInv
<1>7. SavedSoFar(s)
    BY <1>2, <1>3 DEF LearnInv, SavedSoFar, Due, LearnedAfter
<1> QED BY <1>2, <1>4, <1>5, <1>6, <1>7 DEF LearnInv, s

\* A rollout ends with an update, unless learning has not begun.
LEMMA UpdatedInv ==
    ASSUME NEW t, LearnInv(t), t.phase = "update"
    PROVE  LearnInv(Updated(t))
<1> DEFINE s == Updated(t)
           n == t.steps
           next == IF n < Timesteps THEN "rollout" ELSE "end"
<1>1. /\ t \in Learner /\ n \in Nat \ {0} /\ n % RolloutSize = 0 /\ n <= Timesteps
      /\ Start(t) = RolloutBefore(n)
      /\ t.learned = LearnedAfter(t, RolloutBefore(n)) /\ t.recorded = t.learned
      /\ t.logger \in {NoValue, t.learned}
      /\ t.algorithm \in {"ppo", "dqn"}
    BY TrainingFacts DEF LearnInv, Learner, Knows, Start, LoopShape
<1>2. RolloutBefore(n) = n - RolloutSize /\ RolloutBefore(n) \in 0 .. n - 1
    BY <1>1, RolloutBehind, RolloutBeforeRange
<1>3. /\ s \in Learner /\ s.algorithm = t.algorithm /\ s.phase = next
      /\ s.steps = n /\ s.learned = LearnedAfter(t, n) /\ s.logger = s.learned
      /\ s.recorded = t.recorded /\ s.written = t.written /\ s.window = t.window
      /\ s.episodes = t.episodes /\ s.lastLogged = t.lastLogged /\ s.curve = t.curve
      /\ s.saved = t.saved
    <2>1. CASE LearnsNow(t)
        <3>1. s = [t EXCEPT !.learned = n, !.logger = n, !.phase = next]
            BY <2>1 DEF Updated
        <3>2. LearnedAfter(t, n) = n
            BY <1>1, <2>1, TrainingFacts DEF LearnsNow, LearnedAfter
        <3> HIDE DEF s
        <3> QED BY <1>1, <3>1, <3>2 DEF Learner
    <2>2. CASE ~LearnsNow(t)
        <3>1. s = [t EXCEPT !.phase = next]
            BY <2>2 DEF Updated
        <3>2. LearnedAfter(t, n) = 0 /\ LearnedAfter(t, RolloutBefore(n)) = 0
            BY <1>1, <1>2, <2>2, TrainingFacts DEF LearnsNow, LearnedAfter
        <3>3. t.learned = 0 /\ t.logger = 0
            BY <1>1, <3>2 DEF NoValue
        <3> HIDE DEF s
        <3> QED BY <1>1, <3>1, <3>2, <3>3 DEF Learner
    <2> QED BY <2>1, <2>2
<1> HIDE DEF s
<1>4. s.phase \in {"rollout", "end"} /\ Start(s) = n
    BY <1>3 DEF Start
<1>5. LoopShape(s)
    BY <1>1, <1>3, TrainingFacts DEF LoopShape
<1>6. Knows(s)
    BY <1>1, <1>3, <1>4 DEF Knows, LearnedAfter
<1>7. CurveSoFar(s) /\ CurveComplete(s)
    BY <1>3, <1>4, CurveStays, CompleteSoFar DEF LearnInv
<1>8. SavedSoFar(s)
    <2>1. Len(t.saved) \in Nat
        BY <1>1 DEF Learner
    <2>2. /\ Len(t.saved) * CheckpointInterval <= n - RolloutSize
          /\ n - RolloutSize < (Len(t.saved) + 1) * CheckpointInterval
        BY <1>1, <1>2 DEF LearnInv, SavedSoFar, Due
    <2>3. /\ Len(t.saved) * CheckpointInterval < n
          /\ n <= (Len(t.saved) + 1) * CheckpointInterval
        BY <1>1, <2>1, <2>2, NextCheckpoint
    <2> QED BY <1>3, <1>4, <2>3 DEF LearnInv, SavedSoFar, Due, LearnedAfter
<1> QED BY <1>3, <1>5, <1>6, <1>7, <1>8 DEF LearnInv, s

\* However the last point was written, at the end the curve has one for the
\* last step that shows the last update, and no episode is left over.
LEMMA CurveEndedIs ==
    ASSUME NEW t, LearnInv(t), t.phase = "end"
    PROVE  LET c == CurveEnded(t)
           IN  /\ c \in Learner /\ c.algorithm = t.algorithm /\ c.phase = "end"
               /\ c.steps = Timesteps /\ c.learned = t.learned /\ c.saved = t.saved
               /\ c.recorded = t.learned /\ c.episodes = t.episodes /\ c.window = 0
               /\ c.lastLogged = Timesteps /\ c.written = t.learned
               /\ c.curve # <<>>
               /\ c.curve[Len(c.curve)].step = Timesteps
               /\ c.curve[Len(c.curve)].value = t.learned
               /\ \A i \in DOMAIN c.curve :
                    i # Len(c.curve) =>
                        c.curve[i].value = LearnedAfter(t, RolloutBefore(c.curve[i].step))
               /\ \A i \in DOMAIN c.curve :
                    EndedBy(c, i - 1) + c.curve[i].episodes = EndedBy(c, i)
               /\ EndedBy(c, Len(c.curve)) = t.episodes
<1> DEFINE c == CurveEnded(t)
           u == [t EXCEPT !.recorded = t.learned]
<1>1. /\ t \in Learner /\ t.steps = Timesteps /\ Timesteps \in Nat \ {0}
      /\ t.learned \in Nat /\ t.window \in Nat /\ t.episodes \in Nat
      /\ t.lastLogged \in Nat /\ t.curve \in Seq(Mark) /\ Len(t.curve) \in Nat
      /\ DOMAIN t.curve = 1 .. Len(t.curve)
      /\ CurveSoFar(t)
    BY TrainingFacts DEF LearnInv, Learner, LoopShape
<1>2. Snapshot(t) = u
    BY <1>1, SnapshotIs, SnapshotKnows
<1>3. /\ u \in Learner /\ u.algorithm = t.algorithm /\ u.phase = "end" /\ u.steps = Timesteps
      /\ u.learned = t.learned /\ u.logger = t.logger /\ u.recorded = t.learned
      /\ u.written = t.written /\ u.window = t.window /\ u.episodes = t.episodes
      /\ u.lastLogged = t.lastLogged /\ u.curve = t.curve /\ u.saved = t.saved
    BY <1>1 DEF Learner
<1>4. /\ \A i \in DOMAIN t.curve :
            EndedBy(t, i - 1) + t.curve[i].episodes = EndedBy(t, i)
      /\ EndedBy(t, Len(t.curve)) + t.window = t.episodes
      /\ \A i \in DOMAIN t.curve :
            t.curve[i].value = LearnedAfter(t, RolloutBefore(t.curve[i].step))
      /\ t.lastLogged = IF t.curve = <<>> THEN 0 ELSE t.curve[Len(t.curve)].step
      /\ t.written = IF t.curve = <<>> THEN 0 ELSE t.curve[Len(t.curve)].value
      /\ t.lastLogged = t.steps => t.window = 0
    BY <1>1 DEF CurveSoFar
<1>5. EndedBy(t, Len(t.curve)) \in Nat
    <2>1. Len(t.curve) # 0 => t.curve[Len(t.curve)] \in Mark
        BY <1>1
    <2> QED BY <2>1 DEF EndedBy, Mark
<1> HIDE DEF u
\* A last point is written, with all episodes since the one before.
<1>6. ASSUME NEW episodes \in Nat,
             c = [u EXCEPT !.curve = Append(u.curve, Point(u, episodes)),
                           !.written = t.learned, !.window = 0, !.lastLogged = Timesteps],
             EndedBy(t, Len(t.curve)) + episodes = t.episodes
      PROVE  /\ c \in Learner /\ c.algorithm = t.algorithm /\ c.phase = "end"
             /\ c.steps = Timesteps /\ c.learned = t.learned /\ c.saved = t.saved
             /\ c.recorded = t.learned /\ c.episodes = t.episodes /\ c.window = 0
             /\ c.lastLogged = Timesteps /\ c.written = t.learned
             /\ c.curve # <<>>
             /\ c.curve[Len(c.curve)].step = Timesteps
             /\ c.curve[Len(c.curve)].value = t.learned
             /\ \A i \in DOMAIN c.curve :
                    i # Len(c.curve) =>
                        c.curve[i].value = LearnedAfter(t, RolloutBefore(c.curve[i].step))
             /\ \A i \in DOMAIN c.curve :
                    EndedBy(c, i - 1) + c.curve[i].episodes = EndedBy(c, i)
             /\ EndedBy(c, Len(c.curve)) = t.episodes
    <2> DEFINE m == [step |-> Timesteps, episodes |-> episodes, value |-> t.learned,
                     ended |-> t.episodes]
               curve == Append(t.curve, m)
    <2>1. Point(u, episodes) = m
        BY <1>3 DEF Point
    <2>2. m \in Mark /\ m.step = Timesteps /\ m.value = t.learned /\ m.ended = t.episodes
          /\ m.episodes = episodes
        BY <1>1 DEF Mark
    <2> HIDE DEF c, m
    <2>3. curve \in Seq(Mark)
        BY <1>1, <2>2
    <2>4. c = [u EXCEPT !.curve = curve, !.written = t.learned, !.window = 0,
                        !.lastLogged = Timesteps]
        BY <1>3, <1>6, <2>1
    <2> HIDE DEF curve
    <2>5. /\ c \in Learner /\ c.algorithm = t.algorithm /\ c.phase = "end"
          /\ c.steps = Timesteps /\ c.learned = t.learned /\ c.saved = t.saved
          /\ c.recorded = t.learned /\ c.episodes = t.episodes /\ c.window = 0
          /\ c.lastLogged = Timesteps /\ c.written = t.learned /\ c.curve = curve
        BY <1>1, <1>3, <2>3, <2>4 DEF Learner
    <2>6. c.curve = Append(t.curve, m)
        BY <2>5 DEF curve
    <2>7. EndedBy(t, Len(t.curve)) + m.episodes = m.ended
        BY <1>6, <2>2
    <2>8. /\ DOMAIN c.curve = 1 .. Len(t.curve) + 1 /\ Len(c.curve) = Len(t.curve) + 1
          /\ c.curve[Len(t.curve) + 1] = m
        BY <1>1, <2>2, <2>6, <2>7, PointAdded
    <2>9. \A i \in 1 .. Len(t.curve) : c.curve[i] = t.curve[i]
        BY <1>1, <2>2, <2>6, <2>7, PointAdded
    <2>10. \A i \in DOMAIN c.curve : EndedBy(c, i - 1) + c.curve[i].episodes = EndedBy(c, i)
        <3>1. PICK s, n : s = c /\ n = m
            OBVIOUS
        <3>2. /\ t \in Learner /\ CurveSoFar(t) /\ n \in Mark /\ s.curve = Append(t.curve, n)
              /\ EndedBy(t, Len(t.curve)) + n.episodes = n.ended
            BY <1>1, <2>2, <2>6, <2>7, <3>1
        <3>3. \A i \in DOMAIN s.curve : EndedBy(s, i - 1) + s.curve[i].episodes = EndedBy(s, i)
            BY <3>2, PointAdded
        <3> QED BY <3>1, <3>3
    <2>11. EndedBy(c, Len(c.curve)) = t.episodes
        BY <1>1, <2>2, <2>6, <2>7, PointAdded
    <2>12. c.curve # <<>> /\ c.curve[Len(c.curve)] = m
        BY <1>1, <2>8
    <2>13. \A i \in DOMAIN c.curve :
                i # Len(c.curve) =>
                    c.curve[i].value = LearnedAfter(t, RolloutBefore(c.curve[i].step))
        <3> SUFFICES ASSUME NEW i \in DOMAIN c.curve, i # Len(c.curve)
                     PROVE  c.curve[i].value = LearnedAfter(t, RolloutBefore(c.curve[i].step))
            OBVIOUS
        <3>1. i \in 1 .. Len(t.curve)
            BY <1>1, <2>8
        <3> QED BY <1>1, <1>4, <2>9, <3>1
    <2> QED BY <2>2, <2>5, <2>10, <2>11, <2>12, <2>13
<1>7. CASE t.lastLogged # Timesteps
    <2>1. c = Logged(u)
        BY <1>2, <1>3, <1>7 DEF CurveEnded
    <2>2. c = [u EXCEPT !.curve = Append(u.curve, Point(u, t.window)), !.written = t.learned,
                        !.window = 0, !.lastLogged = Timesteps]
        BY <1>3, <2>1 DEF Logged
    <2> HIDE DEF c
    <2> QED BY <1>1, <1>4, <1>6, <2>2 DEF c
<1>8. CASE t.lastLogged = Timesteps /\ t.learned # t.written
    <2>1. c = [u EXCEPT !.curve = Append(@, Point(u, 0)), !.written = u.recorded]
        BY <1>2, <1>3, <1>8 DEF CurveEnded
    <2>2. u.window = 0 /\ u.lastLogged = Timesteps /\ u.recorded = t.learned
        BY <1>1, <1>3, <1>4, <1>8
    <2> HIDE DEF c
    <2>3. c = [u EXCEPT !.curve = Append(u.curve, Point(u, 0)), !.written = t.learned,
                        !.window = 0, !.lastLogged = Timesteps]
        BY <1>3, <2>1, <2>2 DEF Learner
    <2>4. EndedBy(t, Len(t.curve)) + 0 = t.episodes
        BY <1>1, <1>3, <1>4, <1>5, <2>2
    <2> QED BY <1>6, <2>3, <2>4 DEF c
<1>9. CASE t.lastLogged = Timesteps /\ t.learned = t.written
    <2>1. c = u
        BY <1>2, <1>3, <1>9 DEF CurveEnded
    <2>2. t.window = 0 /\ t.curve # <<>>
        BY <1>1, <1>4, <1>9
    <2>3. \A i \in Int : EndedBy(u, i) = EndedBy(t, i)
        BY <1>3 DEF EndedBy
    <2>4. EndedBy(t, Len(t.curve)) = t.episodes
        BY <1>1, <1>4, <1>5, <2>2
    <2>5. /\ t.curve[Len(t.curve)].step = Timesteps
          /\ t.curve[Len(t.curve)].value = t.learned
        BY <1>4, <1>9, <2>2
    <2> HIDE DEF c
    <2>6. \A i \in DOMAIN t.curve :
            EndedBy(u, i - 1) + t.curve[i].episodes = EndedBy(u, i)
        BY <1>1, <1>4, <2>3
    <2>7. EndedBy(u, Len(t.curve)) = t.episodes
        BY <1>1, <2>3, <2>4
    <2> QED BY <1>1, <1>3, <1>4, <1>9, <2>1, <2>2, <2>5, <2>6, <2>7 DEF c
<1> QED BY <1>7, <1>8, <1>9

\* The end of learn().
LEMMA EndedInv ==
    ASSUME NEW t, LearnInv(t), t.phase = "end"
    PROVE  LearnInv(Ended(t))
<1> DEFINE c == CurveEnded(t)
<1>1. /\ t \in Learner /\ t.steps = Timesteps /\ Timesteps \in Nat \ {0}
      /\ t.learned = LearnedAfter(t, Timesteps)
    BY TrainingFacts DEF LearnInv, LoopShape, Knows, Start
<1>2. /\ c \in Learner /\ c.algorithm = t.algorithm /\ c.phase = "end"
      /\ c.steps = Timesteps /\ c.learned = t.learned /\ c.saved = t.saved
      /\ c.recorded = t.learned /\ c.episodes = t.episodes /\ c.window = 0
      /\ c.lastLogged = Timesteps /\ c.written = t.learned
      /\ c.curve # <<>>
      /\ c.curve[Len(c.curve)].step = Timesteps
      /\ c.curve[Len(c.curve)].value = t.learned
      /\ \A i \in DOMAIN c.curve :
            i # Len(c.curve) =>
                c.curve[i].value = LearnedAfter(t, RolloutBefore(c.curve[i].step))
      /\ \A i \in DOMAIN c.curve :
            EndedBy(c, i - 1) + c.curve[i].episodes = EndedBy(c, i)
      /\ EndedBy(c, Len(c.curve)) = t.episodes
    BY CurveEndedIs
<1> HIDE DEF c
<1>3. SavedSoFar(c)
    BY <1>1, <1>2 DEF LearnInv, SavedSoFar, Due, LearnedAfter
<1>4. c.learned = LearnedAfter(c, c.steps)
    BY <1>1, <1>2 DEF LearnedAfter
<1>5. PICK saved \in Seq([step : Nat, learned : Nat]) :
            /\ Saved(c) = [c EXCEPT !.saved = saved]
            /\ \A i \in DOMAIN saved :
                /\ saved[i].step = i * CheckpointInterval
                /\ saved[i].learned = LearnedAfter(c, saved[i].step)
            /\ Len(saved) * CheckpointInterval <= c.steps
            /\ c.steps < (Len(saved) + 1) * CheckpointInterval
    BY <1>2, <1>3, <1>4, SavedAsDue
<1> DEFINE s == [[c EXCEPT !.saved = saved] EXCEPT !.phase = "done"]
<1>6. Ended(t) = s
    BY <1>5 DEF Ended, c
<1>7. /\ s \in Learner /\ s.phase = "done" /\ s.steps = Timesteps /\ s.saved = saved
      /\ s.learned = t.learned /\ s.algorithm = t.algorithm
      /\ s.recorded = t.learned /\ s.curve = c.curve /\ s.window = 0
      /\ s.episodes = t.episodes /\ s.lastLogged = Timesteps /\ s.written = t.learned
    BY <1>2, <1>5 DEF Learner
<1> HIDE DEF s
<1>8. LoopShape(s)
    BY <1>7 DEF LoopShape
<1>9. Start(s) = Timesteps
    BY <1>7 DEF Start
<1>10. Knows(s)
    BY <1>1, <1>7, <1>9 DEF Knows, LearnedAfter
<1>11. SavedSoFar(s)
    BY <1>2, <1>5, <1>7, <1>9 DEF SavedSoFar, Due, LearnedAfter
<1>12. s.curve \in Seq(Mark) /\ Len(s.curve) \in Nat /\ t.episodes \in Nat
    BY <1>1, <1>7 DEF Learner
<1>13. /\ \A i \in DOMAIN s.curve :
            EndedBy(s, i - 1) + s.curve[i].episodes = EndedBy(s, i)
       /\ EndedBy(s, Len(s.curve)) = t.episodes
    BY <1>2, <1>7 DEF EndedBy
<1>14. EndedBy(s, Len(s.curve)) + s.window = s.episodes
    BY <1>7, <1>12, <1>13
<1>15. CurveSoFar(s)
    BY <1>1, <1>2, <1>7, <1>13, <1>14 DEF CurveSoFar
<1>16. CurveComplete(s)
    <2>1. \A i \in DOMAIN s.curve :
            s.curve[i].value =
                IF s.phase = "done" /\ i = Len(s.curve) /\ s.curve[i].step = Timesteps
                THEN LearnedAfter(s, Timesteps)
                ELSE LearnedAfter(s, RolloutBefore(s.curve[i].step))
        BY <1>1, <1>2, <1>7 DEF LearnedAfter
    <2> QED BY <1>2, <1>7, <1>13, <1>14, <2>1 DEF CurveComplete
<1> QED BY <1>6, <1>7, <1>8, <1>10, <1>11, <1>15, <1>16 DEF LearnInv

\* Every step of the library's loop keeps what holds of a call of learn().
LEMMA LearnStepInv ==
    ASSUME NEW t, LearnInv(t), t.phase # "done", NEW s \in LearnSteps(t)
    PROVE  LearnInv(s)
<1>1. t.phase \in {"rollout", "steps", "update", "end"}
    BY DEF LearnInv, Learner
<1>2. CASE t.phase = "rollout"
    BY <1>2, RolloutStartedInv DEF LearnSteps
<1>3. CASE t.phase = "steps"
    <2>1. s \in {Stepped(t, FALSE), Stepped(t, TRUE), Dumped(Stepped(t, TRUE))}
        BY <1>3 DEF LearnSteps
    <2>2. /\ LearnInv(Stepped(t, FALSE)) /\ LearnInv(Stepped(t, TRUE))
          /\ Stepped(t, TRUE).phase \in {"steps", "update"}
        BY <1>3, SteppedInv
    <2> QED BY <2>1, <2>2, DumpedInv
<1>4. CASE t.phase = "update"
    BY <1>4, UpdatedInv DEF LearnSteps
<1>5. CASE t.phase = "end"
    BY <1>5, EndedInv DEF LearnSteps
<1> QED BY <1>1, <1>2, <1>3, <1>4, <1>5

\* Its checkpoints are the model after each interval, all of them by the end.
LEMMA LearnExact ==
    ASSUME NEW t, LearnInv(t)
    PROVE  CheckpointsExact(t) /\ CurveComplete(t)
<1>1. \A i \in DOMAIN t.saved :
        /\ t.saved[i].step = i * CheckpointInterval
        /\ t.saved[i].learned = LearnedAfter(t, t.saved[i].step)
    BY DEF LearnInv, SavedSoFar
<1>2. ASSUME t.phase = "done"
      PROVE  Len(t.saved) = Timesteps \div CheckpointInterval
    <2>1. /\ Len(t.saved) \in Nat /\ Start(t) = Timesteps
          /\ Len(t.saved) * CheckpointInterval <= Start(t)
          /\ Start(t) < (Len(t.saved) + 1) * CheckpointInterval
        BY <1>2 DEF LearnInv, Learner, SavedSoFar, Due, Start, LoopShape
    <2> QED BY <2>1, TrainingFacts, QuotientIs
<1> QED BY <1>1, <1>2 DEF LearnInv, CheckpointsExact

-----------------------------------------------------------------------------
(* The study.                                                              *)
Value == Nat \X Nat \X SUBSET Nat
Trial == [state : {"RUNNING"} \cup Finished, params : Seq(Value), runs : Seq(Nat), point : Nat]
TrackedRun ==
    [trial : Nat, experiment : Nat, status : {"RUNNING", "FINISHED", "FAILED", "KILLED"},
     tag : {NoTag} \cup Finished]
WorkerState ==
    [pc : {"idle", "suggest", "lookup", "create", "open", "learn", "inside", "leave",
           "callback"},
     trial : Nat, open : Seq(Nat), opened : Nat, learn : Learner,
     outcome : {"none"} \cup Finished]

StudyTypes ==
    /\ kind \in {"ppo", "dqn", "threshold", "parallel"}
    /\ trials \in Seq(Trial)
    /\ runs \in Seq(TrackedRun)
    /\ experiments \in {0, 1}
    /\ invocation \in [pc : {"idle", "optimize"}, left : Nat, raised : BOOLEAN]
    /\ samplers \in [DOMAIN samplers -> Nat]
    /\ workers \in [Workers -> WorkerState]
    /\ stops \in Nat

RunsOf(k) == {r \in DOMAIN runs : runs[r].trial = k}
Held(k) == \E w \in Busy : workers[w].trial = k

\* What a worker has open: nothing before its first run and after its last, a
\* learned trial's training run until the validation run in it is over.
OpenShape(me) ==
    /\ me.pc = "suggest" => me.opened = 0
    /\ me.pc \in {"lookup", "create", "open"} => me.opened \in {0, 1}
    /\ me.pc = "learn" => Nested /\ me.opened = 1
    /\ me.pc = "inside" => \/ me.opened = RunsPerTrial
                           \/ ~Nested /\ me.opened = 1 /\ Len(me.open) = 1
    /\ me.pc \in {"suggest", "leave", "callback"} => me.open = <<>>
    /\ me.pc \in {"lookup", "create", "open"} /\ (me.opened = 0 \/ ~Nested) => me.open = <<>>

\* The runs of a trial under way are open or ended well, and not yet tagged.
RunsUnderWay(w) ==
    \A r \in RunsOf(workers[w].trial) :
        runs[r].tag = NoTag /\ (runs[r].status = "FINISHED" \/ r \in OpenRuns(w))

\* Those of a trial that is over but not yet told.
RunsUntold(w) ==
    \A r \in RunsOf(workers[w].trial) :
        /\ runs[r].tag = NoTag
        /\ workers[w].outcome = "COMPLETE" => runs[r].status = "FINISHED"

\* A busy worker: its trial is running until Leave stores its outcome, can be
\* tagged until the callback, and is nobody's who was stopped.
WorkerInv(w) ==
    LET me == workers[w]
        k == me.trial
    IN  /\ k \in DOMAIN trials /\ k \notin cut
        /\ OpenRuns(w) \subseteq RunsOf(k)
        /\ OpenShape(me)
        /\ me.pc = "suggest" /\ Sampler # "grid" =>
                k \in DOMAIN samplers /\ samplers[k] = Len(trials[k].params)
        /\ me.pc = "open" => experiments = 1
        /\ me.pc # "callback" => trials[k].state = "RUNNING"
        /\ me.pc \notin {"leave", "callback"} => k \in contexts /\ RunsUnderWay(w)
        /\ me.pc = "leave" =>
            \/ me.outcome = "FAIL" /\ \A r \in RunsOf(k) : runs[r].tag = "FAIL"
            \/ me.outcome \in {"COMPLETE", "PRUNED"} /\ k \in contexts /\ RunsUntold(w)
        /\ me.pc = "callback" =>
            /\ me.outcome \in {"COMPLETE", "PRUNED"} /\ trials[k].state = me.outcome
            /\ k \in contexts /\ k \notin DOMAIN samplers /\ RunsUntold(w)

\* A trial, held or not: the runs noted on it, and the tags.
TrialInv(k) ==
    LET state == trials[k].state
    IN  /\ \A i \in DOMAIN trials[k].runs : trials[k].runs[i] \in RunsOf(k)
        /\ \A r \in RunsOf(k) : \E i \in DOMAIN trials[k].runs : trials[k].runs[i] = r
        /\ \A r \in RunsOf(k) :
            /\ state \in Finished /\ ~Held(k) /\ k \notin cut => runs[r].tag = state
            /\ state \in Finished /\ runs[r].tag # NoTag => runs[r].tag = state
            /\ state = "COMPLETE" => runs[r].status = "FINISHED"

\* Trials that failed, or will once their worker leaves.
Failing ==
    {k \in DOMAIN trials :
        \/ trials[k].state = "FAIL"
        \/ \E w \in Workers : workers[w].pc = "leave" /\ workers[w].outcome = "FAIL"
                              /\ workers[w].trial = k}

\* What holds between all of them.
SharedInv ==
    /\ \A r \in DOMAIN runs : runs[r].trial \in DOMAIN trials /\ runs[r].experiment = 1
    /\ \A v, w \in Busy : v # w => workers[v].trial # workers[w].trial
    /\ invocation.pc = "idle" => Busy = {}
    /\ kind # "parallel" => Busy \subseteq {OneWorker}
    /\ \A k \in DOMAIN samplers : Held(k)
    /\ cut \subseteq DOMAIN trials
    /\ Cardinality(Failing) <= stops
    /\ \A w \in Workers : LearnInv(workers[w].learn)

StudyInv ==
    /\ StudyTypes
    /\ SharedInv
    /\ \A w \in Busy : WorkerInv(w)
    /\ \A k \in DOMAIN trials : TrialInv(k)

-----------------------------------------------------------------------------
\* What types say of a trial, a run and a worker.
LEMMA StudyFacts ==
    ASSUME StudyInv
    PROVE  /\ StudyTypes /\ SharedInv
           /\ \A k \in DOMAIN trials : k \in Nat \ {0} /\ trials[k] \in Trial /\ TrialInv(k)
           /\ \A r \in DOMAIN runs : r \in Nat /\ runs[r] \in TrackedRun
           /\ \A w \in Workers : workers[w] \in WorkerState /\ LearnInv(workers[w].learn)
           /\ Busy \subseteq Workers
           /\ \A w \in Busy : WorkerInv(w) /\ workers[w].trial \in DOMAIN trials
<1>1. StudyTypes /\ SharedInv
    BY DEF StudyInv
<1>2. /\ \A k \in DOMAIN trials : k \in Nat \ {0} /\ trials[k] \in Trial
      /\ \A r \in DOMAIN runs : r \in Nat /\ runs[r] \in TrackedRun
      /\ \A w \in Workers : workers[w] \in WorkerState
    BY <1>1 DEF StudyTypes
<1> QED BY <1>1, <1>2 DEF StudyInv, SharedInv, Busy, WorkerInv

LEMMA FailingFinite ==
    ASSUME StudyTypes
    PROVE  IsFiniteSet(Failing)
<1>1. DOMAIN trials = 1 .. Len(trials) /\ Len(trials) \in Int /\ 1 \in Int
    BY DEF StudyTypes
<1>2. IsFiniteSet(DOMAIN trials)
    BY <1>1, FS_Interval
<1> QED BY <1>2, FS_Subset DEF Failing

\* A step of one worker that changes nothing outside its trial keeps what holds
\* of every other worker and every other trial; what remains to be shown is
\* what it does to itself and its own trial.
LEMMA ActsAlone ==
    ASSUME StudyInv, NEW w \in Busy, NEW k, k = workers[w].trial, StudyTypes',
           kind' = kind, cut' = cut, invocation'.pc = invocation.pc,
           \A v \in Workers : v # w => workers'[v] = workers[v],
           DOMAIN trials' = DOMAIN trials,
           \A j \in DOMAIN trials : j # k => trials'[j] = trials[j],
           \A r \in DOMAIN runs : r \in DOMAIN runs' /\ runs'[r].trial = runs[r].trial,
           \A r \in DOMAIN runs' : runs'[r].trial # k => r \in DOMAIN runs /\ runs'[r] = runs[r],
           \A r \in DOMAIN runs' : runs'[r].experiment = 1,
           \A j \in contexts : j # k => j \in contexts',
           \A j \in DOMAIN samplers :
                j # k => j \in DOMAIN samplers' /\ samplers'[j] = samplers[j],
           \A j \in DOMAIN samplers' : j \in DOMAIN samplers,
           k \in DOMAIN samplers' => workers'[w].pc # "idle",
           workers'[w].pc # "idle" => workers'[w].trial = k,
           experiments = 1 => experiments' = 1,
           LearnInv(workers'[w].learn),
           workers'[w].pc # "idle" => WorkerInv(w)',
           TrialInv(k)',
           stops' \in {stops, stops + 1},
           (\/ trials'[k].state = "FAIL"
            \/ workers'[w].pc = "leave" /\ workers'[w].outcome = "FAIL")
                => (\/ stops' = stops + 1
                    \/ workers[w].pc = "leave" /\ workers[w].outcome = "FAIL")
    PROVE  StudyInv'
<1>1. /\ StudyTypes /\ SharedInv /\ w \in Workers /\ k \in DOMAIN trials
      /\ \A v \in Busy : v \in Workers /\ WorkerInv(v) /\ workers[v].trial \in DOMAIN trials
      /\ \A j \in DOMAIN trials : TrialInv(j)
      /\ stops \in Nat
    BY StudyFacts DEF StudyTypes
\* The others are as busy as before, with trials of their own.
<1>2. ASSUME NEW v \in Workers, v # w
      PROVE  /\ v \in Busy' <=> v \in Busy
             /\ workers'[v] = workers[v]
             /\ v \in Busy => workers[v].trial # k
    BY <1>1, <1>2 DEF SharedInv, Busy, At
<1>3. /\ w \in Busy' <=> workers'[w].pc # "idle"
      /\ Busy' \subseteq Workers
    BY <1>1 DEF Busy, At
<1>4. ASSUME NEW j, j # k
      PROVE  /\ RunsOf(j)' = RunsOf(j)
             /\ \A r \in RunsOf(j) : runs'[r] = runs[r]
             /\ Held(j)' <=> Held(j)
    <2>1. RunsOf(j)' = RunsOf(j) /\ \A r \in RunsOf(j) : runs'[r] = runs[r]
        BY <1>4 DEF RunsOf
    <2>2. Held(j)' => Held(j)
        BY <1>1, <1>2, <1>3, <1>4 DEF Held
    <2>3. Held(j) => Held(j)'
        BY <1>1, <1>2, <1>3, <1>4 DEF Held
    <2> QED BY <2>1, <2>2, <2>3
<1>5. ASSUME NEW v \in Busy' PROVE WorkerInv(v)'
    <2>1. CASE v = w
        BY <1>3, <2>1
    <2>2. CASE v # w
        <3>1. /\ v \in Busy /\ workers'[v] = workers[v] /\ workers[v].trial # k
              /\ WorkerInv(v) /\ workers[v].trial \in DOMAIN trials
            BY <1>1, <1>2, <1>3, <2>2
        <3> DEFINE j == workers[v].trial
        <3>2. /\ RunsOf(j)' = RunsOf(j) /\ \A r \in RunsOf(j) : runs'[r] = runs[r]
              /\ trials'[j] = trials[j] /\ j \in DOMAIN trials'
            BY <1>4, <3>1
        <3>3. OpenRuns(v)' = OpenRuns(v)
            BY <3>1 DEF OpenRuns
        <3>4. /\ RunsUnderWay(v) => RunsUnderWay(v)'
              /\ RunsUntold(v) => RunsUntold(v)'
            <4>1. j' = j
                BY <3>1
            <4> QED BY <3>1, <3>2, <3>3, <4>1 DEF RunsUnderWay, RunsUntold
        <3>5. OpenShape(workers[v])' <=> OpenShape(workers[v])
            BY <3>1 DEF OpenShape, Nested
        <3>6. j \in contexts => j \in contexts'
            BY <3>1
        <3>7. j \in DOMAIN samplers => j \in DOMAIN samplers' /\ samplers'[j] = samplers[j]
            BY <3>1
        <3> QED BY <3>1, <3>2, <3>3, <3>4, <3>5, <3>6, <3>7 DEF WorkerInv, Sampler
    <2> QED BY <2>1, <2>2
<1>6. ASSUME NEW j \in DOMAIN trials' PROVE TrialInv(j)'
    <2>1. CASE j = k
        BY <2>1
    <2>2. CASE j # k
        BY <1>1, <1>4, <2>2 DEF TrialInv
    <2> QED BY <2>1, <2>2
<1>7. SharedInv'
    <2>1. \A r \in DOMAIN runs' : runs'[r].trial \in DOMAIN trials' /\ runs'[r].experiment = 1
        BY <1>1 DEF SharedInv
    <2>2. \A u, v \in Busy' : u # v => workers'[u].trial # workers'[v].trial
        BY <1>1, <1>2, <1>3 DEF SharedInv
    <2>3. invocation'.pc = "idle" => Busy' = {}
        BY <1>1 DEF SharedInv
    <2>4. kind' # "parallel" => Busy' \subseteq {OneWorker}
        BY <1>1, <1>2, <1>3 DEF SharedInv
    <2>5. \A j \in DOMAIN samplers' : Held(j)'
        BY <1>1, <1>3, <1>4 DEF SharedInv, Held
    <2>6. Cardinality(Failing)' <= stops'
        <3>1. \A j \in DOMAIN trials : j # k => (j \in Failing' => j \in Failing)
            BY <1>1, <1>2, <1>3 DEF Failing
        <3>2. k \in Failing' =>
                    \/ trials'[k].state = "FAIL"
                    \/ workers'[w].pc = "leave" /\ workers'[w].outcome = "FAIL"
            BY <1>1, <1>2, <1>3 DEF Failing, Busy, At
        <3>3. workers[w].pc = "leave" /\ workers[w].outcome = "FAIL" => k \in Failing
            BY <1>1 DEF Failing
        <3>4. Failing' \subseteq DOMAIN trials
            BY DEF Failing
        <3>5. IsFiniteSet(Failing) /\ Cardinality(Failing) \in Nat /\ Cardinality(Failing) <= stops
            BY <1>1, FailingFinite, FS_CardinalityType DEF SharedInv
        <3>6. CASE Failing' \subseteq Failing
            <4>1. Cardinality(Failing') \in Nat /\ Cardinality(Failing') <= Cardinality(Failing)
                BY <3>5, <3>6, FS_Subset, FS_CardinalityType
            <4> QED BY <1>1, <3>5, <4>1
        <3>7. CASE ~(Failing' \subseteq Failing)
            <4>1. stops' = stops + 1 /\ Failing' \subseteq Failing \cup {k}
                BY <3>1, <3>2, <3>3, <3>4, <3>7
            <4>2. /\ IsFiniteSet(Failing \cup {k})
                  /\ Cardinality(Failing \cup {k}) \in {Cardinality(Failing), Cardinality(Failing) + 1}
                BY <3>5, FS_AddElement
            <4>3. /\ Cardinality(Failing') \in Nat
                  /\ Cardinality(Failing') <= Cardinality(Failing \cup {k})
                BY <4>1, <4>2, FS_Subset, FS_CardinalityType
            <4> QED BY <1>1, <3>5, <4>1, <4>2, <4>3
        <3> QED BY <3>6, <3>7
    <2>7. \A v \in Workers : LearnInv(workers'[v].learn)
        BY <1>1 DEF SharedInv
    <2>8. SharedInv' <=>
            /\ \A r \in DOMAIN runs' : runs'[r].trial \in DOMAIN trials' /\ runs'[r].experiment = 1
            /\ \A u, v \in Busy' : u # v => workers'[u].trial # workers'[v].trial
            /\ invocation'.pc = "idle" => Busy' = {}
            /\ kind' # "parallel" => Busy' \subseteq {OneWorker}
            /\ \A j \in DOMAIN samplers' : Held(j)'
            /\ cut' \subseteq DOMAIN trials'
            /\ Cardinality(Failing)' <= stops'
            /\ \A v \in Workers : LearnInv(workers'[v].learn)
        BY DEF SharedInv
    <2>9. cut' \subseteq DOMAIN trials'
        BY <1>1 DEF SharedInv
    <2> QED BY <2>1, <2>2, <2>3, <2>4, <2>5, <2>6, <2>7, <2>8, <2>9
<1> QED BY <1>5, <1>6, <1>7 DEF StudyInv

LEMMA WorkerUpdated ==
    ASSUME workers \in [Workers -> WorkerState], NEW w \in Workers, NEW me \in WorkerState,
           workers' = [workers EXCEPT ![w] = me]
    PROVE  /\ workers' \in [Workers -> WorkerState] /\ workers'[w] = me
           /\ \A v \in Workers : v # w => workers'[v] = workers[v]
OBVIOUS

LEMMA WorkerAt ==
    ASSUME workers \in [Workers -> WorkerState], NEW w \in Workers, NEW pc,
           pc \in {"idle", "suggest", "lookup", "create", "open", "learn", "inside", "leave",
                   "callback"}, Goto(w, pc)
    PROVE  /\ workers' \in [Workers -> WorkerState] /\ workers'[w].pc = pc
           /\ workers'[w].trial = workers[w].trial /\ workers'[w].open = workers[w].open
           /\ workers'[w].opened = workers[w].opened /\ workers'[w].learn = workers[w].learn
           /\ workers'[w].outcome = workers[w].outcome
           /\ \A v \in Workers : v # w => workers'[v] = workers[v]
BY DEF Goto, WorkerState

\* A worker that only moves on within its trial: its trial, its runs and what
\* it has open stay.
LEMMA MovesOn ==
    ASSUME StudyInv, NEW w \in Busy, NEW pc \in {"lookup", "create", "open", "learn"},
           pc = "learn" => workers[w].pc = "learn",
           workers[w].pc \in {"suggest", "lookup", "create", "learn"},
           workers' \in [Workers -> WorkerState],
           \A v \in Workers : v # w => workers'[v] = workers[v],
           workers'[w].pc = pc, workers'[w].trial = workers[w].trial,
           workers'[w].open = workers[w].open, workers'[w].opened = workers[w].opened,
           LearnInv(workers'[w].learn),
           pc = "open" => experiments' = 1,
           experiments' \in {0, 1}, experiments = 1 => experiments' = 1,
           UNCHANGED <<kind, trials, runs, invocation, samplers, contexts, stops, cut>>
    PROVE  StudyInv'
<1>0. PICK k : k = workers[w].trial
    OBVIOUS
<1>1. /\ StudyTypes /\ SharedInv /\ w \in Workers /\ WorkerInv(w) /\ k \in DOMAIN trials
      /\ TrialInv(k) /\ workers[w].pc \notin {"idle", "leave", "callback"}
      /\ trials[k] \in Trial
    BY <1>0, StudyFacts
<1>2. StudyTypes'
    BY <1>1 DEF StudyTypes
<1>3. RunsOf(k)' = RunsOf(k) /\ OpenRuns(w)' = OpenRuns(w)
    BY DEF RunsOf, OpenRuns
<1>4. /\ OpenRuns(w) \subseteq RunsOf(k) /\ k \notin cut /\ k \in contexts
      /\ trials[k].state = "RUNNING"
      /\ RunsUnderWay(w) /\ OpenShape(workers[w])
    BY <1>0, <1>1 DEF WorkerInv
<1>5. RunsUnderWay(w)'
    BY <1>0, <1>3, <1>4 DEF RunsUnderWay
<1>6. OpenShape(workers[w])'
    BY <1>4 DEF OpenShape, Nested
<1>7. WorkerInv(w)'
    BY <1>0, <1>1, <1>3, <1>4, <1>5, <1>6 DEF WorkerInv
<1>8. TrialInv(k)'
    <2>1. "RUNNING" \notin Finished
        BY DEF Finished
    <2> QED BY <1>1, <1>3, <1>4, <2>1 DEF TrialInv
<1>9. /\ \A r \in DOMAIN runs' : runs'[r].experiment = 1
      /\ \A j \in contexts : j \in contexts'
      /\ \A j \in DOMAIN samplers : j \in DOMAIN samplers' /\ samplers'[j] = samplers[j]
    BY <1>1 DEF SharedInv
<1>10. /\ StudyInv /\ k = workers[w].trial /\ stops' = stops
       /\ workers'[w].pc # "idle" /\ workers'[w].pc # "leave" /\ workers'[w].trial = k
       /\ trials'[k].state # "FAIL" /\ w \in Busy
    BY <1>0, <1>4
<1> QED BY <1>2, <1>7, <1>8, <1>9, <1>10, ActsAlone

\* What a worker that is not through with its parameters proposes: the point of
\* its trial, or the next value of its trial's sampler.
LEMMA Proposes ==
    ASSUME StudyInv, NEW w \in Workers, Suggest(w), NEW k, k = workers[w].trial,
           ~(Len(trials[k].params) + 1 > Suggestions)
    PROVE  /\ workers' = workers
           /\ samplers' \in [DOMAIN samplers -> Nat] /\ DOMAIN samplers' = DOMAIN samplers
           /\ \A j \in DOMAIN samplers : j # k => samplers'[j] = samplers[j]
           /\ Sampler # "grid" => samplers'[k] = Len(trials[k].params) + 1
           /\ \E value \in Value :
                /\ trials' = [trials EXCEPT ![k].params = Append(@, value)]
                /\ value = IF Sampler = "grid"
                           THEN <<trials[k].point, Len(trials[k].params) + 1, {}>>
                           ELSE <<k, Len(trials[k].params) + 1,
                                  IF Sampler = "tpe" THEN CompletedTrials ELSE {}>>
<1> DEFINE n == Len(trials[k].params)
<1>1. w \in Busy /\ workers[w].pc = "suggest"
    BY DEF Suggest, Busy, At
<1>2. /\ StudyTypes /\ WorkerInv(w) /\ k \in DOMAIN trials /\ k \in Nat /\ trials[k] \in Trial
      /\ samplers \in [DOMAIN samplers -> Nat]
    BY <1>1, StudyFacts DEF StudyTypes
<1>3. n \in Nat /\ n + 1 \in Nat /\ trials[k].point \in Nat
    BY <1>2 DEF Trial
<1>4. CASE Sampler = "grid"
    <2>1. /\ trials' = [trials EXCEPT ![k].params = Append(@, <<trials[k].point, n + 1, {}>>)]
          /\ workers' = workers /\ samplers' = samplers
        BY <1>4 DEF Suggest
    <2>2. <<trials[k].point, n + 1, {}>> \in Value
        BY <1>3 DEF Value
    <2> QED BY <1>2, <1>4, <2>1, <2>2
<1>5. CASE Sampler # "grid"
    <2>1. PICK history : history = IF Sampler = "tpe" THEN CompletedTrials ELSE {}
        OBVIOUS
    <2>2. /\ samplers' = [WithSampler(k) EXCEPT ![k] = @ + 1]
          /\ trials' = [trials EXCEPT ![k].params = Append(@, <<k, samplers'[k], history>>)]
          /\ workers' = workers
        BY <1>5, <2>1 DEF Suggest, SamplerSeed
    <2>3. k \in DOMAIN samplers /\ samplers[k] = n
        BY <1>1, <1>2, <1>5 DEF WorkerInv
    <2>4. WithSampler(k) = [seed \in DOMAIN samplers |-> samplers[seed]]
        BY <2>3 DEF WithSampler, SamplerSeed
    <2>5. WithSampler(k) = samplers
        BY <1>2, <2>4
    <2> HIDE <2>4
    <2>6. samplers' = [samplers EXCEPT ![k] = n + 1]
        BY <2>2, <2>3, <2>5
    <2>7. /\ samplers' \in [DOMAIN samplers -> Nat] /\ DOMAIN samplers' = DOMAIN samplers
          /\ \A j \in DOMAIN samplers : j # k => samplers'[j] = samplers[j]
          /\ samplers'[k] = n + 1
        BY <1>2, <1>3, <2>3, <2>6
    <2>8. history \in SUBSET Nat
        <3>1. \A j \in DOMAIN trials : j \in Nat
            BY <1>2, StudyFacts
        <3> QED BY <2>1, <3>1 DEF CompletedTrials
    <2>9. <<k, n + 1, history>> \in Value
        BY <1>2, <1>3, <2>8 DEF Value
    <2> QED BY <1>5, <2>1, <2>2, <2>7, <2>9
<1> QED BY <1>4, <1>5

LEMMA SuggestStep == ASSUME StudyInv, NEW w \in Workers, Suggest(w) PROVE StudyInv'
<1>0. PICK k : k = workers[w].trial
    OBVIOUS
<1> DEFINE params == trials[k].params
<1>1. /\ w \in Busy /\ workers[w].pc = "suggest"
      /\ UNCHANGED <<kind, identity, runs, experiments, invocation, contexts, stops, cut>>
    BY DEF Suggest, Busy, At
<1>2. /\ StudyTypes /\ SharedInv /\ WorkerInv(w) /\ k \in DOMAIN trials /\ k \in Nat
      /\ TrialInv(k) /\ trials[k] \in Trial /\ workers[w] \in WorkerState
      /\ LearnInv(workers[w].learn)
      /\ workers \in [Workers -> WorkerState] /\ trials \in Seq(Trial)
      /\ samplers \in [DOMAIN samplers -> Nat]
    BY <1>0, <1>1, StudyFacts DEF StudyTypes
<1>3. CASE Len(params) + 1 > Suggestions
    <2>1. Goto(w, "lookup") /\ UNCHANGED <<trials, samplers>>
        BY <1>0, <1>3 DEF Suggest
    <2>2. /\ workers' \in [Workers -> WorkerState] /\ workers'[w].pc = "lookup"
          /\ workers'[w].trial = workers[w].trial /\ workers'[w].open = workers[w].open
          /\ workers'[w].opened = workers[w].opened /\ workers'[w].learn = workers[w].learn
          /\ \A v \in Workers : v # w => workers'[v] = workers[v]
        BY <1>2, <2>1, WorkerAt
    <2>3. experiments' \in {0, 1} /\ experiments' = experiments
        BY <1>1, <1>2 DEF StudyTypes
    <2> QED BY <1>1, <1>2, <2>1, <2>2, <2>3, MovesOn
<1>4. CASE ~(Len(params) + 1 > Suggestions)
    <2>1. /\ k \notin cut /\ k \in contexts /\ trials[k].state = "RUNNING"
          /\ OpenRuns(w) \subseteq RunsOf(k) /\ OpenShape(workers[w]) /\ RunsUnderWay(w)
          /\ Sampler # "grid" => k \in DOMAIN samplers /\ samplers[k] = Len(params)
        BY <1>0, <1>1, <1>2 DEF WorkerInv
    <2>2. /\ params \in Seq(Value) /\ Len(params) \in Nat /\ Len(params) + 1 \in Nat
          /\ trials[k].point \in Nat
        BY <1>2 DEF Trial
    <2>3. workers' = workers
        BY <1>0, <1>4, Proposes
    <2>4. PICK value \in Value : trials' = [trials EXCEPT ![k].params = Append(@, value)]
        BY <1>0, <1>4, Proposes
    <2>5. /\ samplers' \in [DOMAIN samplers -> Nat] /\ DOMAIN samplers' = DOMAIN samplers
          /\ \A j \in DOMAIN samplers : j # k => samplers'[j] = samplers[j]
          /\ Sampler # "grid" => samplers'[k] = Len(params) + 1
        BY <1>0, <1>4, Proposes
    <2> DEFINE longer == Append(params, value)
    <2>6. trials' = [trials EXCEPT ![k] = [trials[k] EXCEPT !.params = longer]]
        BY <2>4
    <2> HIDE DEF params
    <2>7. longer \in Seq(Value) /\ Len(longer) = Len(params) + 1
        BY <2>2
    <2> HIDE DEF longer
    <2> DEFINE mine == [trials[k] EXCEPT !.params = longer]
    <2>8. mine \in Trial /\ mine.params = longer /\ mine.state = "RUNNING" /\ mine.runs = trials[k].runs
        BY <1>2, <2>1, <2>7 DEF Trial
    <2> HIDE DEF mine
    <2>9. /\ trials' \in Seq(Trial) /\ DOMAIN trials' = DOMAIN trials /\ trials'[k] = mine
          /\ \A j \in DOMAIN trials : j # k => trials'[j] = trials[j]
        BY <1>2, <2>6, <2>8 DEF mine
    <2>10. StudyTypes'
        BY <1>1, <1>2, <2>3, <2>5, <2>9 DEF StudyTypes
    <2>11. RunsOf(k)' = RunsOf(k) /\ OpenRuns(w)' = OpenRuns(w)
        BY <1>1, <2>3 DEF RunsOf, OpenRuns
    <2>12. WorkerInv(w)'
        <3>1. RunsUnderWay(w)'
            BY <1>0, <1>1, <2>1, <2>3, <2>11 DEF RunsUnderWay
        <3>2. OpenShape(workers[w])'
            BY <1>1, <2>1, <2>3 DEF OpenShape, Nested
        <3>3. Sampler' # "grid" => k \in DOMAIN samplers' /\ samplers'[k] = Len(trials'[k].params)
            BY <1>1, <2>1, <2>5, <2>7, <2>8, <2>9 DEF Sampler
        <3>4. /\ k \in DOMAIN trials' /\ k \notin cut' /\ k \in contexts'
              /\ trials'[k].state = "RUNNING"
            BY <1>1, <1>2, <2>1, <2>8, <2>9
        <3>5. workers'[w].trial = k /\ workers'[w].pc = "suggest"
            BY <1>0, <1>1, <2>3
        <3> QED BY <2>1, <2>11, <3>1, <3>2, <3>3, <3>4, <3>5 DEF WorkerInv
    <2>13. TrialInv(k)'
        <3>1. "RUNNING" \notin Finished /\ "RUNNING" # "COMPLETE"
            BY DEF Finished
        <3> QED BY <1>1, <1>2, <2>8, <2>9, <2>11, <3>1 DEF TrialInv
    <2>14. /\ kind' = kind /\ cut' = cut /\ invocation'.pc = invocation.pc /\ stops' = stops
           /\ workers'[w].pc # "idle" /\ workers'[w].pc # "leave" /\ workers'[w].trial = k
           /\ trials'[k].state # "FAIL" /\ k = workers[w].trial
           /\ LearnInv(workers'[w].learn) /\ experiments' = experiments
         BY <1>1, <1>2, <2>3, <2>5, <2>8, <2>9, <1>0
    <2>15. \A r \in DOMAIN runs' : runs'[r].experiment = 1
        BY <1>1, <1>2 DEF SharedInv
    <2> QED BY <1>1, <2>3, <2>5, <2>9, <2>10, <2>12, <2>13, <2>14, <2>15, ActsAlone
<1> QED BY <1>3, <1>4

LEMMA LookUpStep == ASSUME StudyInv, NEW w \in Workers, LookUp(w) PROVE StudyInv'
<1> DEFINE pc == IF experiments > 0 THEN "open" ELSE "create"
<1>1. /\ w \in Busy /\ workers[w].pc = "lookup" /\ Goto(w, pc)
      /\ UNCHANGED <<kind, trials, runs, experiments, invocation, samplers, contexts, stops, cut>>
    BY DEF LookUp, Busy, At
<1>2. /\ workers \in [Workers -> WorkerState] /\ experiments \in {0, 1}
      /\ LearnInv(workers[w].learn)
    BY StudyFacts DEF StudyTypes
<1>3. pc \in {"open", "create"} /\ (pc = "open" => experiments = 1)
    BY <1>2
<1> HIDE DEF pc
<1>4. /\ workers' \in [Workers -> WorkerState] /\ workers'[w].pc = pc
      /\ workers'[w].trial = workers[w].trial /\ workers'[w].open = workers[w].open
      /\ workers'[w].opened = workers[w].opened /\ workers'[w].learn = workers[w].learn
      /\ \A v \in Workers : v # w => workers'[v] = workers[v]
    BY <1>1, <1>2, <1>3, WorkerAt
<1> QED BY <1>1, <1>2, <1>3, <1>4, MovesOn

LEMMA CreateStep == ASSUME StudyInv, NEW w \in Workers, Create(w) PROVE StudyInv'
<1>1. /\ w \in Busy /\ workers[w].pc = "create" /\ Goto(w, "open")
      /\ experiments' = IF experiments > 0 THEN experiments ELSE 1
      /\ UNCHANGED <<kind, trials, runs, invocation, samplers, contexts, stops, cut>>
    BY DEF Create, Busy, At
<1>2. /\ workers \in [Workers -> WorkerState] /\ experiments \in {0, 1}
      /\ LearnInv(workers[w].learn)
    BY StudyFacts DEF StudyTypes
<1>3. experiments' = 1
    BY <1>1, <1>2
<1>4. /\ workers' \in [Workers -> WorkerState] /\ workers'[w].pc = "open"
      /\ workers'[w].trial = workers[w].trial /\ workers'[w].open = workers[w].open
      /\ workers'[w].opened = workers[w].opened /\ workers'[w].learn = workers[w].learn
      /\ \A v \in Workers : v # w => workers'[v] = workers[v]
    BY <1>1, <1>2, WorkerAt
<1> QED BY <1>1, <1>2, <1>3, <1>4, MovesOn

LEMMA LearnStep == ASSUME StudyInv, NEW w \in Workers, Learn(w) PROVE StudyInv'
<1>1. /\ w \in Busy /\ workers[w].pc = "learn"
      /\ UNCHANGED <<kind, trials, runs, experiments, invocation, samplers, contexts, stops, cut>>
    BY DEF Learn, Busy, At
<1>2. /\ workers \in [Workers -> WorkerState] /\ workers[w] \in WorkerState
      /\ experiments \in {0, 1} /\ experiments' = experiments
      /\ LearnInv(workers[w].learn)
    BY <1>1, StudyFacts DEF StudyTypes
<1>3. CASE workers[w].learn.phase = "done"
    <2>1. workers' = [workers EXCEPT ![w].pc = "lookup", ![w].learn = Fresh("ppo")]
        BY <1>3 DEF Learn, Idle
    <2>2. LearnInv(Fresh("ppo")) /\ Fresh("ppo") \in Learner
        BY FreshInv DEF LearnInv
    <2>3. /\ workers' \in [Workers -> WorkerState] /\ workers'[w].pc = "lookup"
          /\ workers'[w].trial = workers[w].trial /\ workers'[w].open = workers[w].open
          /\ workers'[w].opened = workers[w].opened /\ workers'[w].learn = Fresh("ppo")
          /\ \A v \in Workers : v # w => workers'[v] = workers[v]
        BY <1>2, <2>1, <2>2 DEF WorkerState
    <2> QED BY <1>1, <1>2, <2>2, <2>3, MovesOn
<1>4. CASE workers[w].learn.phase # "done"
    <2>1. PICK next \in LearnSteps(workers[w].learn) :
                workers' = [workers EXCEPT ![w].learn = next]
        BY <1>4 DEF Learn
    <2>2. LearnInv(next) /\ next \in Learner
        BY <1>2, <1>4, LearnStepInv DEF LearnInv
    <2>3. /\ workers' \in [Workers -> WorkerState] /\ workers'[w].pc = "learn"
          /\ workers'[w].trial = workers[w].trial /\ workers'[w].open = workers[w].open
          /\ workers'[w].opened = workers[w].opened /\ workers'[w].learn = next
          /\ \A v \in Workers : v # w => workers'[v] = workers[v]
        BY <1>1, <1>2, <2>1, <2>2 DEF WorkerState
    <2> QED BY <1>1, <1>2, <2>2, <2>3, MovesOn
<1> QED BY <1>3, <1>4

\* What setting a field of some runs does to the table of runs.
LEMMA StatusSet ==
    ASSUME runs \in Seq(TrackedRun), NEW ids, NEW value \in {"FINISHED", "FAILED", "KILLED"}
    PROVE  /\ SetRuns(ids, "status", value) \in Seq(TrackedRun)
           /\ DOMAIN SetRuns(ids, "status", value) = DOMAIN runs
           /\ \A r \in DOMAIN runs :
                SetRuns(ids, "status", value)[r] =
                    IF r \in ids THEN [runs[r] EXCEPT !.status = value] ELSE runs[r]
<1> DEFINE new == SetRuns(ids, "status", value)
<1>1. /\ DOMAIN runs = 1 .. Len(runs) /\ Len(runs) \in Nat
      /\ \A r \in DOMAIN runs : runs[r] \in TrackedRun
    OBVIOUS
<1>2. new = [r \in 1 .. Len(runs) |->
                IF r \in ids THEN [runs[r] EXCEPT !.status = value] ELSE runs[r]]
    BY <1>1 DEF SetRuns
<1>3. \A r \in 1 .. Len(runs) :
        (IF r \in ids THEN [runs[r] EXCEPT !.status = value] ELSE runs[r]) \in TrackedRun
    BY <1>1 DEF TrackedRun
<1>4. new \in [1 .. Len(runs) -> TrackedRun]
    BY <1>2, <1>3
<1>5. new \in Seq(TrackedRun)
    BY <1>1, <1>4, SeqDef
<1> QED BY <1>1, <1>2, <1>5

LEMMA TagSet ==
    ASSUME runs \in Seq(TrackedRun), NEW ids, NEW value \in Finished
    PROVE  /\ SetRuns(ids, "tag", value) \in Seq(TrackedRun)
           /\ DOMAIN SetRuns(ids, "tag", value) = DOMAIN runs
           /\ \A r \in DOMAIN runs :
                SetRuns(ids, "tag", value)[r] =
                    IF r \in ids THEN [runs[r] EXCEPT !.tag = value] ELSE runs[r]
<1> DEFINE new == SetRuns(ids, "tag", value)
<1>1. /\ DOMAIN runs = 1 .. Len(runs) /\ Len(runs) \in Nat
      /\ \A r \in DOMAIN runs : runs[r] \in TrackedRun
    OBVIOUS
<1>2. new = [r \in 1 .. Len(runs) |->
                IF r \in ids THEN [runs[r] EXCEPT !.tag = value] ELSE runs[r]]
    BY <1>1 DEF SetRuns
<1>3. \A r \in 1 .. Len(runs) :
        (IF r \in ids THEN [runs[r] EXCEPT !.tag = value] ELSE runs[r]) \in TrackedRun
    BY <1>1 DEF TrackedRun
<1>4. new \in [1 .. Len(runs) -> TrackedRun]
    BY <1>2, <1>3
<1>5. new \in Seq(TrackedRun)
    BY <1>1, <1>4, SeqDef
<1> QED BY <1>1, <1>2, <1>5

LEMMA IdleFacts ==
    /\ Idle \in WorkerState /\ Idle.pc = "idle" /\ Idle.learn = Fresh("ppo")
    /\ LearnInv(Idle.learn)
<1>1. LearnInv(Fresh("ppo")) /\ Fresh("ppo") \in Learner
    BY FreshInv DEF LearnInv
<1>2. <<>> \in Seq(Nat)
    OBVIOUS
<1> QED BY <1>1, <1>2 DEF Idle, WorkerState

LEMMA TrialUpdated ==
    ASSUME trials \in Seq(Trial), NEW k \in DOMAIN trials, NEW mine \in Trial,
           trials' = [trials EXCEPT ![k] = mine]
    PROVE  /\ trials' \in Seq(Trial) /\ DOMAIN trials' = DOMAIN trials /\ trials'[k] = mine
           /\ \A j \in DOMAIN trials : j # k => trials'[j] = trials[j]
OBVIOUS

LEMMA OpenStep == ASSUME StudyInv, NEW w \in Workers, Open(w) PROVE StudyInv'
<1>0. PICK k : k = workers[w].trial
    OBVIOUS
<1>1. PICK id : id = Len(runs) + 1
    OBVIOUS
<1>2. PICK pc : pc = IF Nested /\ workers[w].opened = 0 THEN "learn" ELSE "inside"
    OBVIOUS
<1>3. /\ w \in Busy /\ workers[w].pc = "open"
      /\ runs' = Append(runs, [trial |-> k, experiment |-> experiments,
                               status |-> "RUNNING", tag |-> NoTag])
      /\ trials' = [trials EXCEPT ![k].runs = Append(@, id)]
      /\ workers' = [workers EXCEPT ![w].open = Append(@, id), ![w].opened = @ + 1,
                                    ![w].pc = pc]
      /\ UNCHANGED <<kind, experiments, invocation, samplers, contexts, stops, cut>>
    BY <1>0, <1>1, <1>2 DEF Open, Busy, At
<1>4. /\ StudyTypes /\ SharedInv /\ k \in DOMAIN trials /\ k \in Nat
      /\ TrialInv(k) /\ trials[k] \in Trial /\ workers[w] \in WorkerState
      /\ LearnInv(workers[w].learn)
      /\ workers \in [Workers -> WorkerState] /\ trials \in Seq(Trial)
      /\ runs \in Seq(TrackedRun)
    BY <1>0, <1>3, StudyFacts DEF StudyTypes
<1>5. /\ k \notin cut /\ k \in contexts /\ trials[k].state = "RUNNING" /\ experiments = 1
      /\ OpenRuns(w) \subseteq RunsOf(k) /\ OpenShape(workers[w]) /\ RunsUnderWay(w)
    <2>1. WorkerInv(w)
        BY <1>3, StudyFacts
    <2> QED BY <1>0, <1>3, <2>1 DEF WorkerInv
\* The new run.
<1>6. PICK new \in TrackedRun :
            /\ new.trial = k /\ new.experiment = 1 /\ new.status = "RUNNING" /\ new.tag = NoTag
            /\ runs' = Append(runs, new)
    <2>1. [trial |-> k, experiment |-> 1, status |-> "RUNNING", tag |-> NoTag] \in TrackedRun
        BY <1>4 DEF TrackedRun
    <2> QED BY <1>3, <1>5, <2>1
<1>7. /\ runs' \in Seq(TrackedRun) /\ DOMAIN runs' = DOMAIN runs \cup {id} /\ runs'[id] = new
      /\ \A r \in DOMAIN runs : runs'[r] = runs[r]
      /\ id \in Nat /\ id \notin DOMAIN runs
    BY <1>1, <1>4, <1>6
<1>8. RunsOf(k)' = RunsOf(k) \cup {id}
    BY <1>6, <1>7 DEF RunsOf
\* The trial.
<1>9. PICK noted \in Seq(Nat) :
            /\ noted = Append(trials[k].runs, id)
            /\ \A i \in DOMAIN noted : noted[i] = id \/ (i \in DOMAIN trials[k].runs /\ noted[i] = trials[k].runs[i])
            /\ \A i \in DOMAIN trials[k].runs : i \in DOMAIN noted /\ noted[i] = trials[k].runs[i]
            /\ \E i \in DOMAIN noted : noted[i] = id
    <2>1. trials[k].runs \in Seq(Nat) /\ id \in Nat
        BY <1>4, <1>7 DEF Trial
    <2>2. PICK old \in Seq(Nat) : old = trials[k].runs
        BY <2>1
    <2>3. PICK longer : longer = Append(old, id)
        OBVIOUS
    <2>4. /\ longer \in Seq(Nat) /\ DOMAIN longer = 1 .. Len(old) + 1
          /\ longer[Len(old) + 1] = id /\ Len(old) \in Nat /\ DOMAIN old = 1 .. Len(old)
          /\ \A i \in 1 .. Len(old) : longer[i] = old[i]
        BY <2>1, <2>3
    <2>5. /\ \A i \in DOMAIN longer : longer[i] = id \/ (i \in DOMAIN old /\ longer[i] = old[i])
          /\ \A i \in DOMAIN old : i \in DOMAIN longer /\ longer[i] = old[i]
          /\ Len(old) + 1 \in DOMAIN longer
        BY <2>4
    <2> QED BY <2>2, <2>3, <2>4, <2>5
<1>10. PICK mine \in Trial :
            /\ mine.state = "RUNNING" /\ mine.params = trials[k].params /\ mine.runs = noted
            /\ trials' = [trials EXCEPT ![k] = mine]
    <2>1. [trials[k] EXCEPT !.runs = noted] \in Trial
        BY <1>4, <1>9 DEF Trial
    <2>2. trials' = [trials EXCEPT ![k] = [trials[k] EXCEPT !.runs = noted]]
        BY <1>3, <1>9
    <2> QED BY <1>4, <1>5, <2>1, <2>2 DEF Trial
<1>11. /\ trials' \in Seq(Trial) /\ DOMAIN trials' = DOMAIN trials /\ trials'[k] = mine
       /\ \A j \in DOMAIN trials : j # k => trials'[j] = trials[j]
    BY <1>4, <1>10, TrialUpdated
\* The worker.
<1>12. /\ workers[w].open \in Seq(Nat) /\ workers[w].opened \in Nat
       /\ Append(workers[w].open, id) \in Seq(Nat) /\ workers[w].opened + 1 \in Nat
    BY <1>4, <1>7 DEF WorkerState
<1>13. /\ workers' \in [Workers -> WorkerState] /\ workers'[w].pc = pc
       /\ workers'[w].trial = k /\ workers'[w].open = Append(workers[w].open, id)
       /\ workers'[w].opened = workers[w].opened + 1 /\ workers'[w].learn = workers[w].learn
       /\ \A v \in Workers : v # w => workers'[v] = workers[v]
    <2>1. pc \in {"learn", "inside"}
        BY <1>2
    <2>2. [workers[w] EXCEPT !.open = Append(workers[w].open, id),
                             !.opened = workers[w].opened + 1, !.pc = pc] \in WorkerState
        BY <1>4, <1>12, <2>1 DEF WorkerState
    <2>3. workers' = [workers EXCEPT ![w] =
                [workers[w] EXCEPT !.open = Append(workers[w].open, id),
                                   !.opened = workers[w].opened + 1, !.pc = pc]]
        BY <1>3
    <2> QED BY <1>0, <1>4, <2>2, <2>3 DEF WorkerState
<1>14. OpenRuns(w)' = OpenRuns(w) \cup {id}
    <2>1. PICK old \in Seq(Nat) : old = workers[w].open
        BY <1>12
    <2>2. PICK longer : longer = Append(old, id)
        OBVIOUS
    <2>3. {longer[i] : i \in DOMAIN longer} = {old[i] : i \in DOMAIN old} \cup {id}
        <3>1. /\ DOMAIN longer = 1 .. Len(old) + 1 /\ longer[Len(old) + 1] = id
              /\ Len(old) \in Nat /\ DOMAIN old = 1 .. Len(old)
              /\ \A i \in 1 .. Len(old) : longer[i] = old[i]
            BY <1>7, <2>2
        <3>2. /\ Len(old) + 1 \in DOMAIN longer
              /\ \A i \in DOMAIN longer : i \in DOMAIN old \/ i = Len(old) + 1
              /\ \A i \in DOMAIN old : i \in DOMAIN longer /\ longer[i] = old[i]
            BY <3>1
        <3>3. longer[Len(old) + 1] = id
            BY <3>1
        <3> HIDE <2>2
        <3>4. \A x \in {longer[i] : i \in DOMAIN longer} : x \in {old[i] : i \in DOMAIN old} \cup {id}
            BY <3>2, <3>3
        <3>5. \A x \in {old[i] : i \in DOMAIN old} \cup {id} : x \in {longer[i] : i \in DOMAIN longer}
            BY <3>2, <3>3
        <3> QED BY <3>4, <3>5
    <2>4. workers'[w].open = longer
        BY <1>13, <2>1, <2>2
    <2> QED BY <2>1, <2>3, <2>4 DEF OpenRuns
<1>15. StudyTypes'
    BY <1>3, <1>4, <1>7, <1>11, <1>13 DEF StudyTypes
<1>16. WorkerInv(w)'
    <2>1. RunsUnderWay(w)'
        BY <1>0, <1>5, <1>6, <1>7, <1>8, <1>13, <1>14 DEF RunsUnderWay, RunsOf
    <2>2. OpenShape(workers[w])'
        <3>1. workers[w].opened \in {0, 1} /\ (workers[w].opened = 0 \/ ~Nested => workers[w].open = <<>>)
            BY <1>3, <1>5 DEF OpenShape
        <3>2. Nested' <=> Nested
            BY <1>3 DEF Nested
        <3>3. workers[w].open = <<>> => Len(workers'[w].open) = 1
            BY <1>7, <1>13
        <3>4. CASE Nested /\ workers[w].opened = 0
            BY <1>2, <1>13, <3>1, <3>2, <3>4 DEF OpenShape
        <3>5. CASE Nested /\ workers[w].opened = 1
            BY <1>2, <1>13, <3>1, <3>2, <3>5 DEF OpenShape, RunsPerTrial
        <3>6. CASE ~Nested
            BY <1>2, <1>13, <3>1, <3>2, <3>3, <3>6 DEF OpenShape, RunsPerTrial
        <3> QED BY <3>1, <3>4, <3>5, <3>6
    <2>3. /\ workers'[w].pc \in {"learn", "inside"} /\ trials'[k].state = "RUNNING"
          /\ k \in DOMAIN trials' /\ k \notin cut' /\ k \in contexts'
          /\ OpenRuns(w)' \subseteq RunsOf(k)'
        BY <1>2, <1>3, <1>4, <1>5, <1>8, <1>10, <1>11, <1>13, <1>14
    <2> QED BY <1>13, <2>1, <2>2, <2>3 DEF WorkerInv
<1>17. TrialInv(k)'
    <2>1. "RUNNING" \notin Finished /\ "RUNNING" # "COMPLETE"
        BY DEF Finished
    <2>3. \A i \in DOMAIN noted : noted[i] \in RunsOf(k)'
        BY <1>4, <1>8, <1>9 DEF TrialInv
    <2>4. \A r \in RunsOf(k)' : \E i \in DOMAIN noted : noted[i] = r
        BY <1>4, <1>8, <1>9 DEF TrialInv
    <2> QED BY <1>10, <1>11, <2>1, <2>3, <2>4 DEF TrialInv
<1>18. /\ \A r \in DOMAIN runs : r \in DOMAIN runs' /\ runs'[r].trial = runs[r].trial
       /\ \A r \in DOMAIN runs' : runs'[r].trial # k => r \in DOMAIN runs /\ runs'[r] = runs[r]
       /\ \A r \in DOMAIN runs' : runs'[r].experiment = 1
    BY <1>4, <1>6, <1>7 DEF SharedInv
<1>19. /\ kind' = kind /\ cut' = cut /\ invocation'.pc = invocation.pc /\ stops' = stops
       /\ workers'[w].pc # "idle" /\ workers'[w].pc # "leave" /\ workers'[w].trial = k
       /\ trials'[k].state # "FAIL" /\ experiments' = experiments
       /\ LearnInv(workers'[w].learn) /\ contexts' = contexts /\ samplers' = samplers
    <2>1. pc \in {"learn", "inside"} /\ LearnInv(workers'[w].learn)
        BY <1>2, <1>4, <1>13
    <2> QED BY <1>3, <1>10, <1>11, <1>13, <2>1
<1> QED BY <1>0, <1>3, <1>11, <1>13, <1>15, <1>16, <1>17, <1>18, <1>19, ActsAlone

LEMMA CloseStep == ASSUME StudyInv, NEW w \in Workers, Close(w) PROVE StudyInv'
<1>0. PICK k : k = workers[w].trial
    OBVIOUS
<1>l. PICK last : last = workers[w].open[Len(workers[w].open)]
    OBVIOUS
<1>1. PICK pruned \in IF Nested THEN {FALSE} ELSE BOOLEAN, done \in BOOLEAN :
        /\ done <=> pruned \/ workers[w].opened = RunsPerTrial
        /\ runs' = SetRuns(IF done THEN OpenRuns(w) ELSE {last}, "status", "FINISHED")
        /\ workers' = [workers EXCEPT
                    ![w].open = <<>>,
                    ![w].pc = IF done THEN "leave" ELSE "lookup",
                    ![w].outcome = CASE pruned -> "PRUNED"
                                     [] ~pruned /\ done -> "COMPLETE"
                                     [] OTHER -> @]
    BY <1>l DEF Close
<1>2. /\ w \in Busy /\ workers[w].pc = "inside"
      /\ UNCHANGED <<kind, trials, experiments, invocation, samplers, contexts, stops, cut>>
    BY DEF Close, Busy, At
<1>3. /\ StudyTypes /\ SharedInv /\ k \in DOMAIN trials /\ k \in Nat
      /\ TrialInv(k) /\ trials[k] \in Trial /\ workers[w] \in WorkerState
      /\ LearnInv(workers[w].learn)
      /\ workers \in [Workers -> WorkerState] /\ runs \in Seq(TrackedRun)
    BY <1>0, <1>2, StudyFacts DEF StudyTypes
<1>4. /\ k \notin cut /\ k \in contexts /\ trials[k].state = "RUNNING"
      /\ OpenRuns(w) \subseteq RunsOf(k) /\ OpenShape(workers[w]) /\ RunsUnderWay(w)
    <2>1. WorkerInv(w)
        BY <1>2, StudyFacts
    <2> QED BY <1>0, <1>2, <2>1 DEF WorkerInv
\* Whatever is open ends.
<1>5. done \/ OpenRuns(w) = {last}
    <2>1. ASSUME ~done PROVE OpenRuns(w) = {last}
        <3>1. Len(workers[w].open) = 1
            BY <1>1, <1>2, <1>4, <2>1 DEF OpenShape
        <3>2. DOMAIN workers[w].open = {1}
            <4>1. workers[w].open \in Seq(Nat)
                BY <1>3 DEF WorkerState
            <4> QED BY <3>1, <4>1
        <3> QED BY <1>l, <3>1, <3>2 DEF OpenRuns
    <2> QED BY <2>1
<1>6. runs' = SetRuns(OpenRuns(w), "status", "FINISHED")
    BY <1>1, <1>5
<1>7. /\ runs' \in Seq(TrackedRun) /\ DOMAIN runs' = DOMAIN runs
      /\ \A r \in DOMAIN runs :
            runs'[r] = IF r \in OpenRuns(w) THEN [runs[r] EXCEPT !.status = "FINISHED"] ELSE runs[r]
    BY <1>3, <1>6, StatusSet
<1>8. \A r \in DOMAIN runs :
        /\ runs'[r].trial = runs[r].trial /\ runs'[r].tag = runs[r].tag
        /\ runs'[r].experiment = runs[r].experiment
        /\ runs'[r].status = IF r \in OpenRuns(w) THEN "FINISHED" ELSE runs[r].status
        /\ r \notin OpenRuns(w) => runs'[r] = runs[r]
    <2>1. \A r \in DOMAIN runs : runs[r] \in TrackedRun
        BY <1>3
    <2> QED BY <1>7, <2>1 DEF TrackedRun
<1>9. RunsOf(k)' = RunsOf(k)
    BY <1>7, <1>8 DEF RunsOf
<1>10. \A r \in RunsOf(k) : runs'[r].tag = NoTag /\ runs'[r].status = "FINISHED"
    BY <1>0, <1>4, <1>8 DEF RunsUnderWay, RunsOf
<1>11. PICK outcome \in {"none"} \cup Finished :
        /\ outcome = CASE pruned -> "PRUNED"
                       [] ~pruned /\ done -> "COMPLETE"
                       [] OTHER -> workers[w].outcome
        /\ done => outcome \in {"COMPLETE", "PRUNED"}
    <2>1. workers[w].outcome \in {"none"} \cup Finished /\ {"COMPLETE", "PRUNED"} \subseteq Finished
        BY <1>3 DEF WorkerState, Finished
    <2> QED BY <1>1, <2>1
<1>12. PICK pc \in {"leave", "lookup"} : pc = IF done THEN "leave" ELSE "lookup"
    OBVIOUS
<1>13. /\ workers' \in [Workers -> WorkerState] /\ workers'[w].pc = pc
       /\ workers'[w].trial = k /\ workers'[w].open = <<>> /\ workers'[w].outcome = outcome
       /\ workers'[w].opened = workers[w].opened /\ workers'[w].learn = workers[w].learn
       /\ \A v \in Workers : v # w => workers'[v] = workers[v]
    <2>1. <<>> \in Seq(Nat)
        OBVIOUS
    <2>2. [workers[w] EXCEPT !.open = <<>>, !.pc = pc, !.outcome = outcome] \in WorkerState
        BY <1>3, <1>11, <1>12, <2>1 DEF WorkerState
    <2>3. workers' = [workers EXCEPT ![w] =
                        [workers[w] EXCEPT !.open = <<>>, !.pc = pc, !.outcome = outcome]]
        BY <1>1, <1>11, <1>12
    <2> QED BY <1>0, <1>3, <2>2, <2>3 DEF WorkerState
<1>14. StudyTypes'
    BY <1>2, <1>3, <1>7, <1>13 DEF StudyTypes
<1>15. WorkerInv(w)'
    <2>1. OpenShape(workers[w])'
        <3>1. ~done => workers[w].opened = 1
            BY <1>1, <1>2, <1>4 DEF OpenShape
        <3> QED BY <1>2, <1>12, <1>13, <3>1 DEF OpenShape, Nested
    <2>2. RunsUnderWay(w)' /\ RunsUntold(w)'
        BY <1>9, <1>10, <1>13 DEF RunsUnderWay, RunsUntold
    <2>3. OpenRuns(w)' = {}
        <3>1. DOMAIN <<>> = {}
            OBVIOUS
        <3> QED BY <1>13, <3>1 DEF OpenRuns
    <2>4. /\ k \in DOMAIN trials' /\ k \notin cut' /\ k \in contexts'
          /\ trials'[k].state = "RUNNING"
          /\ \/ workers'[w].pc = "leave" /\ outcome \in {"COMPLETE", "PRUNED"}
             \/ workers'[w].pc = "lookup"
        BY <1>2, <1>3, <1>4, <1>11, <1>12, <1>13
    <2> QED BY <1>13, <2>1, <2>2, <2>3, <2>4 DEF WorkerInv
<1>16. TrialInv(k)'
    <2>1. "RUNNING" \notin Finished /\ "RUNNING" # "COMPLETE"
        BY DEF Finished
    <2> QED BY <1>2, <1>3, <1>4, <1>9, <2>1 DEF TrialInv
<1>17. /\ \A r \in DOMAIN runs : r \in DOMAIN runs' /\ runs'[r].trial = runs[r].trial
       /\ \A r \in DOMAIN runs' : runs'[r].trial # k => r \in DOMAIN runs /\ runs'[r] = runs[r]
       /\ \A r \in DOMAIN runs' : runs'[r].experiment = 1
    <2>1. \A r \in DOMAIN runs : runs[r].experiment = 1
        BY <1>3 DEF SharedInv
    <2> QED BY <1>4, <1>7, <1>8, <2>1 DEF RunsOf
<1>18. /\ kind' = kind /\ cut' = cut /\ invocation'.pc = invocation.pc /\ stops' = stops
       /\ workers'[w].pc # "idle" /\ workers'[w].trial = k
       /\ ~(workers'[w].pc = "leave" /\ workers'[w].outcome = "FAIL")
       /\ trials'[k].state # "FAIL" /\ experiments' = experiments /\ trials' = trials
       /\ LearnInv(workers'[w].learn) /\ contexts' = contexts /\ samplers' = samplers
    <2>1. LearnInv(workers'[w].learn)
        BY <1>3, <1>13
    <2> QED BY <1>2, <1>4, <1>11, <1>12, <1>13, <2>1
<1> QED BY <1>0, <1>2, <1>13, <1>14, <1>15, <1>16, <1>17, <1>18, ActsAlone

LEMMA RaiseErrorStep == ASSUME StudyInv, NEW w \in Workers, RaiseError(w) PROVE StudyInv'
<1>0. PICK k : k = workers[w].trial
    OBVIOUS
<1> DEFINE failed == SetRuns(OpenRuns(w), "status", "FAILED")
<1>1. /\ w \in Busy /\ workers[w].pc \in {"lookup", "learn", "inside"}
      /\ stops' = stops + 1
      /\ runs' = [r \in DOMAIN failed |->
                    IF runs[r].trial = k THEN [failed[r] EXCEPT !.tag = "FAIL"] ELSE failed[r]]
      /\ contexts' = contexts \ {k}
      /\ workers' = [workers EXCEPT ![w].pc = "leave", ![w].outcome = "FAIL",
                                    ![w].open = <<>>, ![w].learn = Idle.learn]
      /\ UNCHANGED <<kind, trials, experiments, invocation, samplers, cut>>
    BY <1>0 DEF RaiseError, Busy, At
<1>2. /\ StudyTypes /\ SharedInv /\ k \in DOMAIN trials /\ k \in Nat
      /\ TrialInv(k) /\ trials[k] \in Trial /\ workers[w] \in WorkerState
      /\ workers \in [Workers -> WorkerState] /\ runs \in Seq(TrackedRun) /\ stops \in Nat
    BY <1>0, <1>1, StudyFacts DEF StudyTypes
<1>3. /\ k \notin cut /\ trials[k].state = "RUNNING" /\ OpenRuns(w) \subseteq RunsOf(k)
    <2>1. WorkerInv(w)
        BY <1>1, StudyFacts
    <2> QED BY <1>0, <1>1, <2>1 DEF WorkerInv
<1>4. /\ failed \in Seq(TrackedRun) /\ DOMAIN failed = DOMAIN runs
      /\ \A r \in DOMAIN runs :
            failed[r] = IF r \in OpenRuns(w) THEN [runs[r] EXCEPT !.status = "FAILED"] ELSE runs[r]
    BY <1>2, StatusSet
<1> HIDE DEF failed
<1>5. \A r \in DOMAIN runs : failed[r] \in TrackedRun /\ runs[r] \in TrackedRun
    BY <1>2, <1>4
<1>6. \A r \in DOMAIN runs :
        /\ runs'[r] \in TrackedRun
        /\ runs'[r].trial = runs[r].trial /\ runs'[r].experiment = runs[r].experiment
        /\ runs[r].trial = k => runs'[r].tag = "FAIL"
        /\ runs[r].trial # k => runs'[r] = runs[r]
    <2>1. \A r \in DOMAIN runs : runs[r].trial # k => failed[r] = runs[r]
        BY <1>3, <1>4 DEF RunsOf
    <2>2. \A r \in DOMAIN runs :
            failed[r].trial = runs[r].trial /\ failed[r].experiment = runs[r].experiment
        BY <1>4, <1>5 DEF TrackedRun
    <2>3. "FAIL" \in {NoTag} \cup Finished
        BY DEF Finished
    <2>4. SUFFICES ASSUME NEW r \in DOMAIN runs
                   PROVE  /\ runs'[r] \in TrackedRun
                          /\ runs'[r].trial = runs[r].trial
                          /\ runs'[r].experiment = runs[r].experiment
                          /\ runs[r].trial = k => runs'[r].tag = "FAIL"
                          /\ runs[r].trial # k => runs'[r] = runs[r]
        OBVIOUS
    <2>5. runs'[r] = IF runs[r].trial = k THEN [failed[r] EXCEPT !.tag = "FAIL"] ELSE failed[r]
        BY <1>1, <1>4
    <2>6. CASE runs[r].trial = k
        BY <1>5, <2>2, <2>3, <2>5, <2>6 DEF TrackedRun
    <2>7. CASE runs[r].trial # k
        BY <1>5, <2>1, <2>5, <2>7
    <2> QED BY <2>6, <2>7
<1>7. runs' \in Seq(TrackedRun) /\ DOMAIN runs' = DOMAIN runs
    <2>1. DOMAIN runs = 1 .. Len(runs) /\ Len(runs) \in Nat
        BY <1>2
    <2>2. DOMAIN runs' = DOMAIN runs
        BY <1>1, <1>4
    <2>3. runs' = [r \in DOMAIN runs |-> runs'[r]]
        BY <1>1, <1>4
    <2>4. runs' \in [1 .. Len(runs) -> TrackedRun]
        BY <1>6, <2>1, <2>2, <2>3
    <2> QED BY <2>1, <2>2, <2>4, SeqDef
<1>8. RunsOf(k)' = RunsOf(k)
    BY <1>6, <1>7 DEF RunsOf
<1>9. /\ workers' \in [Workers -> WorkerState] /\ workers'[w].pc = "leave"
      /\ workers'[w].trial = k /\ workers'[w].open = <<>> /\ workers'[w].outcome = "FAIL"
      /\ workers'[w].learn = Idle.learn
      /\ \A v \in Workers : v # w => workers'[v] = workers[v]
    <2>1. <<>> \in Seq(Nat) /\ "FAIL" \in Finished
        BY DEF Finished
    <2>2. Idle.learn \in Learner
        BY IdleFacts DEF LearnInv
    <2> DEFINE me == [workers[w] EXCEPT !.pc = "leave", !.outcome = "FAIL",
                                        !.open = <<>>, !.learn = Idle.learn]
    <2>3. me \in WorkerState
        BY <1>2, <2>1, <2>2 DEF WorkerState
    <2>4. workers' = [workers EXCEPT ![w] = me]
        BY <1>1
    <2> QED BY <1>0, <1>2, <2>3, <2>4 DEF WorkerState
<1>10. StudyTypes'
    BY <1>1, <1>2, <1>7, <1>9 DEF StudyTypes
<1>11. WorkerInv(w)'
    <2>1. OpenShape(workers[w])'
        BY <1>9 DEF OpenShape
    <2>2. OpenRuns(w)' = {}
        <3>1. DOMAIN <<>> = {}
            OBVIOUS
        <3> QED BY <1>9, <3>1 DEF OpenRuns
    <2>3. \A r \in RunsOf(k)' : runs'[r].tag = "FAIL"
        BY <1>6, <1>7 DEF RunsOf
    <2> QED BY <1>1, <1>2, <1>3, <1>9, <2>1, <2>2, <2>3 DEF WorkerInv
<1>12. TrialInv(k)'
    <2>1. "RUNNING" \notin Finished /\ "RUNNING" # "COMPLETE"
        BY DEF Finished
    <2> QED BY <1>1, <1>2, <1>3, <1>8, <2>1 DEF TrialInv
<1>13. /\ \A r \in DOMAIN runs : r \in DOMAIN runs' /\ runs'[r].trial = runs[r].trial
       /\ \A r \in DOMAIN runs' : runs'[r].trial # k => r \in DOMAIN runs /\ runs'[r] = runs[r]
       /\ \A r \in DOMAIN runs' : runs'[r].experiment = 1
    <2>1. \A r \in DOMAIN runs : runs[r].experiment = 1
        BY <1>2 DEF SharedInv
    <2> QED BY <1>6, <1>7, <2>1
<1>w. w \in Busy
    BY <1>1
<1>14. /\ kind' = kind /\ cut' = cut /\ invocation'.pc = invocation.pc /\ stops' = stops + 1
       /\ workers'[w].pc # "idle" /\ workers'[w].trial = k
       /\ experiments' = experiments /\ trials' = trials /\ samplers' = samplers
       /\ \A j \in contexts : j # k => j \in contexts'
       /\ LearnInv(workers'[w].learn)
    <2>1. LearnInv(workers'[w].learn)
        BY <1>9, IdleFacts
    <2> QED BY <1>1, <1>9, <2>1
<1>15. /\ stops' \in {stops, stops + 1}
       /\ DOMAIN trials' = DOMAIN trials /\ DOMAIN samplers' = DOMAIN samplers
       /\ experiments = 1 => experiments' = 1
       /\ (\/ trials'[k].state = "FAIL"
           \/ workers'[w].pc = "leave" /\ workers'[w].outcome = "FAIL")
            => (\/ stops' = stops + 1
                \/ workers[w].pc = "leave" /\ workers[w].outcome = "FAIL")
    BY <1>14
<1> HIDE <1>1
<1> QED BY <1>0, <1>9, <1>10, <1>11, <1>12, <1>13, <1>14, <1>15, ActsAlone, <1>w

LEMMA LeaveStep == ASSUME StudyInv, NEW w \in Workers, Leave(w) PROVE StudyInv'
<1>0. PICK k : k = workers[w].trial
    OBVIOUS
<1>o. PICK outcome : outcome = workers[w].outcome
    OBVIOUS
<1>1. /\ w \in Busy /\ workers[w].pc = "leave"
      /\ trials' = [trials EXCEPT ![k].state = outcome]
      /\ samplers' = Without(samplers, k)
      /\ invocation' = IF outcome = "FAIL" THEN [invocation EXCEPT !.raised = TRUE]
                       ELSE invocation
      /\ workers' = [workers EXCEPT ![w] =
                        IF outcome = "FAIL" THEN Idle ELSE [@ EXCEPT !.pc = "callback"]]
      /\ UNCHANGED <<kind, runs, experiments, contexts, stops, cut>>
    BY <1>0, <1>o DEF Leave, Busy, At, SamplerSeed
<1>2. /\ StudyTypes /\ SharedInv /\ k \in DOMAIN trials /\ k \in Nat
      /\ TrialInv(k) /\ trials[k] \in Trial /\ workers[w] \in WorkerState
      /\ LearnInv(workers[w].learn)
      /\ workers \in [Workers -> WorkerState] /\ trials \in Seq(Trial)
      /\ invocation \in [pc : {"idle", "optimize"}, left : Nat, raised : BOOLEAN]
      /\ samplers \in [DOMAIN samplers -> Nat]
    BY <1>0, <1>1, StudyFacts DEF StudyTypes
<1>3. /\ k \notin cut /\ trials[k].state = "RUNNING" /\ OpenRuns(w) \subseteq RunsOf(k)
      /\ OpenShape(workers[w])
      /\ \/ outcome = "FAIL" /\ \A r \in RunsOf(k) : runs[r].tag = "FAIL"
         \/ outcome \in {"COMPLETE", "PRUNED"} /\ k \in contexts /\ RunsUntold(w)
    <2>1. WorkerInv(w)
        BY <1>1, StudyFacts
    <2> QED BY <1>0, <1>o, <1>1, <2>1 DEF WorkerInv
<1>4. outcome \in Finished
    BY <1>3 DEF Finished
<1>5. PICK mine \in Trial :
            /\ mine.state = outcome /\ mine.params = trials[k].params
            /\ mine.runs = trials[k].runs
            /\ trials' = [trials EXCEPT ![k] = mine]
    <2>1. [trials[k] EXCEPT !.state = outcome] \in Trial
        BY <1>2, <1>4 DEF Trial
    <2>2. trials' = [trials EXCEPT ![k] = [trials[k] EXCEPT !.state = outcome]]
        BY <1>1
    <2> QED BY <1>2, <2>1, <2>2 DEF Trial
<1>6. /\ trials' \in Seq(Trial) /\ DOMAIN trials' = DOMAIN trials /\ trials'[k] = mine
      /\ \A j \in DOMAIN trials : j # k => trials'[j] = trials[j]
    BY <1>2, <1>5, TrialUpdated
<1>7. /\ samplers' \in [DOMAIN samplers' -> Nat] /\ DOMAIN samplers' = DOMAIN samplers \ {k}
      /\ \A j \in DOMAIN samplers : j # k => samplers'[j] = samplers[j]
    BY <1>1, <1>2 DEF Without
<1>8. /\ invocation' \in [pc : {"idle", "optimize"}, left : Nat, raised : BOOLEAN]
      /\ invocation'.pc = invocation.pc
    BY <1>1, <1>2
<1>9. /\ workers' \in [Workers -> WorkerState]
      /\ \A v \in Workers : v # w => workers'[v] = workers[v]
      /\ outcome = "FAIL" => workers'[w] = Idle
      /\ outcome # "FAIL" =>
            /\ workers'[w].pc = "callback" /\ workers'[w].trial = k
            /\ workers'[w].open = workers[w].open /\ workers'[w].opened = workers[w].opened
            /\ workers'[w].learn = workers[w].learn /\ workers'[w].outcome = outcome
    <2>1. CASE outcome = "FAIL"
        <3>1. workers' = [workers EXCEPT ![w] = Idle] /\ Idle \in WorkerState
            BY <1>1, <2>1, IdleFacts
        <3> QED BY <1>2, <2>1, <3>1
    <2>2. CASE outcome # "FAIL"
        <3>1. workers' = [workers EXCEPT ![w].pc = "callback"]
            BY <1>1, <2>2
        <3> QED BY <1>0, <1>o, <1>2, <2>2, <3>1 DEF WorkerState
    <2> QED BY <2>1, <2>2
<1>10. StudyTypes'
    BY <1>1, <1>2, <1>6, <1>7, <1>8, <1>9 DEF StudyTypes
<1>11. RunsOf(k)' = RunsOf(k)
    BY <1>1 DEF RunsOf
<1>12. ASSUME outcome # "FAIL"
       PROVE  WorkerInv(w)'
    <2>1. /\ workers'[w].pc = "callback" /\ workers'[w].trial = k
          /\ workers'[w].open = workers[w].open /\ workers'[w].opened = workers[w].opened
          /\ workers'[w].outcome = outcome
          /\ outcome \in {"COMPLETE", "PRUNED"} /\ k \in contexts /\ RunsUntold(w)
        BY <1>3, <1>9, <1>12
    <2>2. OpenShape(workers[w])'
        BY <1>1, <1>3, <2>1 DEF OpenShape
    <2>3. OpenRuns(w)' = OpenRuns(w)
        BY <2>1 DEF OpenRuns
    <2>4. RunsUntold(w)'
        BY <1>0, <1>o, <1>1, <1>11, <2>1 DEF RunsUntold
    <2>5. k \in DOMAIN trials' /\ k \notin cut' /\ k \in contexts' /\ k \notin DOMAIN samplers'
        BY <1>1, <1>2, <1>3, <1>6, <1>7, <2>1
    <2> QED BY <1>3, <1>5, <1>6, <1>11, <2>1, <2>2, <2>3, <2>4, <2>5 DEF WorkerInv
<1>13. TrialInv(k)'
    <2>2. /\ \A i \in DOMAIN mine.runs : mine.runs[i] \in RunsOf(k)
          /\ \A r \in RunsOf(k) : \E i \in DOMAIN mine.runs : mine.runs[i] = r
        BY <1>2, <1>5 DEF TrialInv
    <2>3. CASE outcome = "FAIL"
        <3>1. \A r \in RunsOf(k) : runs'[r].tag = "FAIL"
            BY <1>1, <1>3, <2>3
        <3> QED BY <1>5, <1>6, <1>11, <2>2, <2>3, <3>1 DEF TrialInv
    <2>4. CASE outcome # "FAIL"
        <3>1. Held(k)'
            BY <1>9, <2>4 DEF Held, Busy, At
        <3>2. \A r \in RunsOf(k) :
                runs'[r].tag = NoTag /\ (outcome = "COMPLETE" => runs'[r].status = "FINISHED")
            BY <1>0, <1>o, <1>1, <1>3, <2>4 DEF RunsUntold
        <3> QED BY <1>5, <1>6, <1>11, <2>2, <3>1, <3>2 DEF TrialInv
    <2> QED BY <2>3, <2>4
<1>14. /\ \A r \in DOMAIN runs : r \in DOMAIN runs' /\ runs'[r].trial = runs[r].trial
       /\ \A r \in DOMAIN runs' : runs'[r].trial # k => r \in DOMAIN runs /\ runs'[r] = runs[r]
       /\ \A r \in DOMAIN runs' : runs'[r].experiment = 1
    BY <1>1, <1>2 DEF SharedInv
<1>15. /\ kind' = kind /\ cut' = cut /\ stops' \in {stops, stops + 1}
       /\ experiments = 1 => experiments' = 1
       /\ \A j \in contexts : j # k => j \in contexts'
    BY <1>1
<1>16. /\ LearnInv(workers'[w].learn)
       /\ workers'[w].pc # "idle" => workers'[w].trial = k /\ WorkerInv(w)'
       /\ (\/ trials'[k].state = "FAIL"
           \/ workers'[w].pc = "leave" /\ workers'[w].outcome = "FAIL")
            => (\/ stops' = stops + 1
                \/ workers[w].pc = "leave" /\ workers[w].outcome = "FAIL")
    <2>1. CASE outcome = "FAIL"
        <3>1. workers'[w].pc = "idle" /\ LearnInv(workers'[w].learn)
            BY <1>9, <2>1, IdleFacts
        <3> QED BY <1>o, <1>1, <2>1, <3>1
    <2>2. CASE outcome # "FAIL"
        <3>1. workers'[w].pc = "callback" /\ trials'[k].state = outcome
            BY <1>5, <1>6, <1>9, <2>2
        <3> QED BY <1>2, <1>9, <1>12, <2>2, <3>1
    <2> QED BY <2>1, <2>2
<1>17. /\ \A j \in DOMAIN samplers :
            j # k => j \in DOMAIN samplers' /\ samplers'[j] = samplers[j]
       /\ \A j \in DOMAIN samplers' : j \in DOMAIN samplers
       /\ k \notin DOMAIN samplers' /\ w \in Busy
    BY <1>1, <1>7
<1> HIDE <1>1
<1> QED BY <1>0, <1>6, <1>8, <1>9, <1>10, <1>13, <1>14, <1>15, <1>16, <1>17, ActsAlone

LEMMA CallbackStep == ASSUME StudyInv, NEW w \in Workers, Callback(w) PROVE StudyInv'
<1>0. PICK k : k = workers[w].trial
    OBVIOUS
<1>1. /\ w \in Busy /\ workers[w].pc = "callback"
      /\ runs' = IF k \in contexts THEN Tagged(k, trials[k].state) ELSE runs
      /\ contexts' = contexts \ {k}
      /\ workers' = [workers EXCEPT ![w] = Idle]
      /\ UNCHANGED <<kind, trials, experiments, invocation, samplers, stops, cut>>
    BY <1>0 DEF Callback, Busy, At
<1>2. /\ StudyTypes /\ SharedInv /\ k \in DOMAIN trials /\ k \in Nat
      /\ TrialInv(k) /\ trials[k] \in Trial
      /\ workers \in [Workers -> WorkerState] /\ runs \in Seq(TrackedRun)
    BY <1>0, <1>1, StudyFacts DEF StudyTypes
<1>3. PICK state \in {"COMPLETE", "PRUNED"} :
        /\ trials[k].state = state /\ workers[w].outcome = state
        /\ k \in contexts /\ k \notin DOMAIN samplers /\ RunsUntold(w)
    <2>1. WorkerInv(w)
        BY <1>1, StudyFacts
    <2> QED BY <1>0, <1>1, <2>1 DEF WorkerInv
<1>4. state \in Finished /\ state # "FAIL"
    BY DEF Finished
\* The runs noted on the trial are all its runs.
<1>5. runs' = SetRuns(RunsOf(k), "tag", state)
    <2>1. {trials[k].runs[i] : i \in DOMAIN trials[k].runs} = RunsOf(k)
        BY <1>2 DEF TrialInv
    <2> QED BY <1>1, <1>3, <2>1 DEF Tagged
<1>6. /\ runs' \in Seq(TrackedRun) /\ DOMAIN runs' = DOMAIN runs
      /\ \A r \in DOMAIN runs :
            runs'[r] = IF r \in RunsOf(k) THEN [runs[r] EXCEPT !.tag = state] ELSE runs[r]
    BY <1>2, <1>4, <1>5, TagSet
<1>7. \A r \in DOMAIN runs :
        /\ runs'[r].trial = runs[r].trial /\ runs'[r].status = runs[r].status
        /\ runs'[r].experiment = runs[r].experiment
        /\ r \in RunsOf(k) => runs'[r].tag = state
        /\ r \notin RunsOf(k) => runs'[r] = runs[r]
    <2>1. \A r \in DOMAIN runs : runs[r] \in TrackedRun
        BY <1>2
    <2> QED BY <1>6, <2>1 DEF TrackedRun
<1>8. RunsOf(k)' = RunsOf(k)
    BY <1>6, <1>7 DEF RunsOf
<1>9. /\ workers' \in [Workers -> WorkerState] /\ workers'[w] = Idle
      /\ \A v \in Workers : v # w => workers'[v] = workers[v]
    BY <1>1, <1>2, IdleFacts
<1>10. workers'[w].pc = "idle" /\ LearnInv(workers'[w].learn)
    BY <1>9, IdleFacts
<1>11. StudyTypes'
    BY <1>1, <1>2, <1>6, <1>9 DEF StudyTypes
<1>12. TrialInv(k)'
    <2>1. \A r \in RunsOf(k) :
            runs'[r].tag = state /\ (state = "COMPLETE" => runs'[r].status = "FINISHED")
        BY <1>0, <1>3, <1>7 DEF RunsUntold, RunsOf
    <2> QED BY <1>1, <1>2, <1>3, <1>8, <2>1 DEF TrialInv
<1>13. /\ \A r \in DOMAIN runs : r \in DOMAIN runs' /\ runs'[r].trial = runs[r].trial
       /\ \A r \in DOMAIN runs' : runs'[r].trial # k => r \in DOMAIN runs /\ runs'[r] = runs[r]
       /\ \A r \in DOMAIN runs' : runs'[r].experiment = 1
    <2>1. \A r \in DOMAIN runs : runs[r].experiment = 1
        BY <1>2 DEF SharedInv
    <2> QED BY <1>6, <1>7, <2>1 DEF RunsOf
<1>14. /\ kind' = kind /\ cut' = cut /\ invocation'.pc = invocation.pc
       /\ stops' \in {stops, stops + 1} /\ w \in Busy
       /\ experiments' = experiments /\ trials' = trials /\ samplers' = samplers
       /\ k \notin DOMAIN samplers' /\ trials'[k].state # "FAIL"
       /\ ~(workers'[w].pc = "leave" /\ workers'[w].outcome = "FAIL")
       /\ \A j \in contexts : j # k => j \in contexts'
    BY <1>1, <1>3, <1>4, <1>10
<1> HIDE <1>1
<1> QED BY <1>0, <1>9, <1>10, <1>11, <1>12, <1>13, <1>14, ActsAlone

\* A new trial, taken by an idle worker.
LEMMA BeginStep == ASSUME StudyInv, NEW w \in Workers, Begin(w) PROVE StudyInv'
<1>0. PICK k : k = Len(trials) + 1
    OBVIOUS
<1>1. PICK algorithm \in {"ppo", "dqn"} : algorithm = IF Nested THEN kind ELSE "ppo"
    BY DEF Nested, Learned
<1>2. PICK point \in IF Sampler = "grid" THEN UnvisitedPoints ELSE {0} :
        trials' = Append(trials, [state |-> "RUNNING", params |-> <<>>, runs |-> <<>>,
                                  point |-> point])
    BY DEF Begin
<1>n. PICK new : new = [state |-> "RUNNING", params |-> <<>>, runs |-> <<>>, point |-> point]
    OBVIOUS
<1>3. PICK me : me = [Idle EXCEPT !.pc = "suggest", !.trial = k, !.learn = Fresh(algorithm)]
    OBVIOUS
<1>4. /\ invocation.pc = "optimize" /\ invocation.left > 0
      /\ w \in Jobs /\ workers[w].pc = "idle"
      /\ trials' = Append(trials, new)
      /\ samplers' = IF Sampler = "grid" THEN samplers ELSE WithSampler(k)
      /\ contexts' = contexts \cup {k}
      /\ workers' = [workers EXCEPT ![w] = me]
      /\ invocation' = [invocation EXCEPT !.left = @ - 1]
      /\ UNCHANGED <<kind, runs, experiments, stops, cut>>
    BY <1>0, <1>1, <1>2, <1>n, <1>3 DEF Begin, At
<1>5. /\ StudyTypes /\ SharedInv
      /\ workers \in [Workers -> WorkerState] /\ trials \in Seq(Trial)
      /\ runs \in Seq(TrackedRun) /\ samplers \in [DOMAIN samplers -> Nat]
      /\ invocation \in [pc : {"idle", "optimize"}, left : Nat, raised : BOOLEAN]
      /\ stops \in Nat
      /\ \A v \in Busy : v \in Workers /\ WorkerInv(v) /\ workers[v].trial \in DOMAIN trials
      /\ \A j \in DOMAIN trials : TrialInv(j)
    BY StudyFacts DEF StudyTypes
<1>6. /\ new \in Trial /\ new.state = "RUNNING" /\ new.params = <<>> /\ new.runs = <<>>
    <2>1. <<>> \in Seq(Nat) /\ <<>> \in Seq(Value)
        OBVIOUS
    <2>2. point \in Nat
        BY <1>2, StudyConfig DEF UnvisitedPoints, Grid
    <2> QED BY <1>n, <2>1, <2>2 DEF Trial
<1>7. /\ trials' \in Seq(Trial) /\ DOMAIN trials' = DOMAIN trials \cup {k} /\ trials'[k] = new
      /\ k \in Nat /\ k \notin DOMAIN trials
      /\ \A j \in DOMAIN trials : trials'[j] = trials[j] /\ j # k
    BY <1>0, <1>4, <1>5, <1>6
<1>8. /\ me \in WorkerState /\ me.pc = "suggest" /\ me.trial = k /\ me.open = <<>>
      /\ me.opened = 0 /\ me.outcome = "none" /\ LearnInv(me.learn)
    <2>1. LearnInv(Fresh(algorithm)) /\ Fresh(algorithm) \in Learner
        BY FreshInv DEF LearnInv
    <2>2. <<>> \in Seq(Nat)
        OBVIOUS
    <2> QED BY <1>3, <1>7, <2>1, <2>2 DEF Idle, WorkerState
<1>9. /\ workers' \in [Workers -> WorkerState] /\ workers'[w] = me
      /\ \A v \in Workers : v # w => workers'[v] = workers[v]
    BY <1>4, <1>5, <1>8
<1>10. /\ w \notin Busy /\ Busy' = Busy \cup {w}
       /\ \A v \in Busy : v # w /\ workers'[v] = workers[v] /\ workers[v].trial # k
    BY <1>4, <1>5, <1>7, <1>8, <1>9 DEF Busy, At
<1>11. /\ \A j \in DOMAIN trials : Held(j)' <=> Held(j)
       /\ Held(k)'
    <2>1. Held(k)'
        BY <1>8, <1>9, <1>10 DEF Held
    <2> QED BY <1>7, <1>8, <1>9, <1>10, <2>1 DEF Held
\* No run, no sampler and no stop knows the new trial.
<1>12. /\ k \notin cut /\ k \notin DOMAIN samplers
       /\ \A r \in DOMAIN runs : runs[r].trial # k
    BY <1>5, <1>7 DEF SharedInv, Held
<1>13. /\ samplers' \in [DOMAIN samplers' -> Nat]
       /\ DOMAIN samplers \subseteq DOMAIN samplers' /\ DOMAIN samplers' \subseteq DOMAIN samplers \cup {k}
       /\ Sampler # "grid" => k \in DOMAIN samplers' /\ samplers'[k] = 0
       /\ \A j \in DOMAIN samplers : samplers'[j] = samplers[j]
    <2> SUFFICES ASSUME Sampler # "grid" PROVE
            /\ samplers' \in [DOMAIN samplers' -> Nat] /\ DOMAIN samplers' = DOMAIN samplers \cup {k}
            /\ samplers'[k] = 0
            /\ \A j \in DOMAIN samplers : samplers'[j] = samplers[j]
        BY <1>4, <1>5
    <2>1. samplers' = [seed \in DOMAIN samplers \cup {k} |->
                            IF seed \in DOMAIN samplers THEN samplers[seed] ELSE 0]
        BY <1>4 DEF WithSampler, SamplerSeed
    <2> QED BY <1>5, <1>12, <2>1
<1>14. StudyTypes'
    <2>1. invocation' \in [pc : {"idle", "optimize"}, left : Nat, raised : BOOLEAN]
        <3>1. invocation.left - 1 \in Nat
            BY <1>4, <1>5
        <3> QED BY <1>4, <1>5, <3>1
    <2> QED BY <1>4, <1>5, <1>7, <1>9, <1>13, <2>1 DEF StudyTypes
<1>15. \A j : RunsOf(j)' = RunsOf(j)
    BY <1>4 DEF RunsOf
<1>16. ASSUME NEW v \in Busy' PROVE WorkerInv(v)'
    <2>1. CASE v = w
        <3>1. workers'[v] = me
            BY <1>9, <2>1
        <3>2. OpenShape(workers[v])'
            BY <1>8, <3>1 DEF OpenShape
        <3>3. OpenRuns(v)' = {} /\ RunsOf(k)' = {}
            <4>1. DOMAIN <<>> = {}
                OBVIOUS
            <4> QED BY <1>4, <1>8, <1>12, <3>1, <4>1 DEF OpenRuns, RunsOf
        <3>4. Sampler' # "grid" => k \in DOMAIN samplers' /\ samplers'[k] = Len(trials'[k].params)
            BY <1>4, <1>6, <1>7, <1>13 DEF Sampler
        <3>5. RunsUnderWay(v)'
            BY <1>8, <3>1, <3>3 DEF RunsUnderWay
        <3>6. k \in DOMAIN trials' /\ k \notin cut' /\ k \in contexts'
            BY <1>4, <1>7, <1>12
        <3> QED BY <1>6, <1>7, <1>8, <3>1, <3>2, <3>3, <3>4, <3>5, <3>6 DEF WorkerInv
    <2>2. CASE v # w
        <3>0. PICK j : j = workers[v].trial
            OBVIOUS
        <3>1. /\ v \in Busy /\ workers'[v] = workers[v] /\ WorkerInv(v)
              /\ j \in DOMAIN trials /\ j # k
            BY <1>5, <1>10, <2>2, <3>0
        <3>2. /\ trials'[j] = trials[j] /\ j \in DOMAIN trials' /\ RunsOf(j)' = RunsOf(j)
            BY <1>7, <1>15, <3>1
        <3>3. OpenRuns(v)' = OpenRuns(v)
            BY <3>1 DEF OpenRuns
        <3>4. /\ RunsUnderWay(v) => RunsUnderWay(v)'
              /\ RunsUntold(v) => RunsUntold(v)'
            BY <1>4, <3>0, <3>1, <3>2, <3>3 DEF RunsUnderWay, RunsUntold
        <3>5. OpenShape(workers[v])' <=> OpenShape(workers[v])
            BY <1>4, <3>1 DEF OpenShape, Nested
        <3>6. j \in contexts => j \in contexts'
            BY <1>4
        <3>7. /\ j \in DOMAIN samplers => j \in DOMAIN samplers' /\ samplers'[j] = samplers[j]
              /\ j \notin DOMAIN samplers => j \notin DOMAIN samplers'
            BY <1>13, <3>1
        <3> QED BY <1>4, <3>0, <3>1, <3>2, <3>3, <3>4, <3>5, <3>6, <3>7 DEF WorkerInv, Sampler
    <2> QED BY <2>1, <2>2
<1>17. ASSUME NEW j \in DOMAIN trials' PROVE TrialInv(j)'
    <2>1. CASE j = k
        <3>1. RunsOf(k)' = {} /\ DOMAIN <<>> = {}
            BY <1>4, <1>12 DEF RunsOf
        <3> QED BY <1>6, <1>7, <2>1, <3>1 DEF TrialInv
    <2>2. CASE j # k
        <3>1. j \in DOMAIN trials /\ TrialInv(j) /\ trials'[j] = trials[j]
            BY <1>5, <1>7, <2>2
        <3> QED BY <1>4, <1>11, <1>15, <3>1 DEF TrialInv
    <2> QED BY <2>1, <2>2
<1>18. Failing' \subseteq Failing
    <2> SUFFICES ASSUME NEW j \in Failing' PROVE j \in Failing
        OBVIOUS
    <2>1. CASE j = k
        <3>1. trials'[k].state # "FAIL" /\ workers'[w].pc # "leave"
            BY <1>6, <1>7, <1>8, <1>9
        <3>2. \A v \in Workers : v # w /\ workers'[v].pc = "leave" => workers'[v].trial # k
            BY <1>9, <1>10 DEF Busy, At
        <3> QED BY <2>1, <3>1, <3>2 DEF Failing
    <2>2. CASE j # k
        BY <1>7, <1>8, <1>9, <2>2 DEF Failing
    <2> QED BY <2>1, <2>2
<1>19. Cardinality(Failing)' <= stops'
    <2>1. IsFiniteSet(Failing) /\ Cardinality(Failing) \in Nat /\ Cardinality(Failing) <= stops
        BY <1>5, FailingFinite, FS_CardinalityType DEF SharedInv
    <2>2. Cardinality(Failing') \in Nat /\ Cardinality(Failing') <= Cardinality(Failing)
        BY <1>18, <2>1, FS_Subset, FS_CardinalityType
    <2> QED BY <1>4, <1>5, <2>1, <2>2
<1>20. SharedInv'
    <2>1. \A r \in DOMAIN runs' : runs'[r].trial \in DOMAIN trials' /\ runs'[r].experiment = 1
        BY <1>4, <1>5, <1>7 DEF SharedInv
    <2>2. \A u, v \in Busy' : u # v => workers'[u].trial # workers'[v].trial
        BY <1>5, <1>8, <1>9, <1>10 DEF SharedInv
    <2>3. invocation'.pc = "optimize"
        BY <1>4, <1>5
    <2>4. kind' # "parallel" => Busy' \subseteq {OneWorker}
        BY <1>4, <1>5, <1>10 DEF SharedInv, Jobs
    <2>5. \A j \in DOMAIN samplers' : Held(j)'
        <3>1. \A j \in DOMAIN samplers : Held(j) /\ j \in DOMAIN trials
            BY <1>5 DEF SharedInv, Held
        <3> QED BY <1>11, <1>13, <3>1
    <2>6. cut' \subseteq DOMAIN trials'
        BY <1>4, <1>5, <1>7 DEF SharedInv
    <2>7. \A v \in Workers : LearnInv(workers'[v].learn)
        BY <1>5, <1>8, <1>9 DEF SharedInv
    <2>8. SharedInv' <=>
            /\ \A r \in DOMAIN runs' : runs'[r].trial \in DOMAIN trials' /\ runs'[r].experiment = 1
            /\ \A u, v \in Busy' : u # v => workers'[u].trial # workers'[v].trial
            /\ invocation'.pc = "idle" => Busy' = {}
            /\ kind' # "parallel" => Busy' \subseteq {OneWorker}
            /\ \A j \in DOMAIN samplers' : Held(j)'
            /\ cut' \subseteq DOMAIN trials'
            /\ Cardinality(Failing)' <= stops'
            /\ \A v \in Workers : LearnInv(workers'[v].learn)
        BY DEF SharedInv
    <2> QED BY <1>19, <2>1, <2>2, <2>3, <2>4, <2>5, <2>6, <2>7, <2>8
<1> QED BY <1>14, <1>16, <1>17, <1>20 DEF StudyInv

\* Between two invocations nobody works.
LEMMA AllIdle ==
    ASSUME StudyTypes', Busy' = {}, samplers' = <<>>, cut' \subseteq DOMAIN trials',
           \A r \in DOMAIN runs' : runs'[r].trial \in DOMAIN trials' /\ runs'[r].experiment = 1,
           \A k \in DOMAIN trials' : TrialInv(k)',
           Cardinality(Failing)' <= stops',
           \A w \in Workers : LearnInv(workers'[w].learn)
    PROVE  StudyInv'
<1>1. DOMAIN samplers' = {}
    OBVIOUS
<1>2. SharedInv'
    BY <1>1 DEF SharedInv
<1> QED BY <1>2 DEF StudyInv

LEMMA InvokeStep ==
    ASSUME StudyInv, NEW asked \in Identities, Invoke(asked) PROVE StudyInv'
<1>1. /\ StudyTypes /\ SharedInv /\ Busy = {}
      /\ \A k \in DOMAIN trials : TrialInv(k)
    BY StudyFacts DEF SharedInv, Invoke
<1>2. /\ UNCHANGED <<kind, trials, runs, experiments, workers, stops, cut>>
      /\ samplers' = <<>>
      /\ \/ Remaining > 0
            /\ invocation' = [pc |-> "optimize", left |-> Remaining, raised |-> FALSE]
         \/ invocation' = NotRunning
    BY DEF Invoke
<1>3. Remaining \in Int
    <2>1. /\ DOMAIN trials = 1 .. Len(trials) /\ Len(trials) \in Int /\ 1 \in Int
        BY <1>1 DEF StudyTypes
    <2>2. IsFiniteSet(FinishedTrials)
        <3>1. IsFiniteSet(DOMAIN trials)
            BY <2>1, FS_Interval
        <3> QED BY <3>1, FS_Subset DEF FinishedTrials
    <2>3. Cardinality(FinishedTrials) \in Nat /\ Budget \in Nat
        BY <2>2, FS_CardinalityType, StudyConfig
    <2> QED BY <2>3 DEF Remaining
<1>4. invocation' \in [pc : {"idle", "optimize"}, left : Nat, raised : BOOLEAN]
    <2>1. PICK left : left = Remaining
        OBVIOUS
    <2>2. left > 0 => left \in Nat
        BY <1>3, <2>1
    <2>3. \/ left > 0 /\ invocation' = [pc |-> "optimize", left |-> left, raised |-> FALSE]
          \/ invocation' = NotRunning
        BY <1>2, <2>1
    <2>4. CASE invocation' = NotRunning
        BY <2>4 DEF NotRunning
    <2>5. CASE left > 0 /\ invocation' = [pc |-> "optimize", left |-> left, raised |-> FALSE]
        <3>1. left \in Nat
            BY <2>2, <2>5
        <3> QED BY <2>5, <3>1
    <2> QED BY <2>3, <2>4, <2>5
<1>5. samplers' \in [DOMAIN samplers' -> Nat]
    BY <1>2
<1>6. StudyTypes'
    BY <1>1, <1>2, <1>4, <1>5 DEF StudyTypes
<1>7. Busy' = {} /\ (\A k : Held(k)' <=> Held(k)) /\ \A k : RunsOf(k)' = RunsOf(k)
    BY <1>1, <1>2 DEF Busy, At, Held, RunsOf
<1>8. \A k \in DOMAIN trials' : TrialInv(k)'
    BY <1>1, <1>2, <1>7 DEF TrialInv
<1>9. /\ \A r \in DOMAIN runs' : runs'[r].trial \in DOMAIN trials' /\ runs'[r].experiment = 1
      /\ \A w \in Workers : LearnInv(workers'[w].learn)
      /\ cut' \subseteq DOMAIN trials'
    BY <1>1, <1>2 DEF SharedInv
<1>10. Cardinality(Failing)' <= stops'
    <2>1. Failing' = Failing
        BY <1>2 DEF Failing
    <2> QED BY <1>1, <1>2, <2>1 DEF SharedInv
<1> QED BY <1>2, <1>6, <1>7, <1>8, <1>9, <1>10, AllIdle

LEMMA ReturnStep == ASSUME StudyInv, Return PROVE StudyInv'
<1>1. /\ StudyTypes /\ SharedInv /\ Busy = {} /\ invocation' = NotRunning
      /\ UNCHANGED <<kind, trials, runs, experiments, samplers, contexts, workers, stops, cut>>
      /\ \A k \in DOMAIN trials : TrialInv(k)
    BY StudyFacts DEF Return, Busy, At
<1>2. StudyTypes'
    BY <1>1 DEF StudyTypes, NotRunning
<1>3. Busy' = {} /\ (\A k : Held(k)' <=> Held(k)) /\ \A k : RunsOf(k)' = RunsOf(k)
    BY <1>1 DEF Busy, At, Held, RunsOf
<1>4. \A k \in DOMAIN trials' : TrialInv(k)'
    BY <1>1, <1>3 DEF TrialInv
<1>5. Failing' = Failing
    BY <1>1 DEF Failing
<1>6. SharedInv'
    <2>1. Cardinality(Failing)' <= stops'
        BY <1>1, <1>5 DEF SharedInv
    <2>2. \A j \in DOMAIN samplers' : Held(j)'
        BY <1>1, <1>3 DEF SharedInv
    <2> QED BY <1>1, <1>3, <2>1, <2>2 DEF SharedInv
<1> QED BY <1>2, <1>3, <1>4, <1>6 DEF StudyInv

\* Who a kill or an interrupt catches is noted, and nobody works on.
LEMMA AllStopped ==
    ASSUME StudyInv, StudyTypes', workers' = [w \in Workers |-> Idle], samplers' = <<>>
    PROVE  /\ Busy' = {} /\ \A k : ~Held(k)'
           /\ \A w \in Workers : LearnInv(workers'[w].learn)
           /\ \A k \in DOMAIN trials' : k \in Failing' => trials'[k].state = "FAIL"
<1>1. \A w \in Workers : workers'[w] = Idle /\ workers'[w].pc = "idle" /\ LearnInv(workers'[w].learn)
    BY IdleFacts
<1>2. Busy' = {}
    BY <1>1 DEF Busy, At
<1> QED BY <1>1, <1>2 DEF Held, Failing

LEMMA KillStep == ASSUME StudyInv, Kill PROVE StudyInv'
<1>1. /\ StudyTypes /\ SharedInv /\ stops \in Nat
      /\ \A k \in DOMAIN trials : TrialInv(k)
      /\ \A w \in Busy : workers[w].trial \in DOMAIN trials
    BY StudyFacts DEF StudyTypes
<1>2. /\ stops' = stops + 1
      /\ cut' = cut \cup {workers[w].trial : w \in Busy}
      /\ invocation' = NotRunning
      /\ workers' = [w \in Workers |-> Idle] /\ samplers' = <<>>
      /\ UNCHANGED <<kind, trials, runs, experiments>>
    BY DEF Kill
<1>3. StudyTypes'
    <2>1. samplers' \in [DOMAIN samplers' -> Nat]
        BY <1>2
    <2>2. workers' \in [Workers -> WorkerState]
        BY <1>2, IdleFacts
    <2> QED BY <1>1, <1>2, <2>1, <2>2 DEF StudyTypes, NotRunning
<1>4. /\ Busy' = {} /\ \A k : ~Held(k)'
      /\ \A w \in Workers : LearnInv(workers'[w].learn)
      /\ \A k \in DOMAIN trials' : k \in Failing' => trials'[k].state = "FAIL"
    BY <1>2, <1>3, AllStopped
<1>5. \A k \in DOMAIN trials' : TrialInv(k)'
    <2> SUFFICES ASSUME NEW k \in DOMAIN trials' PROVE TrialInv(k)'
        OBVIOUS
    <2>1. Held(k) => k \in cut'
        BY <1>2 DEF Held
    <2>2. RunsOf(k)' = RunsOf(k) /\ TrialInv(k) /\ trials'[k] = trials[k]
        BY <1>1, <1>2 DEF RunsOf
    <2>3. k \notin cut' => k \notin cut
        BY <1>2
    <2> QED BY <1>2, <2>1, <2>2, <2>3 DEF TrialInv
<1>6. /\ \A r \in DOMAIN runs' : runs'[r].trial \in DOMAIN trials' /\ runs'[r].experiment = 1
      /\ cut' \subseteq DOMAIN trials'
    BY <1>1, <1>2 DEF SharedInv
<1>7. Cardinality(Failing)' <= stops'
    <2>1. Failing' \subseteq Failing
        BY <1>2, <1>4 DEF Failing
    <2>2. IsFiniteSet(Failing) /\ Cardinality(Failing) \in Nat /\ Cardinality(Failing) <= stops
        BY <1>1, FailingFinite, FS_CardinalityType DEF SharedInv
    <2>3. Cardinality(Failing') \in Nat /\ Cardinality(Failing') <= Cardinality(Failing)
        BY <2>1, <2>2, FS_Subset, FS_CardinalityType
    <2> QED BY <1>1, <1>2, <2>2, <2>3
<1> QED BY <1>2, <1>3, <1>4, <1>5, <1>6, <1>7, AllIdle

LEMMA InterruptStep == ASSUME StudyInv, Interrupt PROVE StudyInv'
<1>0. PICK w : w = OneWorker
    OBVIOUS
<1>k. PICK k : k = workers[w].trial
    OBVIOUS
<1>1. /\ workers[w].pc \in {"suggest", "lookup", "create", "open", "learn", "inside"}
      /\ kind # "parallel" /\ w \in Workers /\ w \in Busy
      /\ stops' = stops + 1
      /\ runs' = SetRuns(OpenRuns(w), "status", "KILLED")
      /\ trials' = [trials EXCEPT ![k].state = "FAIL"]
      /\ cut' = cut \cup {k}
      /\ invocation' = NotRunning
      /\ workers' = [v \in Workers |-> Idle] /\ samplers' = <<>>
      /\ UNCHANGED <<kind, experiments>>
    BY <1>0, <1>k, StudyConfig DEF Interrupt, Busy, At
<1>2. /\ StudyTypes /\ SharedInv /\ stops \in Nat
      /\ k \in DOMAIN trials /\ trials[k] \in Trial /\ trials \in Seq(Trial)
      /\ runs \in Seq(TrackedRun)
      /\ \A j \in DOMAIN trials : TrialInv(j)
    BY <1>k, <1>1, StudyFacts DEF StudyTypes
<1>3. OpenRuns(w) \subseteq RunsOf(k) /\ RunsUnderWay(w)
    <2>1. WorkerInv(w)
        BY <1>1, StudyFacts
    <2> QED BY <1>k, <1>1, <2>1 DEF WorkerInv
\* It is the only one at work.
<1>4. \A j : Held(j) => j = k
    BY <1>0, <1>k, <1>1, <1>2 DEF SharedInv, Held
<1>5. PICK mine \in Trial :
            /\ mine.state = "FAIL" /\ mine.params = trials[k].params
            /\ mine.runs = trials[k].runs
            /\ trials' = [trials EXCEPT ![k] = mine]
    <2>1. [trials[k] EXCEPT !.state = "FAIL"] \in Trial
        BY <1>2 DEF Trial, Finished
    <2>2. trials' = [trials EXCEPT ![k] = [trials[k] EXCEPT !.state = "FAIL"]]
        BY <1>1
    <2> QED BY <1>2, <2>1, <2>2 DEF Trial
<1>6. /\ trials' \in Seq(Trial) /\ DOMAIN trials' = DOMAIN trials /\ trials'[k] = mine
      /\ \A j \in DOMAIN trials : j # k => trials'[j] = trials[j]
    BY <1>2, <1>5, TrialUpdated
<1>7. /\ runs' \in Seq(TrackedRun) /\ DOMAIN runs' = DOMAIN runs
      /\ \A r \in DOMAIN runs :
            runs'[r] = IF r \in OpenRuns(w) THEN [runs[r] EXCEPT !.status = "KILLED"] ELSE runs[r]
    BY <1>1, <1>2, StatusSet
<1>8. \A r \in DOMAIN runs :
        /\ runs'[r].trial = runs[r].trial /\ runs'[r].tag = runs[r].tag
        /\ runs'[r].experiment = runs[r].experiment
        /\ runs[r].trial # k => runs'[r] = runs[r]
    <2>1. \A r \in DOMAIN runs : runs[r] \in TrackedRun
        BY <1>2
    <2>2. \A r \in DOMAIN runs : runs[r].trial # k => r \notin OpenRuns(w)
        BY <1>3 DEF RunsOf
    <2> QED BY <1>7, <2>1, <2>2 DEF TrackedRun
<1>9. \A j : RunsOf(j)' = RunsOf(j)
    BY <1>7, <1>8 DEF RunsOf
<1>10. StudyTypes'
    <2>1. samplers' \in [DOMAIN samplers' -> Nat]
        BY <1>1
    <2>2. workers' \in [Workers -> WorkerState]
        BY <1>1, IdleFacts
    <2> QED BY <1>1, <1>2, <1>6, <1>7, <2>1, <2>2 DEF StudyTypes, NotRunning
<1>11. /\ Busy' = {} /\ \A j : ~Held(j)'
       /\ \A v \in Workers : LearnInv(workers'[v].learn)
       /\ \A j \in DOMAIN trials' : j \in Failing' => trials'[j].state = "FAIL"
    BY <1>1, <1>10, AllStopped
<1>12. ASSUME NEW j \in DOMAIN trials' PROVE TrialInv(j)'
    <2>1. CASE j = k
        <3>1. \A r \in RunsOf(k) : runs'[r].tag = NoTag
            BY <1>k, <1>3, <1>8 DEF RunsUnderWay, RunsOf
        <3>2. k \in cut'
            BY <1>1
        <3>3. /\ \A i \in DOMAIN mine.runs : mine.runs[i] \in RunsOf(k)
              /\ \A r \in RunsOf(k) : \E i \in DOMAIN mine.runs : mine.runs[i] = r
            BY <1>2, <1>5 DEF TrialInv
        <3> QED BY <1>5, <1>6, <1>9, <2>1, <3>1, <3>2, <3>3 DEF TrialInv
    <2>2. CASE j # k
        <3>1. /\ j \in DOMAIN trials /\ TrialInv(j) /\ trials'[j] = trials[j]
              /\ ~Held(j) /\ (j \notin cut' => j \notin cut)
            BY <1>1, <1>2, <1>4, <1>6, <2>2
        <3>2. \A r \in RunsOf(j) : runs'[r] = runs[r]
            BY <1>8, <2>2 DEF RunsOf
        <3> QED BY <1>9, <3>1, <3>2 DEF TrialInv
    <2> QED BY <2>1, <2>2
<1>13. /\ \A r \in DOMAIN runs' : runs'[r].trial \in DOMAIN trials' /\ runs'[r].experiment = 1
       /\ cut' \subseteq DOMAIN trials'
    BY <1>1, <1>2, <1>6, <1>7, <1>8 DEF SharedInv
<1>14. Cardinality(Failing)' <= stops'
    <2>1. Failing' \subseteq Failing \cup {k}
        BY <1>6, <1>11 DEF Failing
    <2>2. IsFiniteSet(Failing) /\ Cardinality(Failing) \in Nat /\ Cardinality(Failing) <= stops
        BY <1>2, FailingFinite, FS_CardinalityType DEF SharedInv
    <2>3. /\ IsFiniteSet(Failing \cup {k})
          /\ Cardinality(Failing \cup {k}) \in {Cardinality(Failing), Cardinality(Failing) + 1}
        BY <2>2, FS_AddElement
    <2>4. /\ Cardinality(Failing') \in Nat
          /\ Cardinality(Failing') <= Cardinality(Failing \cup {k})
        BY <2>1, <2>3, FS_Subset, FS_CardinalityType
    <2> QED BY <1>1, <1>2, <2>2, <2>3, <2>4
<1> QED BY <1>1, <1>10, <1>11, <1>12, <1>13, <1>14, AllIdle

-----------------------------------------------------------------------------
LEMMA StudyInit == Init => StudyInv
<1> SUFFICES ASSUME Init PROVE StudyInv
    OBVIOUS
<1>1. /\ kind \in Kinds /\ trials = <<>> /\ runs = <<>> /\ experiments = 0
      /\ invocation = NotRunning /\ samplers = <<>> /\ cut = {} /\ stops = 0
      /\ workers = [w \in Workers |-> Idle]
    BY DEF Init
<1>2. \A w \in Workers : workers[w] = Idle /\ workers[w].pc = "idle" /\ LearnInv(workers[w].learn)
    BY <1>1, IdleFacts
<1>3. StudyTypes
    <2>1. <<>> \in Seq(Trial) /\ <<>> \in Seq(TrackedRun) /\ samplers \in [DOMAIN samplers -> Nat]
        BY <1>1
    <2>2. workers \in [Workers -> WorkerState]
        BY <1>1, IdleFacts
    <2> QED BY <1>1, <2>1, <2>2, StudyConfig DEF StudyTypes, NotRunning
<1>4. Busy = {} /\ DOMAIN trials = {} /\ DOMAIN runs = {} /\ DOMAIN samplers = {}
    BY <1>1, <1>2 DEF Busy, At
<1>5. Cardinality(Failing) <= stops
    <2>1. Failing = {}
        BY <1>4 DEF Failing
    <2> QED BY <1>1, <2>1, FS_EmptySet
<1>6. SharedInv
    BY <1>1, <1>2, <1>4, <1>5 DEF SharedInv
<1> QED BY <1>3, <1>4, <1>6 DEF StudyInv

\* The inductive invariant of a study, for every kind of objective, every
\* budget and every number of workers: whatever they do, in whatever order.
THEOREM StudyInvariant == Spec => []StudyInv
<1>1. Init => StudyInv
    BY StudyInit
<1>2. StudyInv /\ [Next]_vars => StudyInv'
    <2> SUFFICES ASSUME StudyInv, [Next]_vars PROVE StudyInv'
        OBVIOUS
    <2>1. ASSUME NEW asked \in Identities, Invoke(asked) PROVE StudyInv'
        BY <2>1, InvokeStep
    <2>2. ASSUME NEW w \in Workers, Work(w) \/ RaiseError(w) PROVE StudyInv'
        <3>1. CASE Begin(w)
            BY <3>1, BeginStep
        <3>2. CASE Suggest(w)
            BY <3>2, SuggestStep
        <3>3. CASE LookUp(w)
            BY <3>3, LookUpStep
        <3>4. CASE Create(w)
            BY <3>4, CreateStep
        <3>5. CASE Open(w)
            BY <3>5, OpenStep
        <3>6. CASE Learn(w)
            BY <3>6, LearnStep
        <3>7. CASE Close(w)
            BY <3>7, CloseStep
        <3>8. CASE Leave(w)
            BY <3>8, LeaveStep
        <3>9. CASE Callback(w)
            BY <3>9, CallbackStep
        <3>10. CASE RaiseError(w)
            BY <3>10, RaiseErrorStep
        <3> QED BY <2>2, <3>1, <3>2, <3>3, <3>4, <3>5, <3>6, <3>7, <3>8, <3>9, <3>10 DEF Work
    <2>3. CASE Return
        BY <2>3, ReturnStep
    <2>4. CASE Interrupt
        BY <2>4, InterruptStep
    <2>5. CASE Kill
        BY <2>5, KillStep
    <2>6. CASE UNCHANGED vars
        <3>1. UNCHANGED <<kind, trials, runs, experiments, invocation, samplers, contexts,
                          workers, stops, cut>>
            BY <2>6 DEF vars
        <3> QED BY <3>1 DEF StudyInv, StudyTypes, SharedInv, WorkerInv, TrialInv, Failing,
                        Held, Busy, At, RunsOf, OpenRuns, OpenShape, RunsUnderWay, RunsUntold,
                        Nested, Sampler
    <2> QED BY <2>1, <2>2, <2>3, <2>4, <2>5, <2>6 DEF Next
<1> QED BY <1>1, <1>2, PTL DEF Spec

-----------------------------------------------------------------------------
(* What the trials propose.                                                *)
\* Workers whose trial has no final state yet.
AtWork == {w \in Busy : ~At(w, "callback")}

\* On a grid: the points finished are different, the one being run is not one of
\* them, and what an invocation has left is no more than the points left.
GridInv ==
    /\ \A k \in DOMAIN trials : trials[k].point \in Grid
    /\ \A i, k \in FinishedTrials : i # k => trials[i].point # trials[k].point
    /\ \A w \in AtWork : \A k \in FinishedTrials :
            trials[k].point # trials[workers[w].trial].point
    /\ invocation.pc = "optimize" =>
            invocation.left + Cardinality(FinishedTrials) + (IF AtWork = {} THEN 0 ELSE 1)
                <= Budget

\* The trial at work in a sequential study is the newest: no later trial has
\* proposed anything when its state changes.
SampleInv ==
    /\ kind # "parallel" => \A w \in Busy : workers[w].trial = Len(trials)
    /\ \A k \in DOMAIN trials : \A j \in DOMAIN trials[k].params :
            trials[k].params[j] = Proposal(k, j)
    /\ Sampler = "grid" => GridInv

LEMMA FinishedFinite ==
    ASSUME StudyTypes
    PROVE  IsFiniteSet(FinishedTrials) /\ Cardinality(FinishedTrials) \in Nat
<1>1. DOMAIN trials = 1 .. Len(trials) /\ Len(trials) \in Int /\ 1 \in Int
    BY DEF StudyTypes
<1>2. IsFiniteSet(DOMAIN trials)
    BY <1>1, FS_Interval
<1>3. FinishedTrials \subseteq DOMAIN trials
    BY DEF FinishedTrials
<1> QED BY <1>2, <1>3, FS_Subset, FS_CardinalityType

\* Only its own point and, for TPE, earlier trials say what a trial proposes.
LEMMA ProposalKept ==
    ASSUME kind' = kind, kind \in {"ppo", "dqn", "threshold", "parallel"}, NEW k, NEW j,
           trials'[k].point = trials[k].point,
           Sampler = "tpe" => \A i \in 1 .. k - 1 : trials'[i].state = trials[i].state
    PROVE  Proposal(k, j)' = Proposal(k, j)
<1>1. Sampler' = Sampler /\ Sampler \in {"grid", "tpe", "random"}
    BY DEF Sampler, Learned
<1>2. Sampler = "tpe" => CompletedBefore(k)' = CompletedBefore(k)
    BY DEF CompletedBefore
<1> QED BY <1>1, <1>2 DEF Proposal

\* A step after which the trials have the same states, points and parameters.
LEMMA SameSamples ==
    ASSUME StudyInv, StudyTypes', SampleInv, kind' = kind, DOMAIN trials' = DOMAIN trials,
           \A k \in DOMAIN trials :
                /\ trials'[k].state = trials[k].state /\ trials'[k].point = trials[k].point
                /\ \/ trials'[k].params = trials[k].params
                   \/ \A j \in DOMAIN trials'[k].params : trials'[k].params[j] = Proposal(k, j),
           \A w \in Workers : workers'[w].pc # "idle" =>
                /\ workers[w].pc # "idle" /\ workers'[w].trial = workers[w].trial
                /\ workers[w].pc = "callback" => workers'[w].pc = "callback",
           invocation'.pc = "optimize" =>
                \/ invocation.pc = "optimize" /\ invocation'.left = invocation.left
                \/ Busy' = {} /\ invocation'.left = Remaining
    PROVE  SampleInv'
<1>1. /\ StudyTypes /\ trials \in Seq(Trial) /\ trials' \in Seq(Trial)
      /\ kind \in {"ppo", "dqn", "threshold", "parallel"} /\ Sampler' = Sampler
      /\ \A w \in Busy : workers[w].trial \in DOMAIN trials
    BY StudyFacts DEF StudyTypes, Sampler
<1>2. Len(trials') = Len(trials) /\ DOMAIN trials = 1 .. Len(trials)
    BY <1>1
<1>3. \A w \in Busy' : w \in Busy /\ workers'[w].trial = workers[w].trial
    BY DEF Busy, At
<1>4. AtWork' \subseteq AtWork /\ \A w \in AtWork' : w \in Busy'
    BY DEF AtWork, Busy, At
<1>5. FinishedTrials' = FinishedTrials
    BY DEF FinishedTrials
<1>6. ASSUME NEW k \in DOMAIN trials', NEW j \in DOMAIN trials'[k].params
      PROVE  trials'[k].params[j] = Proposal(k, j)'
    <2>1. k \in 1 .. Len(trials) /\ \A i \in 1 .. k - 1 : i \in DOMAIN trials
        BY <1>1, <1>2
    <2>2. Proposal(k, j)' = Proposal(k, j)
        BY <1>1, <1>2, <2>1, ProposalKept
    <2> QED BY <1>2, <2>1, <2>2 DEF SampleInv
<1>7. ASSUME Sampler = "grid" PROVE GridInv'
    <2>1. GridInv
        BY <1>7 DEF SampleInv
    <2>2. \A k \in DOMAIN trials' : trials'[k].point \in Grid'
        BY <2>1 DEF GridInv, Grid
    <2>3. \A i, k \in FinishedTrials' : i # k => trials'[i].point # trials'[k].point
        BY <1>5, <2>1 DEF GridInv, FinishedTrials
    <2>4. \A w \in AtWork' : \A k \in FinishedTrials' :
                trials'[k].point # trials'[workers'[w].trial].point
        BY <1>1, <1>3, <1>4, <1>5, <2>1 DEF GridInv, FinishedTrials
    <2>5. ASSUME invocation'.pc = "optimize"
          PROVE  invocation'.left + Cardinality(FinishedTrials') + (IF AtWork' = {} THEN 0 ELSE 1)
                    <= Budget
        <3>1. Cardinality(FinishedTrials) \in Nat /\ Budget \in Nat
            BY <1>1, FinishedFinite, StudyConfig
        <3>2. CASE invocation.pc = "optimize" /\ invocation'.left = invocation.left
            <4>1. invocation.left \in Nat
                BY <1>1 DEF StudyTypes
            <4>2. PICK before \in {0, 1}, after \in {0, 1} :
                    /\ before = IF AtWork = {} THEN 0 ELSE 1
                    /\ after = IF AtWork' = {} THEN 0 ELSE 1
                    /\ after <= before
                BY <1>4
            <4>3. invocation.left + Cardinality(FinishedTrials) + before <= Budget
                BY <2>1, <3>2, <4>2 DEF GridInv
            <4> QED BY <1>5, <3>1, <3>2, <4>1, <4>2, <4>3
        <3>3. CASE Busy' = {} /\ invocation'.left = Remaining
            <4>1. AtWork' = {}
                BY <1>4, <3>3
            <4> QED BY <1>5, <3>1, <3>3, <4>1 DEF Remaining
        <3> QED BY <2>5, <3>2, <3>3
    <2> QED BY <2>2, <2>3, <2>4, <2>5 DEF GridInv
<1>8. kind' # "parallel" => \A w \in Busy' : workers'[w].trial = Len(trials')
    BY <1>2, <1>3 DEF SampleInv
<1> QED BY <1>1, <1>6, <1>7, <1>8 DEF SampleInv

\* A step that gives the trial of a worker its final state.
LEMMA FinishesOne ==
    ASSUME StudyInv, StudyTypes', SampleInv, kind' = kind, NEW w \in AtWork, NEW k,
           k = workers[w].trial, DOMAIN trials' = DOMAIN trials,
           \A i \in DOMAIN trials :
                /\ trials'[i].params = trials[i].params /\ trials'[i].point = trials[i].point
                /\ i # k => trials'[i].state = trials[i].state,
           trials'[k].state \in Finished,
           \A v \in Workers : v # w => workers'[v].pc = "idle" \/ workers'[v] = workers[v],
           workers'[w].pc \in {"idle", "callback"},
           workers'[w].pc = "callback" => workers'[w].trial = k,
           invocation'.pc = "optimize" =>
                invocation.pc = "optimize" /\ invocation'.left = invocation.left
    PROVE  SampleInv'
<1>1. /\ StudyTypes /\ SharedInv /\ trials \in Seq(Trial) /\ trials' \in Seq(Trial)
      /\ kind \in {"ppo", "dqn", "threshold", "parallel"} /\ Sampler' = Sampler
      /\ w \in Busy /\ w \in Workers /\ k \in DOMAIN trials
    BY StudyFacts DEF StudyTypes, Sampler, AtWork
<1>2. Len(trials') = Len(trials) /\ DOMAIN trials = 1 .. Len(trials) /\ k \in Nat
    BY <1>1
<1>3. trials[k].state = "RUNNING" /\ k \notin FinishedTrials
    <2>1. WorkerInv(w) /\ workers[w].pc # "callback"
        BY <1>1, StudyFacts DEF AtWork, At
    <2> QED BY <2>1 DEF WorkerInv, FinishedTrials, Finished
<1>4. \A v \in Busy' : v \in Busy /\ workers'[v].trial = workers[v].trial
    BY <1>1 DEF Busy, At
<1>5. kind # "parallel" => k = Len(trials)
    BY <1>1 DEF SampleInv
<1>6. ASSUME NEW i \in DOMAIN trials', NEW j \in DOMAIN trials'[i].params
      PROVE  trials'[i].params[j] = Proposal(i, j)'
    <2>1. i \in 1 .. Len(trials) /\ \A h \in 1 .. i - 1 : h \in DOMAIN trials /\ h < Len(trials)
        BY <1>1, <1>2
    <2>2. Sampler = "tpe" => \A h \in 1 .. i - 1 : h # k
        BY <1>2, <1>5, <2>1 DEF Sampler, Learned
    <2>3. Proposal(i, j)' = Proposal(i, j)
        BY <1>1, <1>2, <2>1, <2>2, ProposalKept
    <2> QED BY <1>2, <2>1, <2>3 DEF SampleInv
<1>7. ASSUME Sampler = "grid" PROVE GridInv'
    <2>1. GridInv /\ kind # "parallel"
        BY <1>7 DEF SampleInv, Sampler, Learned
    <2>2. AtWork' = {}
        <3>1. Busy' \subseteq {w}
            BY <1>1, <1>4, <2>1 DEF SharedInv
        <3> QED BY <3>1 DEF AtWork, At, Busy
    <2>3. FinishedTrials' = FinishedTrials \cup {k}
        BY <1>1 DEF FinishedTrials
    <2>4. \A i, h \in FinishedTrials' : i # h => trials'[i].point # trials'[h].point
        <3>1. \A i \in FinishedTrials : i \in DOMAIN trials /\ trials[i].point # trials[k].point
            BY <2>1 DEF GridInv, FinishedTrials
        <3> QED BY <1>1, <2>1, <2>3, <3>1 DEF GridInv
    <2>5. invocation'.pc = "optimize" =>
                invocation'.left + Cardinality(FinishedTrials') + 0 <= Budget
        <3>1. IsFiniteSet(FinishedTrials) /\ Cardinality(FinishedTrials) \in Nat
            BY <1>1, FinishedFinite
        <3>2. Cardinality(FinishedTrials') = Cardinality(FinishedTrials) + 1
            BY <1>3, <2>3, <3>1, FS_AddElement
        <3>3. AtWork # {} /\ invocation.left \in Nat /\ Budget \in Nat
            BY <1>1, StudyConfig DEF StudyTypes
        <3>4. invocation.pc = "optimize" =>
                invocation.left + Cardinality(FinishedTrials) + 1 <= Budget
            BY <2>1, <3>3 DEF GridInv
        <3> QED BY <3>1, <3>2, <3>3, <3>4
    <2>6. \A i \in DOMAIN trials' : trials'[i].point \in Grid'
        BY <2>1 DEF GridInv, Grid
    <2> QED BY <2>2, <2>4, <2>5, <2>6 DEF GridInv
<1>8. kind' # "parallel" => \A v \in Busy' : workers'[v].trial = Len(trials')
    BY <1>2, <1>4 DEF SampleInv
<1> QED BY <1>1, <1>6, <1>7, <1>8 DEF SampleInv

\* A grid that is not used up has an unfinished point, so the sampler repeats none.
LEMMA PointLeft ==
    ASSUME StudyTypes, GridInv, Cardinality(FinishedTrials) < Budget,
           NEW point \in UnvisitedPoints
    PROVE  point \in Grid /\ \A k \in FinishedTrials : trials[k].point # point
<1> DEFINE taken == {trials[k].point : k \in FinishedTrials}
<1>1. PointsOf(Finished) = taken
    BY DEF PointsOf, FinishedTrials
<1>2. IsFiniteSet(FinishedTrials) /\ Cardinality(FinishedTrials) \in Nat
    BY FinishedFinite
<1>3. /\ IsFiniteSet(taken) /\ Cardinality(taken) \in Nat
      /\ Cardinality(taken) <= Cardinality(FinishedTrials)
    <2>1. PICK of : of = [k \in FinishedTrials |-> trials[k].point]
        OBVIOUS
    <2>2. of \in Surjection(FinishedTrials, taken)
        BY <2>1 DEF Surjection
    <2> QED BY <1>2, <2>2, FS_Surjection, FS_CardinalityType
<1>4. /\ IsFiniteSet(Grid) /\ Cardinality(Grid) = Budget
    <2>1. Budget \in Nat \ {0} /\ Budget \in Int /\ 1 \in Int
        BY StudyConfig
    <2> QED BY <2>1, FS_Interval DEF Grid
<1>5. Grid \ taken # {}
    <2> SUFFICES ASSUME Grid \subseteq taken PROVE FALSE
        OBVIOUS
    <2>1. Cardinality(Grid) <= Cardinality(taken)
        BY <1>3, FS_Subset
    <2> QED BY <1>2, <1>3, <1>4, <2>1, StudyConfig
<1>6. point \in Grid \ taken
    <2>1. PointsOf(Finished) \subseteq PointsOf(Finished \cup {"RUNNING"})
        BY DEF PointsOf
    <2> QED BY <1>1, <1>5, <2>1 DEF UnvisitedPoints
<1> QED BY <1>6

LEMMA BeginSamples ==
    ASSUME StudyInv, StudyTypes', SampleInv, NEW w \in Workers, Begin(w) PROVE SampleInv'
<1>0. PICK k : k = Len(trials) + 1
    OBVIOUS
<1>1. PICK point \in IF Sampler = "grid" THEN UnvisitedPoints ELSE {0} :
        trials' = Append(trials, [state |-> "RUNNING", params |-> <<>>, runs |-> <<>>,
                                  point |-> point])
    BY DEF Begin
<1>2. PICK me : me = [Idle EXCEPT !.pc = "suggest", !.trial = k,
                                  !.learn = Fresh(IF Nested THEN kind ELSE "ppo")]
    OBVIOUS
<1>3. /\ invocation.pc = "optimize" /\ invocation.left > 0
      /\ w \in Jobs /\ workers[w].pc = "idle"
      /\ workers' = [workers EXCEPT ![w] = me]
      /\ invocation' = [invocation EXCEPT !.left = @ - 1]
      /\ kind' = kind
    BY <1>0, <1>2 DEF Begin, At
<1>4. /\ StudyTypes /\ SharedInv /\ trials \in Seq(Trial) /\ trials' \in Seq(Trial)
      /\ kind \in {"ppo", "dqn", "threshold", "parallel"} /\ Sampler' = Sampler
      /\ workers \in [Workers -> WorkerState]
      /\ invocation \in [pc : {"idle", "optimize"}, left : Nat, raised : BOOLEAN]
    BY <1>3, StudyFacts DEF StudyTypes, Sampler
<1>5. PICK new : /\ new.state = "RUNNING" /\ new.params = <<>> /\ new.point = point
                 /\ trials' = Append(trials, new)
    BY <1>1
<1>6. /\ Len(trials') = k /\ DOMAIN trials' = DOMAIN trials \cup {k} /\ trials'[k] = new
      /\ k \in Nat /\ DOMAIN trials = 1 .. k - 1
      /\ \A i \in DOMAIN trials : trials'[i] = trials[i]
    <2>1. PICK n \in Nat : n = Len(trials)
        BY <1>4
    <2> QED BY <1>0, <1>4, <1>5, <2>1
<1>7. /\ me.pc = "suggest" /\ me.trial = k /\ workers'[w] = me
      /\ \A v \in Workers : v # w => workers'[v] = workers[v]
    BY <1>2, <1>3, <1>4 DEF Idle
\* In a sequential study it is alone.
<1>8. kind # "parallel" => Busy = {} /\ Busy' = {w}
    BY <1>3, <1>4, <1>7 DEF SharedInv, Jobs, Busy, At
<1>9. ASSUME NEW i \in DOMAIN trials', NEW j \in DOMAIN trials'[i].params
      PROVE  trials'[i].params[j] = Proposal(i, j)'
    <2>1. i # k
        <3>1. DOMAIN <<>> = {}
            OBVIOUS
        <3> QED BY <1>5, <1>6, <1>9, <3>1
    <2>2. i \in DOMAIN trials /\ \A h \in 1 .. i - 1 : h \in DOMAIN trials
        BY <1>6, <2>1
    <2>3. Proposal(i, j)' = Proposal(i, j)
        BY <1>3, <1>4, <1>6, <2>2, ProposalKept
    <2> QED BY <1>6, <2>2, <2>3 DEF SampleInv
<1>10. ASSUME Sampler = "grid" PROVE GridInv'
    <2>1. GridInv /\ kind # "parallel" /\ point \in UnvisitedPoints
        BY <1>1, <1>10 DEF SampleInv, Sampler, Learned
    <2>2. AtWork = {} /\ AtWork' = {w}
        BY <1>7, <1>8, <2>1 DEF AtWork, At
    <2>3. Cardinality(FinishedTrials) \in Nat /\ Budget \in Nat /\ invocation.left \in Nat
        BY <1>4, FinishedFinite, StudyConfig
    <2>4. invocation.left + Cardinality(FinishedTrials) + 0 <= Budget
        BY <1>3, <2>1, <2>2 DEF GridInv
    <2>5. point \in Grid /\ \A i \in FinishedTrials : trials[i].point # point
        <3>1. Cardinality(FinishedTrials) < Budget
            BY <1>3, <2>3, <2>4
        <3> QED BY <1>4, <2>1, <3>1, PointLeft
    <2>6. FinishedTrials' = FinishedTrials
        <3>1. "RUNNING" \notin Finished
            BY DEF Finished
        <3> QED BY <1>5, <1>6, <3>1 DEF FinishedTrials
    <2>7. \A i \in FinishedTrials : i \in DOMAIN trials /\ trials'[i] = trials[i]
        BY <1>6 DEF FinishedTrials
    <2>8. \A i \in DOMAIN trials' : trials'[i].point \in Grid'
        BY <1>5, <1>6, <2>1, <2>5 DEF GridInv, Grid
    <2>9. \A i, h \in FinishedTrials' : i # h => trials'[i].point # trials'[h].point
        BY <2>1, <2>6, <2>7 DEF GridInv
    <2>10. \A v \in AtWork' : \A i \in FinishedTrials' :
                trials'[i].point # trials'[workers'[v].trial].point
        BY <1>5, <1>6, <1>7, <2>2, <2>5, <2>6, <2>7
    <2>11. invocation'.left + Cardinality(FinishedTrials') + 1 <= Budget
        BY <1>3, <1>4, <2>3, <2>4, <2>6
    <2> QED BY <2>2, <2>8, <2>9, <2>10, <2>11 DEF GridInv
<1>11. kind' # "parallel" => \A v \in Busy' : workers'[v].trial = Len(trials')
    BY <1>3, <1>6, <1>7, <1>8
<1> QED BY <1>4, <1>9, <1>10, <1>11 DEF SampleInv

LEMMA SuggestSamples ==
    ASSUME StudyInv, StudyTypes', SampleInv, NEW w \in Workers, Suggest(w) PROVE SampleInv'
<1>0. PICK k : k = workers[w].trial
    OBVIOUS
<1> DEFINE params == trials[k].params
<1>1. /\ w \in Busy /\ workers[w].pc = "suggest" /\ UNCHANGED <<kind, invocation>>
    BY DEF Suggest, Busy, At
<1>2. /\ StudyTypes /\ WorkerInv(w) /\ k \in DOMAIN trials /\ trials[k] \in Trial
      /\ workers \in [Workers -> WorkerState] /\ trials \in Seq(Trial) /\ trials' \in Seq(Trial)
      /\ kind \in {"ppo", "dqn", "threshold", "parallel"}
    BY <1>0, <1>1, StudyFacts DEF StudyTypes
<1>3. invocation'.pc = "optimize" =>
            invocation.pc = "optimize" /\ invocation'.left = invocation.left
    BY <1>1
<1>4. CASE Len(params) + 1 > Suggestions
    <2>1. Goto(w, "lookup") /\ trials' = trials
        BY <1>0, <1>4 DEF Suggest
    <2>2. /\ workers'[w].trial = workers[w].trial /\ workers'[w].pc = "lookup"
          /\ \A v \in Workers : v # w => workers'[v] = workers[v]
        BY <1>2, <2>1, WorkerAt
    <2> QED BY <1>1, <1>3, <2>1, <2>2, SameSamples
<1>5. CASE ~(Len(params) + 1 > Suggestions)
    <2>1. workers' = workers
        BY <1>0, <1>5, Proposes
    <2>2. PICK value \in Value :
            /\ trials' = [trials EXCEPT ![k].params = Append(@, value)]
            /\ value = IF Sampler = "grid" THEN <<trials[k].point, Len(params) + 1, {}>>
                       ELSE <<k, Len(params) + 1,
                              IF Sampler = "tpe" THEN CompletedTrials ELSE {}>>
        BY <1>0, <1>5, Proposes
    <2>3. params \in Seq(Value) /\ Len(params) \in Nat /\ DOMAIN params = 1 .. Len(params)
        BY <1>2 DEF Trial
\* The trial is running, and if TPE proposes, it is the newest.
    <2>4. value = Proposal(k, Len(params) + 1)
        <3>1. CASE Sampler = "tpe"
            <4>1. kind # "parallel"
                BY <3>1 DEF Sampler, Learned
            <4>2. k = Len(trials) /\ trials[k].state = "RUNNING" /\ DOMAIN trials = 1 .. Len(trials)
                BY <1>0, <1>1, <1>2, <4>1 DEF SampleInv, WorkerInv
            <4>3. CompletedTrials = CompletedBefore(k)
                BY <1>2, <4>2 DEF CompletedTrials, CompletedBefore
            <4> QED BY <2>2, <3>1, <4>3 DEF Proposal
        <3>2. CASE Sampler = "grid"
            BY <2>2, <3>2 DEF Proposal
        <3>3. CASE Sampler = "random"
            BY <2>2, <3>3 DEF Proposal
        <3> QED BY <1>2, <3>1, <3>2, <3>3 DEF Sampler
    <2> HIDE DEF params
    <2>5. /\ DOMAIN trials' = DOMAIN trials
          /\ \A i \in DOMAIN trials : i # k => trials'[i] = trials[i]
          /\ trials'[k].state = trials[k].state /\ trials'[k].point = trials[k].point
          /\ trials'[k].params = Append(params, value)
        BY <1>2, <2>2 DEF params, Trial
    <2>6. \A j \in DOMAIN trials'[k].params : trials'[k].params[j] = Proposal(k, j)
        <3> SUFFICES ASSUME NEW j \in DOMAIN Append(params, value)
                     PROVE  Append(params, value)[j] = Proposal(k, j)
            BY <2>5
        <3>1. CASE j = Len(params) + 1
            BY <2>3, <2>4, <3>1
        <3>2. CASE j # Len(params) + 1
            <4>1. j \in DOMAIN params /\ Append(params, value)[j] = params[j]
                BY <2>3, <3>2
            <4> QED BY <1>2, <4>1 DEF SampleInv, params
        <3> QED BY <3>1, <3>2
    <2> QED BY <1>1, <1>3, <2>1, <2>5, <2>6, SameSamples
<1> QED BY <1>4, <1>5

\* Steps of a worker between its parameters and its final state, or after it.
LEMMA WorkSamples ==
    ASSUME StudyInv, StudyTypes', SampleInv, NEW w \in Workers,
           LookUp(w) \/ Create(w) \/ Open(w) \/ Learn(w) \/ Close(w) \/ Callback(w)
           \/ RaiseError(w)
    PROVE  SampleInv'
<1>1. /\ workers \in [Workers -> WorkerState] /\ trials \in Seq(Trial)
      /\ w \in Busy => workers[w].trial \in DOMAIN trials
    BY StudyFacts DEF StudyTypes
<1>2. w \in Busy /\ UNCHANGED <<kind, invocation>>
    BY DEF LookUp, Create, Open, Learn, Close, Callback, RaiseError, Busy, At
<1>3. /\ DOMAIN trials' = DOMAIN trials
      /\ \A k \in DOMAIN trials : /\ trials'[k].state = trials[k].state
                                  /\ trials'[k].point = trials[k].point
                                  /\ trials'[k].params = trials[k].params
    <2>1. CASE Open(w)
        <3>1. PICK noted : trials' = [trials EXCEPT ![workers[w].trial].runs = noted]
            BY <1>1, <2>1 DEF Open
        <3> QED BY <1>1, <1>2, <3>1 DEF Trial
    <2>2. CASE ~Open(w)
        BY <2>2 DEF LookUp, Create, Learn, Close, Callback, RaiseError
    <2> QED BY <2>1, <2>2
<1>4. \A v \in Workers : workers'[v].pc # "idle" =>
            /\ workers[v].pc # "idle" /\ workers'[v].trial = workers[v].trial
            /\ workers[v].pc = "callback" => workers'[v].pc = "callback"
    <2>1. \A v \in Workers : v # w => workers'[v] = workers[v]
        BY <1>1 DEF LookUp, Create, Open, Learn, Close, Callback, RaiseError, Goto
    <2>2. workers'[w].pc = "idle" \/ workers'[w].trial = workers[w].trial
        <3>1. CASE Callback(w)
            BY <1>1, <3>1, IdleFacts DEF Callback
        <3>2. CASE LookUp(w)
            BY <1>1, <3>2 DEF LookUp, Goto, WorkerState
        <3>3. CASE Create(w)
            BY <1>1, <3>3 DEF Create, Goto, WorkerState
        <3>4. CASE Open(w)
            BY <1>1, <3>4 DEF Open, WorkerState
        <3>5. CASE Learn(w)
            <4>1. CASE workers[w].learn.phase = "done"
                BY <1>1, <3>5, <4>1 DEF Learn, WorkerState
            <4>2. CASE workers[w].learn.phase # "done"
                <5>1. PICK next : workers' = [workers EXCEPT ![w].learn = next]
                    BY <3>5, <4>2 DEF Learn
                <5> QED BY <1>1, <5>1 DEF WorkerState
            <4> QED BY <4>1, <4>2
        <3>6. CASE Close(w)
            <4>1. PICK pc, outcome :
                    workers' = [workers EXCEPT ![w].open = <<>>, ![w].pc = pc,
                                               ![w].outcome = outcome]
                BY <3>6 DEF Close
            <4> QED BY <1>1, <4>1 DEF WorkerState
        <3>7. CASE RaiseError(w)
            BY <1>1, <3>7 DEF RaiseError, WorkerState
        <3> QED BY <3>1, <3>2, <3>3, <3>4, <3>5, <3>6, <3>7
    <2>3. workers[w].pc = "callback" => workers'[w].pc = "idle"
        BY <1>1, IdleFacts DEF LookUp, Create, Open, Learn, Close, Callback, RaiseError, At
    <2> QED BY <1>2, <2>1, <2>2, <2>3 DEF Busy, At
<1>5. invocation'.pc = "optimize" =>
            invocation.pc = "optimize" /\ invocation'.left = invocation.left
    BY <1>2
<1> QED BY <1>2, <1>3, <1>4, <1>5, SameSamples

LEMMA LeaveSamples ==
    ASSUME StudyInv, StudyTypes', SampleInv, NEW w \in Workers, Leave(w) PROVE SampleInv'
<1>0. PICK k : k = workers[w].trial
    OBVIOUS
<1>o. PICK outcome : outcome = workers[w].outcome
    OBVIOUS
<1>1. /\ w \in AtWork /\ w \in Busy /\ workers[w].pc = "leave"
      /\ trials' = [trials EXCEPT ![k].state = outcome]
      /\ invocation' = IF outcome = "FAIL" THEN [invocation EXCEPT !.raised = TRUE]
                       ELSE invocation
      /\ workers' = [workers EXCEPT ![w] =
                        IF outcome = "FAIL" THEN Idle ELSE [@ EXCEPT !.pc = "callback"]]
      /\ kind' = kind
    BY <1>0, <1>o DEF Leave, Busy, At, AtWork
<1>2. /\ StudyTypes /\ k \in DOMAIN trials /\ trials[k] \in Trial
      /\ workers \in [Workers -> WorkerState] /\ trials \in Seq(Trial)
      /\ invocation \in [pc : {"idle", "optimize"}, left : Nat, raised : BOOLEAN]
    BY <1>0, <1>1, StudyFacts DEF StudyTypes
<1>3. outcome \in Finished
    <2>1. WorkerInv(w)
        BY <1>1, StudyFacts
    <2> QED BY <1>o, <1>1, <2>1 DEF WorkerInv, Finished
<1>4. /\ DOMAIN trials' = DOMAIN trials /\ trials'[k].state \in Finished
      /\ \A i \in DOMAIN trials :
            /\ trials'[i].params = trials[i].params /\ trials'[i].point = trials[i].point
            /\ i # k => trials'[i].state = trials[i].state
    BY <1>1, <1>2, <1>3 DEF Trial
<1>5. /\ \A v \in Workers : v # w => workers'[v] = workers[v]
      /\ workers'[w].pc \in {"idle", "callback"}
      /\ workers'[w].pc = "callback" => workers'[w].trial = k
    BY <1>0, <1>1, <1>2, IdleFacts DEF WorkerState
<1>6. invocation'.pc = "optimize" =>
            invocation.pc = "optimize" /\ invocation'.left = invocation.left
    BY <1>1, <1>2
<1> QED BY <1>0, <1>1, <1>4, <1>5, <1>6, FinishesOne

LEMMA InterruptSamples ==
    ASSUME StudyInv, StudyTypes', SampleInv, Interrupt PROVE SampleInv'
<1>0. PICK w : w = OneWorker
    OBVIOUS
<1>k. PICK k : k = workers[w].trial
    OBVIOUS
<1>1. /\ w \in Workers /\ w \in Busy /\ w \in AtWork
      /\ trials' = [trials EXCEPT ![k].state = "FAIL"]
      /\ invocation' = NotRunning /\ kind' = kind
      /\ workers' = [v \in Workers |-> Idle]
    BY <1>0, <1>k, StudyConfig DEF Interrupt, Busy, At, AtWork
<1>2. /\ k \in DOMAIN trials /\ trials[k] \in Trial /\ trials \in Seq(Trial)
    BY <1>k, <1>1, StudyFacts DEF StudyTypes
<1>3. /\ DOMAIN trials' = DOMAIN trials /\ trials'[k].state \in Finished
      /\ \A i \in DOMAIN trials :
            /\ trials'[i].params = trials[i].params /\ trials'[i].point = trials[i].point
            /\ i # k => trials'[i].state = trials[i].state
    BY <1>1, <1>2 DEF Trial, Finished
<1>4. \A v \in Workers : workers'[v].pc = "idle"
    BY <1>1, IdleFacts
<1>5. invocation'.pc # "optimize"
    BY <1>1 DEF NotRunning
<1> QED BY <1>k, <1>1, <1>3, <1>4, <1>5, FinishesOne

\* Steps of the study itself: nobody works after them, or as before.
LEMMA CallSamples ==
    ASSUME StudyInv, StudyTypes', SampleInv,
           \/ \E asked \in Identities : Invoke(asked)
           \/ Return \/ Kill
    PROVE  SampleInv'
<1>1. kind' = kind /\ trials' = trials
    BY DEF Invoke, Return, Kill
<1>2. \A w \in Workers : workers'[w].pc # "idle" => workers'[w] = workers[w]
    BY IdleFacts DEF Invoke, Return, Kill
<1>3. invocation'.pc = "optimize" => Busy' = {} /\ invocation'.left = Remaining
    <2>1. CASE Return \/ Kill
        BY <2>1 DEF Return, Kill, NotRunning
    <2>2. ASSUME NEW asked \in Identities, Invoke(asked)
          PROVE  invocation'.pc = "optimize" => Busy' = {} /\ invocation'.left = Remaining
        <3>1. Busy = {} /\ workers' = workers
            BY <2>2, StudyFacts DEF Invoke, SharedInv
        <3>2. \/ invocation' = [pc |-> "optimize", left |-> Remaining, raised |-> FALSE]
              \/ invocation' = NotRunning
            BY <2>2 DEF Invoke
        <3> QED BY <3>1, <3>2 DEF Busy, At, NotRunning
    <2> QED BY <2>1, <2>2
<1> QED BY <1>1, <1>2, <1>3, SameSamples

\* The proposals of every study, whatever its workers do and where it is stopped.
THEOREM SampleInvariant == Spec => []SampleInv
<1>1. Init => SampleInv
    <2> SUFFICES ASSUME Init PROVE SampleInv
        OBVIOUS
    <2>1. trials = <<>> /\ DOMAIN trials = {} /\ invocation.pc = "idle"
        BY DEF Init, NotRunning
    <2>2. Busy = {}
        BY IdleFacts DEF Init, Busy, At
    <2>3. GridInv
        BY <2>1, <2>2 DEF GridInv, AtWork, FinishedTrials
    <2> QED BY <2>1, <2>2, <2>3 DEF SampleInv
<1>2. StudyInv /\ StudyInv' /\ SampleInv /\ [Next]_vars => SampleInv'
    <2> SUFFICES ASSUME StudyInv, StudyInv', SampleInv, [Next]_vars PROVE SampleInv'
        OBVIOUS
    <2>0. StudyTypes'
        BY DEF StudyInv
    <2>1. CASE (\E asked \in Identities : Invoke(asked)) \/ Return \/ Kill
        BY <2>0, <2>1, CallSamples
    <2>2. ASSUME NEW w \in Workers, Work(w) \/ RaiseError(w) PROVE SampleInv'
        <3>1. CASE Begin(w)
            BY <2>0, <3>1, BeginSamples
        <3>2. CASE Suggest(w)
            BY <2>0, <3>2, SuggestSamples
        <3>3. CASE Leave(w)
            BY <2>0, <3>3, LeaveSamples
        <3>4. CASE \/ LookUp(w) \/ Create(w) \/ Open(w) \/ Learn(w) \/ Close(w) \/ Callback(w)
                   \/ RaiseError(w)
            BY <2>0, <3>4, WorkSamples
        <3> QED BY <2>2, <3>1, <3>2, <3>3, <3>4 DEF Work
    <2>3. CASE Interrupt
        BY <2>0, <2>3, InterruptSamples
    <2>4. CASE UNCHANGED vars
        <3>1. UNCHANGED <<kind, trials, invocation, workers>>
            BY <2>4 DEF vars
        <3> QED BY <3>1, <2>0, SameSamples DEF Busy, At
    <2> QED BY <2>1, <2>2, <2>3, <2>4 DEF Next
<1> QED BY <1>1, <1>2, StudyInvariant, PTL DEF Spec

\* What a trial proposes is fixed by what the study stores: its number and, for
\* TPE, the trials completed before it; or its point on the grid, none of which
\* is finished twice, however often the study is stopped and run again. No
\* sampler outlives its trial (trial_seed, TrialSeededSampler, GridSampler).
THEOREM TrialsAlike == Spec => []TrialsSampleAlike
<1>1. StudyInv /\ SampleInv => TrialsSampleAlike
    <2> SUFFICES ASSUME StudyInv, SampleInv PROVE TrialsSampleAlike
        OBVIOUS
    <2>1. /\ \A k \in DOMAIN trials : \A j \in DOMAIN trials[k].params :
                trials[k].params[j] = Proposal(k, j)
          /\ Sampler = "grid" => \A i, k \in FinishedTrials :
                i # k => trials[i].point # trials[k].point
        BY DEF SampleInv, GridInv
    <2>2. Cardinality(DOMAIN samplers) <= Cardinality(Busy)
        <3>1. IsFiniteSet(Busy)
            BY StudyConfig, FS_Subset DEF Busy
        <3> DEFINE busyTrials == {workers[w].trial : w \in Busy}
        <3>2. IsFiniteSet(busyTrials) /\ Cardinality(busyTrials) <= Cardinality(Busy)
            <4>1. PICK of : of = [w \in Busy |-> workers[w].trial]
                OBVIOUS
            <4>2. of \in Surjection(Busy, busyTrials)
                BY <4>1 DEF Surjection
            <4> QED BY <3>1, <4>2, FS_Surjection
        <3>3. DOMAIN samplers \subseteq busyTrials
            BY DEF StudyInv, SharedInv, Held
        <3>4. /\ Cardinality(DOMAIN samplers) \in Nat /\ Cardinality(busyTrials) \in Nat
              /\ Cardinality(DOMAIN samplers) <= Cardinality(busyTrials)
            BY <3>2, <3>3, FS_Subset, FS_CardinalityType
        <3>5. Cardinality(Busy) \in Nat
            BY <3>1, FS_CardinalityType
        <3> QED BY <3>2, <3>4, <3>5
    <2> QED BY <2>1, <2>2 DEF TrialsSampleAlike
<1> QED BY <1>1, StudyInvariant, SampleInvariant, PTL

\* Every run of a trial that ended tells its final state, unless its process
\* was stopped; a completed trial's runs all ended well, one experiment holds
\* all runs however the workers race to create it, and no trial fails but by a
\* stop (tag_runs, _tag_trial_state, start_tracked_run).
THEOREM RunsTell == Spec => []RunsTellTheirTrial
<1>1. StudyInv => RunsTellTheirTrial
    <2> SUFFICES ASSUME StudyInv PROVE RunsTellTheirTrial
        OBVIOUS
    <2>0. StudyTypes /\ SharedInv
        BY DEF StudyInv
    <2>1. ASSUME NEW r \in DOMAIN runs
          PROVE  LET trial == runs[r].trial
                     ended == trials[trial].state \in Finished
                     busy == \E w \in Busy : workers[w].trial = trial
                 IN  /\ ended /\ ~busy /\ trial \notin cut => runs[r].tag = trials[trial].state
                     /\ ended /\ runs[r].tag # NoTag => runs[r].tag = trials[trial].state
                     /\ trials[trial].state = "COMPLETE" => runs[r].status = "FINISHED"
                     /\ runs[r].experiment = 1
        <3>0. PICK k : k = runs[r].trial
            OBVIOUS
        <3>1. k \in DOMAIN trials /\ r \in RunsOf(k) /\ runs[r].experiment = 1
            BY <2>0, <3>0 DEF SharedInv, RunsOf
        <3>2. TrialInv(k)
            BY <3>1 DEF StudyInv
        <3> QED BY <3>0, <3>1, <3>2 DEF TrialInv, Held
    <2>2. Cardinality({k \in DOMAIN trials : trials[k].state = "FAIL"}) <= stops
        <3> DEFINE gone == {k \in DOMAIN trials : trials[k].state = "FAIL"}
        <3>1. gone \subseteq Failing
            BY DEF Failing
        <3>2. /\ IsFiniteSet(Failing) /\ Cardinality(Failing) \in Nat
              /\ Cardinality(Failing) <= stops /\ stops \in Nat
            BY <2>0, FailingFinite, FS_CardinalityType DEF SharedInv, StudyTypes
        <3>3. Cardinality(gone) \in Nat /\ Cardinality(gone) <= Cardinality(Failing)
            BY <3>1, <3>2, FS_Subset, FS_CardinalityType
        <3> QED BY <3>2, <3>3
    <2> QED BY <2>1, <2>2 DEF RunsTellTheirTrial
<1> QED BY <1>1, StudyInvariant, PTL

\* A trial's checkpoints hold the model after each whole interval of steps,
\* all of them once learn() is over, and its curve the values of the model its
\* points are labelled with, every episode in exactly one of them; for every
\* length of a rollout and every interval (TrainingRun, for both algorithms).
THEOREM LearningIsRecorded == Spec => []LearningRecorded
<1>1. StudyInv => LearningRecorded
    BY LearnExact DEF StudyInv, SharedInv, LearningRecorded
<1> QED BY <1>1, StudyInvariant, PTL
=============================================================================
