--------------------------- MODULE ControllerProofs -------------------------
(***************************************************************************)
(* What the controllers keep in their loops, for every environment, every  *)
(* demand and every order of decisions, ticks and new episodes: the        *)
(* threshold controller (LoopSpec), then the forecasting controllers and   *)
(* the static one (PolicySpec). Each theorem is about one loop; the other  *)
(* loop's constants only have to satisfy their own assumption.             *)
(***************************************************************************)
EXTENDS ThresholdLoop, PredictiveLoop, AutoscalingEnvProofs

\* The info belongs to the latest tick or to the latest reset.
InfoInv ==
    /\ info.kind \in {"none", "reset", "step"}
    /\ info.kind = "reset" => clock = 0
    /\ info.kind = "step" => info.tick = clock - 1 /\ info.applied \in Int

\* What is left of a cooldown k decisions after a change.
Left(k) == Larger(0, CooldownTicks - k)

\* A change that the controller has not looked at yet.
Unread ==
    /\ CooldownTicks # 0 /\ info.kind = "step"
    /\ info.applied # 0 /\ info.tick # controller.consumed

\* The cooldown counts the decisions since the latest change, once it is known.
CoolInv ==
    /\ controller = [cooldown |-> controller.cooldown, consumed |-> controller.consumed,
                     decision |-> controller.decision]
    /\ since \in 0 .. NeverChanged /\ rank \in 1 .. NeverChanged
    /\ controller.cooldown \in 0 .. CooldownTicks
    /\ controller.consumed \in -1 .. clock - 1
    /\ IF Unread THEN since = 0 ELSE controller.cooldown = Left(since)
    /\ controller.decision.reason \in Reasons \cup {"none"}
    /\ controller.decision.reason = "none" => controller.decision = NoDecision
    /\ CooldownExact

LoopInv == EpisodeInv /\ TelemetryInv /\ InfoInv /\ CoolInv

-----------------------------------------------------------------------------
\* The constants and the capacity a decision is taken on.
LEMMA LoopFacts ==
    ASSUME EpisodeInv
    PROVE  /\ CooldownTicks \in Nat /\ CtlMin \in Nat \ {0} /\ CtlMax \in Nat /\ CtlMin <= CtlMax
           /\ MinReplicas \in Nat \ {0} /\ MaxReplicas \in Nat /\ MinReplicas <= MaxReplicas
           /\ EpisodeTicks \in Nat \ {0} /\ TelemetryDelay \in Nat /\ HistoryTicks \in Nat \ {0}
           /\ clock \in 0 .. EpisodeTicks
           /\ Committed(pool) \in MinReplicas .. MaxReplicas
           /\ DecisionInfo.counts.active + DecisionInfo.counts.pending = Committed(pool)
           /\ contract.semantics = world.semantics
           /\ contract.min = MinReplicas /\ contract.max = MaxReplicas
BY ControllerConfig, ReplicaConfig, EnvConfig
   DEF EpisodeInv, PoolInv, DecisionInfo, Counts, Committed, contract

\* A step of one replica has a valid code, and that code moves the fleet by it,
\* or not at all at the environment's bounds.
LEMMA StepCode ==
    ASSUME EpisodeInv, NEW delta \in {SCALE_DOWN, HOLD, SCALE_UP}
    PROVE  LET committed == Committed(pool)
               code == CodeForStep(contract, delta, committed)
               moved == committed + DELTA_EFFECTS[delta]
           IN  /\ code \in Codes(contract)
               /\ DELTA_EFFECTS[delta] \in {-1, 0, 1}
               /\ TargetFor(contract, code, committed) =
                    IF moved \in MinReplicas .. MaxReplicas THEN moved ELSE committed
<1> DEFINE committed == Committed(pool)
           effect == DELTA_EFFECTS[delta]
<1>1. /\ effect \in {-1, 0, 1} /\ delta \in 0 .. 2 /\ effect = delta - 1
    BY DEF DELTA_EFFECTS, SCALE_DOWN, HOLD, SCALE_UP
<1>2. /\ committed \in MinReplicas .. MaxReplicas
      /\ MinReplicas \in Nat \ {0} /\ MaxReplicas \in Nat /\ MinReplicas <= MaxReplicas
      /\ contract.semantics = world.semantics
      /\ contract.min = MinReplicas /\ contract.max = MaxReplicas
    BY LoopFacts
<1> HIDE DEF committed, effect
<1>3. /\ Clip(contract, committed + effect) \in MinReplicas .. MaxReplicas
      /\ Clip(contract, committed + effect) =
            IF committed + effect \in MinReplicas .. MaxReplicas THEN committed + effect ELSE committed
    BY <1>1, <1>2 DEF Clip
<1>4. CASE world.semantics = DELTA_V1
    <2>1. CodeForStep(contract, delta, committed) = delta
        BY <1>2, <1>4 DEF CodeForStep
    <2>2. delta \in Codes(contract)
        BY <1>1, <1>2, <1>4 DEF Codes, ActionCount
    <2>3. TargetFor(contract, delta, committed) = Clip(contract, committed + effect)
        BY <1>2, <1>4 DEF TargetFor, effect
    <2> QED BY <1>1, <1>3, <2>1, <2>2, <2>3 DEF committed, effect
<1>5. CASE world.semantics # DELTA_V1
    <2> DEFINE target == Clip(contract, committed + effect)
    <2>1. Clip(contract, committed + effect) = target /\ target \in MinReplicas .. MaxReplicas
        BY <1>3
    <2> HIDE DEF target
    <2>2. CodeForStep(contract, delta, committed) = target - MinReplicas
        BY <1>2, <1>5, <2>1 DEF CodeForStep, CodeForTarget, effect
    <2>3. target - MinReplicas \in Codes(contract)
        BY <1>2, <1>5, <2>1 DEF Codes, ActionCount
    <2>4. TargetFor(contract, target - MinReplicas, committed) = target
        BY <1>2, <1>5, <2>1 DEF TargetFor
    <2> QED BY <1>1, <1>3, <2>1, <2>2, <2>3, <2>4 DEF committed, effect
<1> QED BY <1>4, <1>5


-----------------------------------------------------------------------------
\* Whatever the info was read before, the cooldown a decision finds is what is
\* left of it, and every decision uses one slot of it.
LEMMA DecidedFacts ==
    ASSUME LoopInv, ~needsReset
    PROVE  LET d == Decided(DecisionInfo)
               cooling == since < CooldownTicks
               desired == Committed(pool)
           IN  /\ d = [cooldown |-> d.cooldown, consumed |-> d.consumed, decision |-> d.decision]
               /\ d.cooldown = Left(NextRank) /\ d.cooldown \in 0 .. CooldownTicks
               /\ d.consumed \in -1 .. clock - 1
               /\ CooldownTicks # 0 /\ info.kind = "step" => d.consumed = info.tick
               /\ d.decision.reason = Reason(DecisionInfo, desired, cooling)
               /\ d.decision.step = StepFor(d.decision.reason)
               /\ d.decision.code = CodeForStep(contract, d.decision.step, desired)
               /\ NextRank \in 1 .. NeverChanged
               /\ cooling <=> NextRank <= CooldownTicks
<1> DEFINE view == DecisionInfo
           noticed == Noticed(view)
           cooling == noticed.cooldown > 0
           reason == Reason(view, Committed(pool), cooling)
<1>1. /\ CooldownTicks \in Nat /\ clock \in Nat
      /\ view.counts.active + view.counts.pending = Committed(pool)
    BY LoopFacts DEF LoopInv
<1>2. /\ since \in 0 .. CooldownTicks + 1 /\ controller.cooldown \in 0 .. CooldownTicks
      /\ controller.consumed \in -1 .. clock - 1
      /\ controller = [cooldown |-> controller.cooldown, consumed |-> controller.consumed,
                       decision |-> controller.decision]
      /\ IF Unread THEN since = 0 ELSE controller.cooldown = Left(since)
    BY DEF LoopInv, CoolInv, NeverChanged
<1>3. /\ view.changed = (info.kind = "step") /\ view.tick = info.tick
      /\ info.kind = "step" => view.applied = info.applied /\ info.tick = clock - 1 /\ info.applied \in Int
    BY DEF DecisionInfo, LoopInv, InfoInv
<1> HIDE DEF view
<1>4. /\ noticed = [cooldown |-> noticed.cooldown, consumed |-> noticed.consumed,
                    decision |-> controller.decision]
      /\ noticed.cooldown \in 0 .. CooldownTicks /\ noticed.cooldown = Left(since)
      /\ noticed.consumed \in -1 .. clock - 1
      /\ CooldownTicks # 0 /\ info.kind = "step" => noticed.consumed = info.tick
    <2>1. CASE CooldownTicks = 0 \/ ~view.changed \/ view.tick = controller.consumed
        <3>1. noticed = controller
            BY <2>1 DEF Noticed
        <3>2. ~Unread
            BY <1>3, <2>1 DEF Unread
        <3> QED BY <1>2, <1>3, <2>1, <3>1, <3>2
    <2>2. CASE ~(CooldownTicks = 0 \/ ~view.changed \/ view.tick = controller.consumed)
        <3>1. noticed = [controller EXCEPT
                            !.consumed = view.tick,
                            !.cooldown = IF view.applied # 0 THEN CooldownTicks ELSE @]
            BY <2>2 DEF Noticed
        <3>2. noticed = [cooldown |-> IF view.applied # 0 THEN CooldownTicks ELSE controller.cooldown,
                         consumed |-> view.tick, decision |-> controller.decision]
            BY <1>2, <3>1
        <3>3. Unread <=> view.applied # 0
            BY <1>3, <2>2 DEF Unread
        <3>4. Left(0) = CooldownTicks
            BY <1>1 DEF Left, Larger
        <3>5. (IF view.applied # 0 THEN CooldownTicks ELSE controller.cooldown) = Left(since)
            BY <1>2, <3>3, <3>4
        <3>6. info.tick \in -1 .. clock - 1
            <4>1. info.tick = clock - 1
                BY <1>3, <2>2
            <4> QED BY <1>1, <4>1
        <3> HIDE DEF noticed
        <3> QED BY <1>1, <1>2, <1>3, <2>2, <3>2, <3>5, <3>6
    <2> QED BY <2>1, <2>2
<1>5. cooling <=> since < CooldownTicks
    BY <1>1, <1>2, <1>4 DEF Left, Larger
<1>6. Decided(view) =
        [noticed EXCEPT
            !.cooldown = IF cooling THEN @ - 1 ELSE @,
            !.decision = [reason |-> reason, desired |-> Committed(pool),
                          step |-> StepFor(reason),
                          code |-> CodeForStep(contract, StepFor(reason), Committed(pool))]]
    BY <1>1 DEF Decided
<1> HIDE DEF noticed, reason, cooling
<1>7. Decided(view) =
        [cooldown |-> IF cooling THEN noticed.cooldown - 1 ELSE noticed.cooldown,
         consumed |-> noticed.consumed,
         decision |-> [reason |-> reason, desired |-> Committed(pool),
                       step |-> StepFor(reason),
                       code |-> CodeForStep(contract, StepFor(reason), Committed(pool))]]
    BY <1>4, <1>6
<1>8. /\ NextRank \in 1 .. NeverChanged
      /\ since < CooldownTicks <=> NextRank <= CooldownTicks
      /\ Left(NextRank) \in 0 .. CooldownTicks
      /\ Left(NextRank) = IF since < CooldownTicks THEN Left(since) - 1 ELSE Left(since)
    BY <1>1, <1>2 DEF NextRank, NeverChanged, Smaller, Left, Larger
<1>9. reason = Reason(view, Committed(pool), since < CooldownTicks)
    <2>1. CASE cooling
        <3>1. Reason(view, Committed(pool), cooling) = Reason(view, Committed(pool), TRUE)
            BY <2>1 DEF Reason
        <3>2. Reason(view, Committed(pool), since < CooldownTicks) = Reason(view, Committed(pool), TRUE)
            BY <1>5, <2>1 DEF Reason
        <3> QED BY <3>1, <3>2 DEF reason
    <2>2. CASE ~cooling
        <3>1. Reason(view, Committed(pool), cooling) = Reason(view, Committed(pool), FALSE)
            BY <2>2 DEF Reason
        <3>2. Reason(view, Committed(pool), since < CooldownTicks) = Reason(view, Committed(pool), FALSE)
            BY <1>5, <2>2 DEF Reason
        <3> QED BY <3>1, <3>2 DEF reason
    <2> QED BY <2>1, <2>2
<1> QED BY <1>4, <1>5, <1>7, <1>8, <1>9 DEF view

\* What each reason stands for.
LEMMA ReasonFacts ==
    ASSUME NEW view, NEW desired \in Nat, NEW cooling \in BOOLEAN
    PROVE  LET r == Reason(view, desired, cooling)
           IN  /\ r \in Reasons /\ r # "none"
               /\ r \in Thresholds \cup {"cooldown"} => (r = "cooldown" <=> cooling)
               /\ StepFor(r) \in {SCALE_DOWN, HOLD, SCALE_UP}
               /\ ~view.sample => StepFor(r) = HOLD
               /\ view.sample /\ desired > CtlMax => StepFor(r) = SCALE_DOWN
               /\ view.sample /\ desired < CtlMin => StepFor(r) = SCALE_UP
               /\ desired <= CtlMax /\ CtlMin <= desired =>
                    /\ StepFor(r) = SCALE_UP => desired < CtlMax
                    /\ StepFor(r) = SCALE_DOWN => desired > CtlMin
<1>0. CtlMin \in Nat /\ CtlMax \in Nat /\ CtlMin <= CtlMax
    BY ControllerConfig
<1> DEFINE t == ThresholdReason(view.measured, desired)
           r == Reason(view, desired, cooling)
<1>1. /\ t \in Thresholds
      /\ t = "above_high" => desired < CtlMax
      /\ t = "below_low" => desired > CtlMin
    BY DEF ThresholdReason, Thresholds
<1> HIDE DEF t
<1>2. r = IF ~view.sample THEN "no_sample"
          ELSE IF desired > CtlMax THEN "above_max"
          ELSE IF desired < CtlMin THEN "below_min"
          ELSE IF cooling THEN "cooldown"
          ELSE t
    BY DEF Reason, t
<1> HIDE DEF r
<1>3. /\ r \in {"above_max", "below_low"} => StepFor(r) = SCALE_DOWN
      /\ r \in {"below_min", "above_high"} => StepFor(r) = SCALE_UP
      /\ r \notin {"above_max", "below_low", "below_min", "above_high"} => StepFor(r) = HOLD
    BY DEF StepFor
<1>4. SCALE_DOWN # HOLD /\ SCALE_UP # HOLD /\ SCALE_UP # SCALE_DOWN
    BY DEF SCALE_DOWN, HOLD, SCALE_UP
<1>5. r \in Reasons /\ r # "none" /\ (r \in Thresholds \cup {"cooldown"} => (r = "cooldown" <=> cooling))
    BY <1>1, <1>2 DEF Reasons, Thresholds
<1>6. StepFor(r) \in {SCALE_DOWN, HOLD, SCALE_UP}
    BY <1>3
<1>7. ~view.sample => StepFor(r) = HOLD
    BY <1>2, <1>3
<1>8. view.sample /\ desired > CtlMax => StepFor(r) = SCALE_DOWN
    BY <1>2, <1>3
<1>9. view.sample /\ desired < CtlMin => StepFor(r) = SCALE_UP
    <2>1. desired < CtlMin => ~(desired > CtlMax)
        BY <1>0
    <2> QED BY <1>2, <1>3, <2>1
<1>10. desired <= CtlMax /\ CtlMin <= desired => r \in {"no_sample", "cooldown", t}
    BY <1>0, <1>2
<1>11. desired <= CtlMax /\ CtlMin <= desired =>
          /\ StepFor(r) = SCALE_UP => desired < CtlMax
          /\ StepFor(r) = SCALE_DOWN => desired > CtlMin
    BY <1>1, <1>3, <1>4, <1>10 DEF Thresholds
<1> QED BY <1>5, <1>6, <1>7, <1>8, <1>9, <1>11 DEF r

-----------------------------------------------------------------------------
\* After a decision the cooldown has one slot less and the reason is exact.
LEMMA DecisionKeeps ==
    ASSUME LoopInv, ~needsReset, controller' = Decided(DecisionInfo), rank' = NextRank
    PROVE  /\ controller' = [cooldown |-> controller'.cooldown, consumed |-> controller'.consumed,
                             decision |-> controller'.decision]
           /\ controller'.cooldown = Left(NextRank) /\ controller'.cooldown \in 0 .. CooldownTicks
           /\ controller'.consumed \in -1 .. clock - 1
           /\ CooldownTicks # 0 /\ info.kind = "step" => controller'.consumed = info.tick
           /\ controller'.decision.reason \in Reasons /\ controller'.decision.reason # "none"
           /\ rank' \in 1 .. NeverChanged /\ CooldownExact'
           /\ controller'.decision.step \in {SCALE_DOWN, HOLD, SCALE_UP}
           /\ controller'.decision.code
                = CodeForStep(contract, controller'.decision.step, Committed(pool))
           /\ controller'.decision.code \in Codes(contract)
<1> DEFINE d == Decided(DecisionInfo)
           r == Reason(DecisionInfo, Committed(pool), since < CooldownTicks)
<1>1. /\ d = [cooldown |-> d.cooldown, consumed |-> d.consumed, decision |-> d.decision]
      /\ d.cooldown = Left(NextRank) /\ d.cooldown \in 0 .. CooldownTicks
      /\ d.consumed \in -1 .. clock - 1
      /\ CooldownTicks # 0 /\ info.kind = "step" => d.consumed = info.tick
      /\ d.decision.reason = r
      /\ d.decision.step = StepFor(d.decision.reason)
      /\ d.decision.code = CodeForStep(contract, d.decision.step, Committed(pool))
      /\ NextRank \in 1 .. NeverChanged
      /\ since < CooldownTicks <=> NextRank <= CooldownTicks
    BY DecidedFacts
<1>2. Committed(pool) \in Nat
    BY LoopFacts DEF LoopInv
<1>3. /\ r \in Reasons /\ r # "none"
      /\ r \in Thresholds \cup {"cooldown"} => (r = "cooldown" <=> since < CooldownTicks)
      /\ StepFor(r) \in {SCALE_DOWN, HOLD, SCALE_UP}
    <2> DEFINE cooling == since < CooldownTicks
    <2>1. cooling \in BOOLEAN
        OBVIOUS
    <2> HIDE DEF cooling
    <2>2. LET q == Reason(DecisionInfo, Committed(pool), cooling)
          IN  /\ q \in Reasons /\ q # "none"
              /\ q \in Thresholds \cup {"cooldown"} => (q = "cooldown" <=> cooling)
              /\ StepFor(q) \in {SCALE_DOWN, HOLD, SCALE_UP}
        BY <1>2, <2>1, ReasonFacts
    <2> QED BY <2>2 DEF cooling
<1> HIDE DEF d, r
<1>4. controller' = d
    BY DEF d
<1>5. CooldownExact'
    BY <1>1, <1>3, <1>4 DEF CooldownExact
<1>6. d.decision.code \in Codes(contract)
    BY <1>1, <1>3, StepCode DEF LoopInv
<1> QED BY <1>1, <1>3, <1>4, <1>5, <1>6

LEMMA LoopStep == ASSUME LoopInv, [LoopNext]_vars PROVE LoopInv'
<1>1. /\ CooldownTicks \in Nat /\ clock \in 0 .. EpisodeTicks /\ EpisodeTicks \in Nat
      /\ Left(NeverChanged) = 0 /\ NeverChanged \in Nat /\ NeverChanged >= 1
    BY LoopFacts DEF LoopInv, Left, NeverChanged, Larger
<1>2. CASE NewEpisode
    <2>1. Reset /\ controller' = FreshController /\ since' = NeverChanged /\ rank' = NeverChanged
        BY <1>2 DEF NewEpisode
    <2>2. EpisodeInv' /\ TelemetryInv'
        BY <2>1, ResetKeepsEpisode, ResetKeepsTelemetry DEF LoopInv
    <2>3. info'.kind = "reset" /\ clock' = 0
        BY <2>1 DEF Reset, ResetInfo
    <2>4. InfoInv'
        BY <2>3 DEF InfoInv
    <2>5. ~Unread' /\ Left(since)' = 0
        BY <1>1, <2>1, <2>3 DEF Unread, Left
    <2>6. CoolInv'
        BY <1>1, <2>1, <2>3, <2>5
        DEF CoolInv, FreshController, NoDecision, NoTick, CooldownExact, Thresholds, NeverChanged
    <2> QED BY <2>2, <2>4, <2>6 DEF LoopInv
<1>3. CASE Tick
    <2>1. /\ ~needsReset /\ controller' = Decided(DecisionInfo) /\ rank' = NextRank
          /\ Step(controller'.decision.code)
          /\ since' = IF info'.applied # 0 THEN 0 ELSE NextRank
        BY <1>3 DEF Tick
    <2>2. /\ controller'.decision.code \in Codes(contract)
          /\ controller' = [cooldown |-> controller'.cooldown, consumed |-> controller'.consumed,
                            decision |-> controller'.decision]
          /\ controller'.cooldown = Left(NextRank) /\ controller'.cooldown \in 0 .. CooldownTicks
          /\ controller'.consumed \in -1 .. clock - 1
          /\ controller'.decision.reason \in Reasons /\ controller'.decision.reason # "none"
          /\ rank' \in 1 .. NeverChanged /\ CooldownExact'
        BY <2>1, DecisionKeeps
    <2> DEFINE code == controller'.decision.code
    <2>3. code \in Codes(contract) /\ Step(code)
        BY <2>1, <2>2
    <2>4. EpisodeInv' /\ TelemetryInv'
        BY <2>3, StepKeepsEpisode, StepKeepsTelemetry DEF LoopInv
    <2>5. /\ clock' = clock + 1 /\ info'.kind = "step" /\ info'.tick = clock
          /\ info'.applied = Committed(Acted(code)) - Committed(pool)
        BY <2>3 DEF Step
    <2>6. info'.applied \in Int
        <3>1. Committed(Acted(code)) \in Int /\ Committed(pool) \in Int
            <4>1. PoolInv(Acted(code)) /\ PoolInv(pool)
                BY <2>1, <2>3, ActedInv DEF LoopInv, EpisodeInv
            <4> QED BY <4>1, ReplicaConfig DEF PoolInv
        <3> QED BY <2>5, <3>1
    <2>7. InfoInv'
        BY <1>1, <2>5, <2>6 DEF InfoInv
    <2>8. Unread' => info'.applied # 0
        BY DEF Unread
    <2>9. info'.applied # 0 /\ CooldownTicks # 0 => Unread'
        BY <1>1, <2>2, <2>5 DEF Unread
    <2>10. CooldownTicks = 0 => controller'.cooldown = Left(since')
        BY <1>1, <2>1, <2>2 DEF Left, Larger, NeverChanged
    <2>11. /\ since' \in 0 .. NeverChanged
           /\ IF Unread' THEN since' = 0 ELSE controller'.cooldown = Left(since')
        BY <1>1, <2>1, <2>2, <2>8, <2>9, <2>10
    <2>12. controller'.consumed \in -1 .. clock' - 1
        BY <1>1, <2>2, <2>5
    <2>13. CoolInv'
        BY <2>2, <2>11, <2>12 DEF CoolInv, Left, NeverChanged
    <2> QED BY <2>4, <2>7, <2>13 DEF LoopInv
<1>4. CASE Consult
    <2>1. /\ ~needsReset /\ controller' = Decided(DecisionInfo) /\ rank' = NextRank
          /\ since' = NextRank /\ UNCHANGED envVars
        BY <1>4 DEF Consult
    <2>2. /\ controller' = [cooldown |-> controller'.cooldown, consumed |-> controller'.consumed,
                            decision |-> controller'.decision]
          /\ controller'.cooldown = Left(NextRank) /\ controller'.cooldown \in 0 .. CooldownTicks
          /\ controller'.consumed \in -1 .. clock - 1
          /\ CooldownTicks # 0 /\ info.kind = "step" => controller'.consumed = info.tick
          /\ controller'.decision.reason \in Reasons /\ controller'.decision.reason # "none"
          /\ rank' \in 1 .. NeverChanged /\ CooldownExact'
        BY <2>1, DecisionKeeps
    <2>3. EpisodeInv' /\ TelemetryInv'
        BY <2>1, EnvStays DEF LoopInv
    <2>4. clock' = clock /\ info' = info
        BY <2>1 DEF envVars
    <2>5. InfoInv'
        BY <2>4 DEF LoopInv, InfoInv
    <2>6. ~Unread'
        BY <2>2, <2>4 DEF Unread
    <2>7. CoolInv'
        BY <1>1, <2>1, <2>2, <2>4, <2>6 DEF CoolInv, Left, NeverChanged
    <2> QED BY <2>3, <2>5, <2>7 DEF LoopInv
<1>5. CASE UNCHANGED vars
    <2>1. UNCHANGED envVars /\ UNCHANGED <<controller, since, rank, info, clock>>
        BY <1>5 DEF vars, envVars
    <2>2. EpisodeInv' /\ TelemetryInv'
        BY <2>1, EnvStays DEF LoopInv
    <2>3. InfoInv' /\ CoolInv'
        BY <2>1 DEF LoopInv, InfoInv, CoolInv, Unread, CooldownExact, Left, NeverChanged
    <2> QED BY <2>2, <2>3 DEF LoopInv
<1> QED BY <1>2, <1>3, <1>4, <1>5 DEF LoopNext

\* The loop keeps its invariant through every episode.
THEOREM LoopInvariant == LoopSpec => []LoopInv
<1>1. LoopInit => LoopInv
    <2> SUFFICES ASSUME LoopInit PROVE LoopInv
        OBVIOUS
    <2>1. EpisodeInv /\ TelemetryInv
        BY InitHolds DEF LoopInit
    <2>2. info.kind = "none" /\ clock = 0
        BY DEF LoopInit, Init, NoInfo
    <2>3. InfoInv
        BY <2>2 DEF InfoInv
    <2>4. /\ CooldownTicks \in Nat /\ NeverChanged \in Nat /\ NeverChanged >= 1
          /\ Left(NeverChanged) = 0
        BY ControllerConfig DEF NeverChanged, Left, Larger
    <2>5. ~Unread
        BY <2>2 DEF Unread
    <2>6. CoolInv
        BY <2>2, <2>4, <2>5
        DEF LoopInit, CoolInv, FreshController, NoDecision, NoTick, CooldownExact, Thresholds
    <2> QED BY <2>1, <2>3, <2>6 DEF LoopInv
<1> QED BY <1>1, LoopStep, PTL DEF LoopSpec

\* Controller and history keep their types; a cooldown never overruns.
THEOREM LoopTypes == LoopSpec => []LoopTypeOK
<1>1. LoopInv => LoopTypeOK
    <2> SUFFICES ASSUME LoopInv PROVE LoopTypeOK
        OBVIOUS
    <2>1. clock \in 0 .. EpisodeTicks /\ EpisodeTicks \in Nat
        BY LoopFacts DEF LoopInv
    <2>2. controller.consumed \in -1 .. EpisodeTicks - 1
        BY <2>1 DEF LoopInv, CoolInv
    <2> QED BY <2>2 DEF LoopInv, CoolInv, LoopTypeOK
<1> QED BY <1>1, LoopInvariant, PTL

\* A cooldown holds exactly the configured number of decisions.
THEOREM CooldownIsExact == LoopSpec => []CooldownExact
<1>1. LoopInv => CooldownExact
    BY DEF LoopInv, CoolInv
<1> QED BY <1>1, LoopInvariant, PTL

\* A decision moves the fleet alike under both contracts, or not at all.
THEOREM StepsMeanTheSame == LoopSpec => StepMeansTheSame
<1>1. LoopInv /\ [LoopNext]_vars =>
        [clock' = clock + 1 =>
            LET effect == DELTA_EFFECTS[controller'.decision.step]
            IN  info'.applied = IF Committed(pool) + effect \in MinReplicas .. MaxReplicas
                                THEN effect ELSE 0]_vars
    <2> SUFFICES ASSUME LoopInv, LoopNext, clock' = clock + 1
                 PROVE  info'.applied =
                            IF Committed(pool) + DELTA_EFFECTS[controller'.decision.step]
                                    \in MinReplicas .. MaxReplicas
                            THEN DELTA_EFFECTS[controller'.decision.step] ELSE 0
        BY DEF vars
    <2>1. clock \in Nat
        BY LoopFacts DEF LoopInv
    <2>2. Tick
        <3>1. ~NewEpisode
            BY <2>1 DEF NewEpisode, Reset
        <3>2. ~Consult
            BY <2>1 DEF Consult, envVars
        <3> QED BY <3>1, <3>2 DEF LoopNext
    <2> DEFINE code == controller'.decision.code
               delta == controller'.decision.step
               target == TargetFor(contract, code, Committed(pool))
    <2>3. /\ ~needsReset /\ delta \in {SCALE_DOWN, HOLD, SCALE_UP}
          /\ code = CodeForStep(contract, delta, Committed(pool)) /\ code \in Codes(contract)
        BY <2>2, DecisionKeeps DEF Tick
    <2>4. info'.applied = Committed(Acted(code)) - Committed(pool)
        BY <2>2 DEF Tick, Step
    <2>5. Committed(Acted(code)) = target
        BY <2>3, ActedInv DEF LoopInv
    <2>6. /\ DELTA_EFFECTS[delta] \in {-1, 0, 1}
          /\ target = IF Committed(pool) + DELTA_EFFECTS[delta] \in MinReplicas .. MaxReplicas
                      THEN Committed(pool) + DELTA_EFFECTS[delta] ELSE Committed(pool)
        BY <2>3, StepCode DEF LoopInv
    <2>7. Committed(pool) \in Int
        BY LoopFacts DEF LoopInv
    <2> HIDE DEF target, code, delta
    <2>8. info'.applied = IF Committed(pool) + DELTA_EFFECTS[delta] \in MinReplicas .. MaxReplicas
                          THEN DELTA_EFFECTS[delta] ELSE 0
        BY <2>4, <2>5, <2>6, <2>7
    <2> QED BY <2>8 DEF delta
<1> QED BY <1>1, LoopInvariant, PTL DEF LoopSpec, StepMeansTheSame
-----------------------------------------------------------------------------
\* The controller sees a sample once a tick is as old as the telemetry delay.
LEMMA SampleSeen ==
    ASSUME EpisodeInv, TelemetryInv
    PROVE  DecisionInfo.sample = (clock > TelemetryDelay)
<1>1. /\ clock \in Nat /\ TelemetryDelay \in Nat /\ HistoryTicks \in Nat \ {0}
    BY EnvConfig DEF EpisodeInv
<1>2. Len(VisibleTelemetry) = Smaller(HistoryTicks, Larger(0, clock - TelemetryDelay))
    BY DelayedView DEF VisibleIsDelayedTruth
<1>3. VisibleTelemetry \in Seq(Snapshot)
    BY <1>1 DEF VisibleTelemetry, TelemetryInv, Smaller, BufferSize
<1>4. Len(VisibleTelemetry) = 0 <=> VisibleTelemetry = <<>>
    BY <1>3, EmptySeq
<1>5. Len(VisibleTelemetry) = 0 <=> clock <= TelemetryDelay
    BY <1>1, <1>2 DEF Smaller, Larger
<1> QED BY <1>1, <1>4, <1>5 DEF DecisionInfo

\* A decision on a capacity c brings it one replica closer to the bounds, if
\* there is a sample, and never takes it out of them.
LEMMA OneCloser ==
    ASSUME NEW view, NEW c \in MinReplicas .. MaxReplicas, NEW cooling \in BOOLEAN,
           MinReplicas \in Nat, MaxReplicas \in Nat,
           CtlMin <= MaxReplicas, MinReplicas <= CtlMax
    PROVE  LET moved == c + DELTA_EFFECTS[StepFor(Reason(view, c, cooling))]
               next == IF moved \in MinReplicas .. MaxReplicas THEN moved ELSE c
           IN  /\ ~view.sample => Outside(next) = Outside(c)
               /\ view.sample => Outside(next) = Larger(0, Outside(c) - 1)
<1> DEFINE step == StepFor(Reason(view, c, cooling))
           effect == DELTA_EFFECTS[step]
<1>1. CtlMin \in Nat /\ CtlMax \in Nat /\ CtlMin <= CtlMax /\ c \in Nat
    BY ControllerConfig
<1>2. LET r == Reason(view, c, cooling)
      IN  /\ StepFor(r) \in {SCALE_DOWN, HOLD, SCALE_UP}
          /\ ~view.sample => StepFor(r) = HOLD
          /\ view.sample /\ c > CtlMax => StepFor(r) = SCALE_DOWN
          /\ view.sample /\ c < CtlMin => StepFor(r) = SCALE_UP
          /\ c <= CtlMax /\ CtlMin <= c =>
                /\ StepFor(r) = SCALE_UP => c < CtlMax
                /\ StepFor(r) = SCALE_DOWN => c > CtlMin
    BY <1>1, ReasonFacts
<1>3. /\ step \in {SCALE_DOWN, HOLD, SCALE_UP}
      /\ ~view.sample => step = HOLD
      /\ view.sample /\ c > CtlMax => step = SCALE_DOWN
      /\ view.sample /\ c < CtlMin => step = SCALE_UP
      /\ c <= CtlMax /\ CtlMin <= c =>
            (step = SCALE_UP => c < CtlMax) /\ (step = SCALE_DOWN => c > CtlMin)
    BY <1>2
<1> HIDE DEF step
<1>4. /\ step = SCALE_DOWN => effect = -1
      /\ step = HOLD => effect = 0
      /\ step = SCALE_UP => effect = 1
    BY DEF DELTA_EFFECTS, SCALE_DOWN, HOLD, SCALE_UP
<1> HIDE DEF effect
<1> DEFINE next == IF c + effect \in MinReplicas .. MaxReplicas THEN c + effect ELSE c
<1>5. ~view.sample => next = c
    BY <1>1, <1>3, <1>4
<1>6. view.sample => Outside(next) = Larger(0, Outside(c) - 1)
    <2> SUFFICES ASSUME view.sample PROVE Outside(next) = Larger(0, Outside(c) - 1)
        OBVIOUS
    <2>1. CASE c > CtlMax
        <3>1. next = c - 1
            BY <1>1, <1>3, <1>4, <2>1
        <3> QED BY <1>1, <2>1, <3>1 DEF Outside, Larger
    <2>2. CASE c < CtlMin
        <3>1. next = c + 1
            BY <1>1, <1>3, <1>4, <2>2
        <3> QED BY <1>1, <2>2, <3>1 DEF Outside, Larger
    <2>3. CASE c <= CtlMax /\ CtlMin <= c
        <3>1. next \in CtlMin .. CtlMax
            BY <1>1, <1>3, <1>4, <2>3
        <3> QED BY <1>1, <2>3, <3>1 DEF Outside, Larger
    <2> QED BY <1>1, <2>1, <2>2, <2>3
<1> QED BY <1>5, <1>6 DEF next, effect, step

\* One tick moves the committed capacity as its decision says.
LEMMA TickMoves ==
    ASSUME LoopInv, Tick
    PROVE  LET d == DELTA_EFFECTS[StepFor(Reason(DecisionInfo, Committed(pool),
                                                 since < CooldownTicks))]
           IN  /\ clock' = clock + 1
               /\ Committed(pool)' = IF Committed(pool) + d \in MinReplicas .. MaxReplicas
                                     THEN Committed(pool) + d ELSE Committed(pool)
<1> DEFINE code == controller'.decision.code
           delta == controller'.decision.step
<1>1. /\ ~needsReset /\ controller' = Decided(DecisionInfo) /\ rank' = NextRank /\ Step(code)
    BY DEF Tick
<1>2. /\ delta \in {SCALE_DOWN, HOLD, SCALE_UP}
      /\ code = CodeForStep(contract, delta, Committed(pool)) /\ code \in Codes(contract)
    BY <1>1, DecisionKeeps
<1>3. delta = StepFor(Reason(DecisionInfo, Committed(pool), since < CooldownTicks))
    BY <1>1, DecidedFacts
<1>4. EpisodeInv'
    BY <1>1, <1>2, StepKeepsEpisode DEF LoopInv
<1>5. /\ clock' = clock + 1 /\ info'.kind = "step"
      /\ info'.target = TargetFor(contract, code, Committed(pool))
    BY <1>1 DEF Step
<1>6. Committed(pool)' = TargetFor(contract, code, Committed(pool))
    BY <1>4, <1>5 DEF EpisodeInv, TargetReached
<1>7. TargetFor(contract, code, Committed(pool))
        = IF Committed(pool) + DELTA_EFFECTS[delta] \in MinReplicas .. MaxReplicas
          THEN Committed(pool) + DELTA_EFFECTS[delta] ELSE Committed(pool)
    BY <1>2, StepCode DEF LoopInv
<1> QED BY <1>3, <1>5, <1>6, <1>7

\* Capacity outside the controller's bounds is corrected by one replica in every
\* tick that has a sample, and in no other.
THEOREM CorrectedTickByTick == LoopSpec => []CorrectedOnePerTick
<1> DEFINE Overlap == CtlMin <= MaxReplicas /\ MinReplicas <= CtlMax
           Excess == Outside(InitialReplicas)
<1>0. Excess \in Nat /\ TelemetryDelay \in Nat /\ FreshPool.active = InitialReplicas
      /\ Committed(FreshPool) = InitialReplicas
    BY ControllerConfig, ReplicaConfig, EnvConfig DEF Outside, Larger, FreshPool, Committed
<1>1. ASSUME pool = FreshPool, clock = 0 PROVE CorrectedOnePerTick
    <2>1. Larger(0, Excess - Larger(0, clock - TelemetryDelay - 1)) = Excess
        BY <1>0, <1>1 DEF Larger
    <2> QED BY <1>0, <1>1, <2>1 DEF CorrectedOnePerTick
<1>2. LoopInit => CorrectedOnePerTick
    BY <1>1 DEF LoopInit, Init
<1>3. LoopInv /\ CorrectedOnePerTick /\ [LoopNext]_vars => CorrectedOnePerTick'
    <2> SUFFICES ASSUME LoopInv, CorrectedOnePerTick, [LoopNext]_vars
                 PROVE  CorrectedOnePerTick'
        OBVIOUS
    <2>1. CASE NewEpisode
        <3>1. pool' = FreshPool /\ clock' = 0
            BY <2>1 DEF NewEpisode, Reset
        <3>2. Larger(0, Excess - Larger(0, clock' - TelemetryDelay - 1)) = Excess
            BY <1>0, <3>1 DEF Larger
        <3>3. Committed(pool)' = InitialReplicas
            BY <1>0, <3>1 DEF Committed
        <3> QED BY <3>2, <3>3 DEF CorrectedOnePerTick
    <2>2. CASE Tick
        <3> SUFFICES ASSUME Overlap
                     PROVE  Outside(Committed(pool)')
                                = Larger(0, Excess - Larger(0, clock' - TelemetryDelay - 1))
            BY DEF CorrectedOnePerTick, Outside
        <3> DEFINE cooling == since < CooldownTicks
                   c == Committed(pool)
                   moved == c + DELTA_EFFECTS[StepFor(Reason(DecisionInfo, c, cooling))]
                   next == IF moved \in MinReplicas .. MaxReplicas THEN moved ELSE c
        <3>1. clock' = clock + 1 /\ Committed(pool)' = next
            BY <2>2, TickMoves
        <3>2. /\ c \in MinReplicas .. MaxReplicas /\ MinReplicas \in Nat /\ MaxReplicas \in Nat
              /\ cooling \in BOOLEAN /\ clock \in Nat
            BY LoopFacts DEF LoopInv
        <3> HIDE DEF c, cooling
        <3>3. /\ ~DecisionInfo.sample => Outside(next) = Outside(c)
              /\ DecisionInfo.sample => Outside(next) = Larger(0, Outside(c) - 1)
            BY <3>2, OneCloser
        <3>4. DecisionInfo.sample = (clock > TelemetryDelay)
            BY SampleSeen DEF LoopInv
        <3>5. Outside(c) = Larger(0, Excess - Larger(0, clock - TelemetryDelay - 1))
            BY DEF CorrectedOnePerTick, c
        <3>6. Outside(Committed(pool)') = Outside(next)
            BY <3>1
        <3> HIDE DEF next
        <3>7. CASE clock > TelemetryDelay
            <4>1. Outside(next) = Larger(0, Outside(c) - 1)
                BY <3>3, <3>4, <3>7
            <4>2. \A s, k \in Nat : Larger(0, Larger(0, s - k) - 1) = Larger(0, s - (k + 1))
                BY DEF Larger
            <4> DEFINE k == clock - TelemetryDelay - 1
            <4>3. /\ k \in Nat /\ Larger(0, k) = k
                  /\ Larger(0, clock + 1 - TelemetryDelay - 1) = k + 1
                BY <1>0, <3>2, <3>7 DEF Larger
            <4>4. Outside(c) = Larger(0, Excess - k)
                BY <3>5, <4>3
            <4>5. Larger(0, clock' - TelemetryDelay - 1) = k + 1
                BY <1>0, <3>1, <3>2, <4>3
            <4> HIDE DEF Excess, k
            <4>6. Larger(0, Larger(0, Excess - k) - 1) = Larger(0, Excess - (k + 1))
                BY <1>0, <4>2, <4>3
            <4> QED BY <3>6, <4>1, <4>4, <4>5, <4>6
        <3>8. CASE ~(clock > TelemetryDelay)
            <4>1. /\ Larger(0, clock - TelemetryDelay - 1) = 0
                  /\ Larger(0, clock + 1 - TelemetryDelay - 1) = 0
                BY <1>0, <3>2, <3>8 DEF Larger
            <4>2. Outside(next) = Outside(c)
                BY <3>3, <3>4, <3>8
            <4> QED BY <1>0, <3>1, <3>2, <3>5, <3>6, <4>1, <4>2
        <3> QED BY <3>7, <3>8
    <2>3. CASE Consult \/ UNCHANGED vars
        <3>1. pool' = pool /\ clock' = clock
            BY <2>3 DEF Consult, vars, envVars
        <3> QED BY <3>1 DEF CorrectedOnePerTick, Committed
    <2> QED BY <2>1, <2>2, <2>3 DEF LoopNext
<1> QED BY <1>2, <1>3, LoopInvariant, PTL DEF LoopSpec

-----------------------------------------------------------------------------
(* The forecasting controllers. First that every forecast is a fraction,   *)
(* so that what is sized for it is a number of replicas: no line through   *)
(* samples of different ticks is vertical, and a median exists.            *)
Fraction(a) == a.num \in Int /\ a.den \in Nat \ {0}

LEMMA PositiveProduct ==
    ASSUME NEW a \in Nat \ {0}, NEW b \in Nat \ {0}
    PROVE  a * b \in Nat \ {0}
OBVIOUS

LEMMA FractionsOf ==
    /\ \A n \in Int : Fraction(Whole(n))
    /\ \A a, b : Fraction(a) /\ Fraction(b) =>
        /\ Fraction(Greater(a, b)) /\ Fraction(Plus(a, b)) /\ Fraction(Times(a, b))
<1>1. \A n \in Int : Fraction(Whole(n))
    BY DEF Fraction, Whole
<1>2. ASSUME NEW a, NEW b, Fraction(a), Fraction(b)
      PROVE  Fraction(Greater(a, b)) /\ Fraction(Plus(a, b)) /\ Fraction(Times(a, b))
    <2>1. a.num \in Int /\ b.num \in Int /\ a.den * b.den \in Nat \ {0}
          /\ a.den \in Int /\ b.den \in Int
        BY <1>2, PositiveProduct DEF Fraction
    <2>2. Fraction(Plus(a, b)) /\ Fraction(Times(a, b))
        BY <2>1 DEF Fraction, Plus, Times
    <2>3. Fraction(Greater(a, b))
        BY <1>2 DEF Greater
    <2> QED BY <2>2, <2>3
<1> QED BY <1>1, <1>2

\* The sum of a sequence that is given entry by entry.
LEMMA SumOf ==
    ASSUME NEW n \in Nat, NEW s \in [1 .. n -> Int]
    PROVE  /\ Total(s) \in Int
           /\ Total(s) = RunningSums(s)[n]
           /\ RunningSums(s)[0] = 0
           /\ \A k \in 1 .. n : RunningSums(s)[k] = RunningSums(s)[k - 1] + s[k]
           /\ \A k \in 0 .. n : RunningSums(s)[k] \in Int
<1>1. Len(s) = n /\ \A k \in 1 .. n : s[k] \in Int
    OBVIOUS
<1>2. /\ RunningSums(s)[0] = 0
      /\ \A k \in 1 .. n : RunningSums(s)[k] = RunningSums(s)[k - 1] + s[k]
      /\ \A k \in 0 .. n : RunningSums(s)[k] \in Int
      /\ Total(s) = RunningSums(s)[n]
    BY <1>1, SumsAre, Zenon
<1>3. n \in 0 .. n
    OBVIOUS
<1> QED BY <1>2, <1>3

\* The sum of the squared distances of x from k different numbers is at least k.
LEMMA DistancesAdd ==
    ASSUME NEW n \in Nat, NEW t \in [1 .. n -> Int], NEW q \in [1 .. n -> Int],
           \A k \in 1 .. n : q[k] = t[k] * t[k],
           NEW x \in Int, NEW m \in 0 .. n, \A k \in 1 .. m : t[k] # x
    PROVE  RunningSums(q)[m] - 2 * x * RunningSums(t)[m] + m * x * x >= m
<1> DEFINE S == RunningSums(t)
           Q == RunningSums(q)
           P == {k \in Nat : k <= m => Q[k] - 2 * x * S[k] + k * x * x >= k}
<1>1. /\ S[0] = 0 /\ Q[0] = 0
      /\ \A k \in 1 .. n : S[k] = S[k - 1] + t[k] /\ Q[k] = Q[k - 1] + q[k]
      /\ \A k \in 0 .. n : S[k] \in Int /\ Q[k] \in Int
    <2>1. /\ S[0] = 0 /\ \A k \in 1 .. n : S[k] = S[k - 1] + t[k]
          /\ \A k \in 0 .. n : S[k] \in Int
        BY SumOf
    <2>2. /\ Q[0] = 0 /\ \A k \in 1 .. n : Q[k] = Q[k - 1] + q[k]
          /\ \A k \in 0 .. n : Q[k] \in Int
        BY SumOf
    <2> QED BY <2>1, <2>2
<1> HIDE DEF S, Q
<1>2. 0 \in P
    BY <1>1
<1>3. ASSUME NEW k \in Nat, k \in P PROVE k + 1 \in P
    <2> SUFFICES ASSUME k + 1 <= m
                 PROVE  Q[k + 1] - 2 * x * S[k + 1] + (k + 1) * x * x >= k + 1
        OBVIOUS
    <2>1. k + 1 \in 1 .. n /\ (k + 1) - 1 = k /\ k \in 0 .. n /\ k + 1 \in 1 .. m
        OBVIOUS
    <2>2. PICK s \in Int, p \in Int, y \in Int : s = S[k] /\ p = Q[k] /\ y = t[k + 1]
        BY <1>1, <2>1
    <2>3. S[k + 1] = s + y /\ Q[k + 1] = p + y * y /\ y # x
        BY <1>1, <2>1, <2>2
    <2>4. p - 2 * x * s + k * x * x >= k
        BY <1>3, <2>1, <2>2
    <2>5. PICK e \in Nat \ {0} : (y - x) * (y - x) = e
        <3>1. PICK d \in Int : d = y - x /\ d # 0
            BY <2>3
        <3>2. d * d \in Nat \ {0}
            <4>1. CASE d > 0
                <5>1. d \in Nat \ {0}
                    BY <3>1, <4>1
                <5> QED BY <5>1, PositiveProduct
            <4>2. CASE d < 0
                <5>1. -d \in Nat \ {0} /\ (-d) * (-d) = d * d
                    BY <3>1, <4>2
                <5> QED BY <5>1, PositiveProduct
            <4> QED BY <3>1, <4>1, <4>2
        <3>3. PICK e \in Nat \ {0} : e = d * d
            BY <3>2, Zenon
        <3>4. (y - x) * (y - x) = e
            BY <3>1, <3>3
        <3> QED BY <3>3, <3>4
    <2>6. (p + y * y) - 2 * x * (s + y) + (k + 1) * x * x
            = (p - 2 * x * s + k * x * x) + e
        BY <2>5
    <2>7. p - 2 * x * s + k * x * x \in Int
        OBVIOUS
    <2> QED BY <2>3, <2>4, <2>5, <2>6, <2>7
<1>4. \A k \in Nat : k \in P
    <2> HIDE DEF P
    <2> QED BY <1>2, <1>3, Inductive
<1>5. m \in Nat /\ m <= m
    OBVIOUS
<1> QED BY <1>4, <1>5 DEF S, Q

\* The denominator of the least-squares line through two or more different ticks.
LEMMA NeverVertical ==
    ASSUME NEW n \in Nat, n >= 2, NEW t \in [1 .. n -> Int], NEW q \in [1 .. n -> Int],
           \A k \in 1 .. n : q[k] = t[k] * t[k],
           \A j, k \in 1 .. n : j < k => t[j] # t[k]
    PROVE  n * Total(q) - Total(t) * Total(t) \in Nat \ {0}
<1> DEFINE S == RunningSums(t)
           Q == RunningSums(q)
           P == {k \in Nat : k + 1 <= n =>
                    (k + 1) * Q[k + 1] - S[k + 1] * S[k + 1] >= k}
<1>1. /\ S[0] = 0 /\ Q[0] = 0
      /\ \A k \in 1 .. n : S[k] = S[k - 1] + t[k] /\ Q[k] = Q[k - 1] + q[k]
      /\ \A k \in 0 .. n : S[k] \in Int /\ Q[k] \in Int
      /\ Total(t) = S[n] /\ Total(q) = Q[n]
    BY SumOf
<1>2. \A m \in 0 .. n : \A x \in Int :
        (\A k \in 1 .. m : t[k] # x) => Q[m] - 2 * x * S[m] + m * x * x >= m
    BY DistancesAdd
<1> HIDE DEF S, Q
<1>3. 0 \in P
    <2>1. PICK y \in Int : y = t[1]
        OBVIOUS
    <2>2. S[1] = y /\ Q[1] = y * y
        <3>1. 1 \in 1 .. n /\ 1 - 1 = 0
            OBVIOUS
        <3>2. S[1] = 0 + y /\ Q[1] = 0 + y * y
            BY <1>1, <2>1, <3>1
        <3> QED BY <3>2
    <2> QED BY <2>2
<1>4. ASSUME NEW j \in Nat, j \in P PROVE j + 1 \in P
    <2> SUFFICES ASSUME (j + 1) + 1 <= n
                 PROVE  ((j + 1) + 1) * Q[(j + 1) + 1]
                            - S[(j + 1) + 1] * S[(j + 1) + 1] >= j + 1
        OBVIOUS
    <2>1. PICK k \in Nat : k = j + 1
        OBVIOUS
    <2>2. k + 1 \in 1 .. n /\ (k + 1) - 1 = k /\ k \in 0 .. n /\ k >= 1
        BY <2>1
    <2>3. PICK s \in Int, p \in Int, y \in Int : s = S[k] /\ p = Q[k] /\ y = t[k + 1]
        BY <1>1, <2>2
    <2>4. S[k + 1] = s + y /\ Q[k + 1] = p + y * y
        BY <1>1, <2>2, <2>3
    <2>5. k * p - s * s >= j
        BY <1>4, <2>1, <2>2, <2>3
    <2>6. p - 2 * y * s + k * y * y >= k
        <3>1. ASSUME NEW i \in 1 .. k PROVE t[i] # y
            <4>1. i \in 1 .. n /\ i < k + 1
                BY <2>2
            <4> QED BY <2>2, <2>3, <4>1
        <3> QED BY <1>2, <2>2, <2>3, <3>1
    <2>7. (k + 1) * (p + y * y) - (s + y) * (s + y)
            = (k * p - s * s) + (p - 2 * y * s + k * y * y)
        OBVIOUS
    <2>8. k * p - s * s \in Int /\ p - 2 * y * s + k * y * y \in Int
        OBVIOUS
    <2>9. (k + 1) * (p + y * y) - (s + y) * (s + y) >= j + 1
        BY <2>1, <2>5, <2>6, <2>7, <2>8
    <2> QED BY <2>1, <2>4, <2>9
<1>5. \A k \in Nat : k \in P
    <2> HIDE DEF P
    <2> QED BY <1>3, <1>4, Inductive
<1>6. n * Q[n] - S[n] * S[n] >= n - 1
    <2>1. n - 1 \in Nat /\ (n - 1) + 1 = n
        OBVIOUS
    <2>2. n - 1 \in P
        BY <1>5, <2>1
    <2> QED BY <2>1, <2>2
<1>7. n * Q[n] - S[n] * S[n] \in Int
    <2>1. S[n] \in Int /\ Q[n] \in Int
        BY <1>1
    <2> QED BY <2>1
<1> QED
    <2>1. PICK d \in Int : d = n * Q[n] - S[n] * S[n]
        BY <1>7
    <2>2. d \in Nat \ {0}
        BY <1>6, <2>1
    <2>3. n * Total(q) - Total(t) * Total(t) = d
        BY <1>1, <2>1
    <2> QED BY <2>2, <2>3

\* Fractions in order.
LEMMA LessIsOrder ==
    ASSUME NEW a, NEW b, NEW c, Fraction(a), Fraction(b), Fraction(c)
    PROVE  /\ ~Less(a, a)
           /\ Less(a, b) => ~Less(b, a)
           /\ Less(a, b) /\ ~Less(c, b) => Less(a, c)
           /\ ~Less(b, a) /\ ~Less(c, b) => ~Less(c, a)
<1>1. PICK p \in Int, q \in Nat \ {0}, r \in Int, s \in Nat \ {0}, t \in Int, u \in Nat \ {0} :
        /\ p = a.num /\ q = a.den /\ r = b.num /\ s = b.den /\ t = c.num /\ u = c.den
    BY DEF Fraction
<1>2. /\ Less(a, a) <=> p * q < p * q
      /\ Less(a, b) <=> p * s < r * q
      /\ Less(b, a) <=> r * q < p * s
      /\ Less(c, b) <=> t * s < r * u
      /\ Less(a, c) <=> p * u < t * q
      /\ Less(c, a) <=> t * q < p * u
    BY <1>1 DEF Less
<1>3. /\ p * q \in Int /\ p * s \in Int /\ r * q \in Int
      /\ t * s \in Int /\ r * u \in Int /\ p * u \in Int /\ t * q \in Int
    BY <1>1
<1>4. /\ (p * u) * s = (p * s) * u /\ (t * q) * s = (t * s) * q
      /\ (r * q) * u = (r * u) * q
    BY <1>1
<1>5. ASSUME NEW x \in Int, NEW y \in Int, NEW k \in Nat \ {0}, x < y
      PROVE  x * k < y * k
    <2>1. PICK d \in Nat \ {0} : y = x + d
        <3>1. y - x \in Nat \ {0}
            BY <1>5
        <3> QED BY <3>1
    <2>2. y * k = x * k + d * k /\ d * k \in Nat \ {0} /\ x * k \in Int
        BY <2>1, PositiveProduct
    <2> QED BY <2>2
<1>6. ASSUME NEW x \in Int, NEW y \in Int, NEW k \in Nat \ {0}, x <= y
      PROVE  x * k <= y * k
    <2>1. CASE x < y
        <3>1. x * k < y * k /\ x * k \in Int /\ y * k \in Int
            BY <2>1, <1>5
        <3> QED BY <3>1
    <2>2. CASE x = y
        BY <2>2
    <2> QED BY <1>6, <2>1, <2>2
<1>7. ASSUME NEW x \in Int, NEW y \in Int, NEW k \in Nat \ {0}, x * k < y * k
      PROVE  x < y
    <2>1. x <= y \/ y <= x
        OBVIOUS
    <2>2. ~(y <= x)
        <3> SUFFICES ASSUME y <= x PROVE FALSE
            OBVIOUS
        <3>1. y * k <= x * k /\ x * k \in Int /\ y * k \in Int
            BY <1>6
        <3> QED BY <1>7, <3>1
    <2> QED BY <2>1, <2>2
<1>8. Less(a, b) /\ ~Less(c, b) => Less(a, c)
    <2> SUFFICES ASSUME p * s < r * q, ~(t * s < r * u) PROVE p * u < t * q
        BY <1>2
    <2>1. (p * s) * u < (r * q) * u
        BY <1>1, <1>3, <1>5
    <2>2. (r * u) * q <= (t * s) * q
        BY <1>1, <1>3, <1>6
    <2>3. (p * u) * s < (t * q) * s
        <3>1. /\ (p * u) * s \in Int /\ (t * q) * s \in Int
              /\ (r * u) * q \in Int /\ (r * q) * u \in Int
            BY <1>3
        <3> QED BY <1>4, <2>1, <2>2, <3>1
    <2> QED BY <1>1, <1>3, <1>7, <2>3
<1>9. ~Less(b, a) /\ ~Less(c, b) => ~Less(c, a)
    <2> SUFFICES ASSUME ~(r * q < p * s), ~(t * s < r * u) PROVE ~(t * q < p * u)
        BY <1>2
    <2> SUFFICES ASSUME t * q < p * u PROVE FALSE
        OBVIOUS
    <2>1. (t * q) * s < (p * u) * s
        BY <1>1, <1>3, <1>5
    <2>2. (r * u) * q <= (t * s) * q /\ (p * s) * u <= (r * q) * u
        BY <1>1, <1>3, <1>6
    <2>3. /\ (p * u) * s \in Int /\ (t * q) * s \in Int
          /\ (r * u) * q \in Int /\ (r * q) * u \in Int
        BY <1>3
    <2> QED BY <1>4, <2>1, <2>2, <2>3
<1>10. ~(p * q < p * q) /\ (p * s < r * q => ~(r * q < p * s))
    BY <1>3
<1> QED BY <1>2, <1>8, <1>9, <1>10, Zenon

\* In a sequence of fractions every place is taken by one of them.
LEMMA EveryPlaceTaken ==
    ASSUME NEW n \in Nat, NEW f, DOMAIN f = 1 .. n, \A i \in 1 .. n : Fraction(f[i]),
           NEW k \in 1 .. n
    PROVE  Fraction(Sorted(f, k))
<1> DEFINE Upto1(i) == {j \in 1 .. n : Less(f[j], f[i]) \/ (~Less(f[i], f[j]) /\ j <= i)}
           place == [i \in 1 .. n |-> Cardinality(Upto1(i))]
<1>1. IsFiniteSet(1 .. n) /\ Cardinality(1 .. n) = n
    BY FS_Interval
<1>2. ASSUME NEW i \in 1 .. n
      PROVE  /\ IsFiniteSet(Upto1(i)) /\ Cardinality(Upto1(i)) \in 1 .. n
             /\ i \in Upto1(i) /\ Place(f, i) = Cardinality(Upto1(i))
    <2>1. i \in Upto1(i)
        BY LessIsOrder
    <2>2. IsFiniteSet(Upto1(i)) /\ Cardinality(Upto1(i)) <= n /\ Cardinality(Upto1(i)) \in Nat
        BY <1>1, FS_Subset, FS_CardinalityType
    <2>3. Cardinality(Upto1(i)) # 0
        BY <2>1, <2>2, FS_EmptySet
    <2>4. Place(f, i) = Cardinality(Upto1(i))
        BY DEF Place
    <2> QED BY <2>1, <2>2, <2>3, <2>4
<1>3. ASSUME NEW i \in 1 .. n, NEW j \in 1 .. n,
             Less(f[i], f[j]) \/ (~Less(f[j], f[i]) /\ i < j)
      PROVE  Upto1(i) \subseteq Upto1(j) /\ j \notin Upto1(i)
    <2>1. ASSUME NEW k1 \in Upto1(i) PROVE k1 \in Upto1(j)
        <3>1. CASE Less(f[k1], f[i])
            <4>1. ~Less(f[j], f[i])
                BY <1>3, LessIsOrder
            <4>2. Less(f[k1], f[j])
                BY <3>1, <4>1, LessIsOrder
            <4> QED BY <4>2
        <3>2. CASE ~Less(f[i], f[k1]) /\ k1 <= i
            <4>1. CASE Less(f[i], f[j])
                <5>1. ~Less(f[j], f[k1])
                    BY <3>2, <4>1, LessIsOrder
                <5>2. Less(f[k1], f[j])
                    <6>1. Less(f[i], f[j]) /\ ~Less(f[i], f[k1])
                        BY <3>2, <4>1
                    <6> QED BY <6>1, LessIsOrder
                <5> QED BY <5>2
            <4>2. CASE ~Less(f[j], f[i]) /\ i < j
                <5>1. ~Less(f[j], f[k1])
                    BY <3>2, <4>2, LessIsOrder
                <5> QED BY <3>2, <4>2, <5>1
            <4> QED BY <1>3, <4>1, <4>2
        <3> QED BY <3>1, <3>2
    <2>2. j \notin Upto1(i)
        <3>1. CASE Less(f[i], f[j])
            BY <3>1, LessIsOrder
        <3>2. CASE ~Less(f[j], f[i]) /\ i < j
            BY <3>2
        <3> QED BY <1>3, <3>1, <3>2
    <2> QED BY <2>1, <2>2
<1>4. ASSUME NEW i \in 1 .. n, NEW j \in 1 .. n, i # j
      PROVE  Cardinality(Upto1(i)) # Cardinality(Upto1(j))
    <2>1. ASSUME NEW a \in 1 .. n, NEW b \in 1 .. n,
                 Upto1(a) \subseteq Upto1(b), b \notin Upto1(a)
          PROVE  Cardinality(Upto1(a)) # Cardinality(Upto1(b))
        <3>1. IsFiniteSet(Upto1(b)) /\ b \in Upto1(b)
            BY <1>2
        <3> HIDE DEF Upto1
        <3> QED BY <2>1, <3>1, FS_Subset
    <2>2. \/ Less(f[i], f[j]) \/ (~Less(f[j], f[i]) /\ i < j)
          \/ Less(f[j], f[i]) \/ (~Less(f[i], f[j]) /\ j < i)
        BY <1>4
    <2> HIDE DEF Upto1
    <2> QED BY <1>3, <2>1, <2>2
<1>5. place \in Injection(1 .. n, 1 .. n)
    <2>1. place \in [1 .. n -> 1 .. n]
        BY <1>2
    <2>2. \A i, j \in 1 .. n : place[i] = place[j] => i = j
        BY <1>4
    <2> HIDE DEF place
    <2> QED BY <2>1, <2>2, Fun_IsInj
<1>6. place \in Surjection(1 .. n, 1 .. n)
    <2> HIDE DEF place
    <2> QED BY <1>1, <1>5, FS_Injection
<1>7. \E i \in 1 .. n : Place(f, i) = k
    <2>1. \E i \in 1 .. n : place[i] = k
        BY <1>6 DEF Surjection
    <2> QED BY <1>2, <2>1
<1> QED BY <1>7 DEF Sorted

LEMMA MedianFraction ==
    ASSUME NEW n \in Nat \ {0}, NEW f, DOMAIN f = 1 .. n, Len(f) = n,
           \A i \in 1 .. n : Fraction(f[i])
    PROVE  Fraction(Median(f))
<1>1. \A k \in 1 .. n : Fraction(Sorted(f, k))
    BY EveryPlaceTaken
<1>2. CASE n % 2 = 1
    <2>1. (n + 1) \div 2 \in 1 .. n
        OBVIOUS
    <2> QED BY <1>1, <1>2, <2>1 DEF Median
<1>3. CASE n % 2 # 1
    <2>1. n \div 2 \in 1 .. n /\ n \div 2 + 1 \in 1 .. n
        <3>1. n # 1
            BY <1>3
        <3> QED BY <3>1
    <2>2. PICK lower, upper, half :
            /\ lower = Sorted(f, n \div 2) /\ upper = Sorted(f, n \div 2 + 1)
            /\ half = [num |-> 1, den |-> 2]
        OBVIOUS
    <2>3. Fraction(lower) /\ Fraction(upper) /\ Fraction(half)
        BY <1>1, <2>1, <2>2 DEF Fraction
    <2>4. Fraction(Times(Plus(lower, upper), half))
        BY <2>3, FractionsOf
    <2>5. Median(f) = Times(Plus(lower, upper), half)
        BY <1>3, <2>2 DEF Median
    <2> QED BY <2>4, <2>5
<1> QED BY <1>2, <1>3

-----------------------------------------------------------------------------
(* What a decision is taken on.                                            *)
Sample == [tick : Nat, rate : Nat]

\* Samples of different ticks.
SampleSeq(samples) ==
    /\ samples \in Seq(Sample)
    /\ \A j, k \in 1 .. Len(samples) : j < k => samples[j].tick # samples[k].tick

\* The trend through any samples of different ticks exists.
LEMMA TrendFraction ==
    ASSUME NEW samples, SampleSeq(samples), samples # <<>>, NEW target \in Int
    PROVE  Fraction(LinearTrend(samples, target))
<1> DEFINE n == Len(samples)
           xs == [i \in 1 .. n |-> samples[i].tick]
           ys == [i \in 1 .. n |-> samples[i].rate]
           xx == [i \in 1 .. n |-> samples[i].tick * samples[i].tick]
           xy == [i \in 1 .. n |-> samples[i].tick * samples[i].rate]
           D == n * Total(xx) - Total(xs) * Total(xs)
           value == Total(ys) * D
                        + (n * Total(xy) - Total(xs) * Total(ys)) * (n * target - Total(xs))
<1>1. n \in Nat \ {0}
    BY EmptySeq DEF SampleSeq
<1>2. \A i \in 1 .. n : samples[i].tick \in Nat /\ samples[i].rate \in Nat
    <2>1. \A i \in 1 .. n : samples[i] \in Sample
        BY DEF SampleSeq
    <2> QED BY <2>1 DEF Sample
<1>3. \A i \in 1 .. n :
        samples[i].tick * samples[i].tick \in Int /\ samples[i].tick * samples[i].rate \in Int
    BY <1>2
<1> HIDE DEF n
<1>4. /\ xs \in [1 .. n -> Int] /\ ys \in [1 .. n -> Int]
      /\ xx \in [1 .. n -> Int] /\ xy \in [1 .. n -> Int]
    BY <1>2, <1>3
<1>5. /\ \A k \in 1 .. n : xx[k] = xs[k] * xs[k]
      /\ \A j, k \in 1 .. n : j < k => xs[j] # xs[k]
    BY DEF SampleSeq, n
<1>6. LinearTrend(samples, target)
        = IF n = 1 THEN Whole(samples[1].rate)
          ELSE [num |-> Larger(0, value), den |-> n * D]
    BY DEF LinearTrend, n
<1> HIDE DEF xs, ys, xx, xy
<1>7. CASE n = 1
    <2>1. samples[1].rate \in Int
        BY <1>2, <1>7
    <2> QED BY <1>6, <1>7, <2>1, FractionsOf
<1>8. CASE n # 1
    <2>1. /\ Total(xs) \in Int /\ Total(ys) \in Int
          /\ Total(xx) \in Int /\ Total(xy) \in Int
        BY <1>1, <1>4, SumOf
    <2>2. D \in Nat \ {0}
        <3>1. n >= 2 /\ n \in Nat
            BY <1>1, <1>8
        <3> QED BY <1>4, <1>5, <3>1, NeverVertical
    <2> HIDE DEF D
    <2>3. value \in Int /\ n * D \in Nat \ {0}
        BY <1>1, <2>1, <2>2, PositiveProduct
    <2> HIDE DEF value
    <2>4. Larger(0, value) \in Int
        BY <2>3 DEF Larger
    <2> QED BY <1>6, <1>8, <2>3, <2>4 DEF Fraction
<1> QED BY <1>7, <1>8

\* The level of the demand above the profile exists.
LEMMA LevelFraction ==
    ASSUME NEW samples \in Seq(Sample)
    PROVE  Fraction(LevelFactor(samples))
<1> DEFINE usable == {i \in DOMAIN samples :
                        Profiled(samples[i].tick) /\ Profile[samples[i].tick + 1] > 0}
           ratios == [i \in DOMAIN samples |->
                        [num |-> samples[i].rate, den |-> Profile[samples[i].tick + 1]]]
           n == Cardinality(usable)
           chosen == AtIndices(ratios, usable)
           S == [num : Int, den : Nat \ {0}]
<1>1. /\ usable \in SUBSET (1 .. Len(samples)) /\ Len(samples) \in Nat
    OBVIOUS
<1>2. \A i \in usable : ratios[i] \in S
    <2> SUFFICES ASSUME NEW i \in usable PROVE ratios[i] \in S
        OBVIOUS
    <2>1. samples[i].rate \in Int
        <3>1. samples[i] \in Sample
            OBVIOUS
        <3> QED BY <3>1 DEF Sample
    <2>2. Profile[samples[i].tick + 1] \in Nat \ {0}
        BY PredictiveConfig DEF Profiled
    <2> QED BY <2>1, <2>2
<1> HIDE DEF usable, ratios
<1>3. /\ chosen \in Seq(S) /\ Len(chosen) = n /\ n \in Nat
    <2>1. PICK m \in Nat : m = Len(samples)
        BY <1>1
    <2>2. usable \in SUBSET (1 .. m)
        BY <1>1, <2>1
    <2> HIDE DEF S
    <2>3. Cardinality(usable) \in 0 .. m
        BY <1>2, <2>2, AtIndicesType, Zenon
    <2>4. AtIndices(ratios, usable) \in Seq(S) /\ Len(AtIndices(ratios, usable)) = n
        BY <1>2, <2>2, AtIndicesType, Zenon
    <2> QED BY <2>3, <2>4
<1>4. LevelFactor(samples) = IF usable = {} THEN Whole(1) ELSE Median(chosen)
    BY DEF LevelFactor, usable, ratios
<1>5. usable # {} => n # 0
    <2>1. IsFiniteSet(usable)
        <3>1. IsFiniteSet(1 .. Len(samples)) /\ usable \subseteq 1 .. Len(samples)
            BY <1>1, FS_Interval
        <3> QED BY <3>1, FS_Subset, Zenon
    <2> QED BY <2>1, FS_EmptySet
<1> HIDE DEF chosen, n
<1>6. usable # {} => Fraction(Median(chosen))
    <2> SUFFICES ASSUME usable # {} PROVE Fraction(Median(chosen))
        OBVIOUS
    <2>1. n \in Nat \ {0} /\ DOMAIN chosen = 1 .. n
        BY <1>3, <1>5
    <2>2. \A i \in 1 .. n : Fraction(chosen[i])
        <3>1. \A i \in 1 .. n : chosen[i] \in S
            <4> HIDE DEF S
            <4> QED BY <1>3, <2>1
        <3> QED BY <3>1 DEF Fraction
    <2> QED BY <1>3, <2>1, <2>2, MedianFraction
<1> QED BY <1>4, <1>6, FractionsOf

\* Every forecast a decision is taken on is a fraction.
LEMMA ForecastFraction ==
    ASSUME NEW c, SampleSeq(c.samples), c.samples # <<>>
    PROVE  Fraction(Forecast(c))
<1>1. Len(c.samples) \in 1 .. Len(c.samples) /\ c.samples \in Seq(Sample)
    BY EmptySeq DEF SampleSeq
<1>2. PICK target \in Int : target = SourceTick(c) + Horizon
    <2>1. c.samples[Len(c.samples)] \in Sample
        BY <1>1
    <2> QED BY <2>1, StartupTicksNat DEF SourceTick, Horizon, Sample
<1>3. Fraction(LinearTrend(c.samples, target))
    BY <1>2, TrendFraction
<1>4. Profiled(target) => Fraction(Times(Whole(Profile[target + 1]), LevelFactor(c.samples)))
    <2> SUFFICES ASSUME Profiled(target)
                 PROVE  Fraction(Times(Whole(Profile[target + 1]), LevelFactor(c.samples)))
        OBVIOUS
    <2>1. Profile[target + 1] \in Int
        BY PredictiveConfig DEF Profiled
    <2> QED BY <1>1, <2>1, LevelFraction, FractionsOf
<1>5. Forecast(c) = IF policy = SEASONAL /\ Profiled(target)
                    THEN Greater(LinearTrend(c.samples, target),
                                 Times(Whole(Profile[target + 1]), LevelFactor(c.samples)))
                    ELSE LinearTrend(c.samples, target)
    BY <1>2 DEF Forecast
<1> QED BY <1>3, <1>4, <1>5, FractionsOf

\* The replicas sized for any rate are within the environment's bounds.
LEMMA DesiredInBounds ==
    ASSUME NEW rate, Fraction(rate)
    PROVE  Desired(rate) \in MinReplicas .. MaxReplicas
<1>1. /\ MinReplicas \in Nat /\ MaxReplicas \in Nat /\ MinReplicas <= MaxReplicas
      /\ contract.min = MinReplicas /\ contract.max = MaxReplicas
    BY ReplicaConfig DEF contract
<1>2. Needed(rate) \in Int
    <2>1. PICK d \in Nat \ {0} : d = rate.den * NominalCapacity * TargetPercent
        <3>1. NominalCapacity \in Nat \ {0} /\ TargetPercent \in Nat \ {0}
            BY EnvConfig, PredictiveConfig
        <3>2. rate.den * NominalCapacity \in Nat \ {0}
            BY <3>1, PositiveProduct DEF Fraction
        <3> QED BY <3>1, <3>2, PositiveProduct
    <2>2. Needed(rate) = (100 * rate.num + d - 1) \div d
        BY <2>1 DEF Needed
    <2>3. 100 * rate.num + d - 1 \in Int
        BY <2>1 DEF Fraction
    <2> QED BY <2>1, <2>2, <2>3
<1> QED BY <1>1, <1>2 DEF Desired, Clip

-----------------------------------------------------------------------------
(* The window of samples.                                                  *)
\* After n ticks: the ticks whose demand may be seen, and the tick a controller
\* has consumed once it has decided.
Known(n) == Larger(0, n - TelemetryDelay)
ConsumedAfter(n) == IF n > TelemetryDelay THEN n - 1 ELSE NoTick

\* The window of a controller that knows the first known demands.
WindowOf(samples, known) ==
    /\ samples \in Seq(Sample)
    /\ Len(samples) = Smaller(HistoryWindow, known)
    /\ \A i \in 1 .. Len(samples) :
        /\ samples[i].rate = world.demand[known - (Len(samples) - i)]
        /\ samples[i].tick = (known + TelemetryDelay - 1) - (Len(samples) - i)

\* The window is that of the latest decision: of this tick or of the one before.
SampleInv ==
    /\ policy \in Policies
    /\ forecaster = [samples |-> forecaster.samples, consumed |-> forecaster.consumed,
                     decision |-> forecaster.decision]
    /\ policy = STATIC => forecaster.samples = <<>>
    /\ policy # STATIC => \E n \in {clock - 1, clock} :
        forecaster.consumed = ConsumedAfter(n) /\ WindowOf(forecaster.samples, Known(n))

PolicyInv == EpisodeInv /\ TelemetryInv /\ InfoInv /\ SampleInv

\* The window never outgrows its size: one sample enters, the oldest leaves.
LEMMA WindowSlides ==
    ASSUME NEW known \in Nat, NEW s, WindowOf(s, known),
           NEW e \in Sample, e.rate = world.demand[known + 1], e.tick = known + TelemetryDelay
    PROVE  WindowOf(Windowed(Append(s, e)), known + 1)
<1>1. HistoryWindow \in Nat \ {0} /\ TelemetryDelay \in Nat
    BY PredictiveConfig, EnvConfig
<1>2. PICK n \in Nat : n = Len(s) /\ n = Smaller(HistoryWindow, known) /\ s \in Seq(Sample)
    <2>1. s \in Seq(Sample) /\ Len(s) = Smaller(HistoryWindow, known)
        BY DEF WindowOf
    <2> QED BY <2>1
<1>3. PICK q \in Seq(Sample) : q = Append(s, e)
    <2>1. Append(s, e) \in Seq(Sample)
        BY <1>2
    <2> QED BY <2>1, Zenon
<1>4. /\ Len(q) = n + 1 /\ q[n + 1] = e
      /\ \A i \in 1 .. n : q[i] = s[i]
    <2>1. s \in Seq(Sample)
        BY <1>2
    <2>2. /\ Len(Append(s, e)) = Len(s) + 1 /\ Append(s, e)[Len(s) + 1] = e
          /\ \A i \in 1 .. Len(s) : Append(s, e)[i] = s[i]
        BY <2>1, AppendProperties
    <2> QED BY <1>2, <1>3, <2>2
<1>5. \A i \in 1 .. n + 1 :
        /\ q[i].rate = world.demand[known + 1 - (n + 1 - i)]
        /\ q[i].tick = known + TelemetryDelay - (n + 1 - i)
    <2> SUFFICES ASSUME NEW i \in 1 .. n + 1
                 PROVE  /\ q[i].rate = world.demand[known + 1 - (n + 1 - i)]
                        /\ q[i].tick = known + TelemetryDelay - (n + 1 - i)
        OBVIOUS
    <2>1. CASE i = n + 1
        <3>1. known + 1 - (n + 1 - i) = known + 1
            BY <2>1
        <3>2. known + TelemetryDelay - (n + 1 - i) = known + TelemetryDelay
            BY <1>1, <2>1
        <3> QED BY <1>4, <2>1, <3>1, <3>2
    <2>2. CASE i \in 1 .. n
        <3>1. /\ s[i].rate = world.demand[known - (n - i)]
              /\ s[i].tick = (known + TelemetryDelay - 1) - (n - i)
            BY <1>2, <2>2 DEF WindowOf
        <3>2. known + 1 - (n + 1 - i) = known - (n - i)
            BY <2>2
        <3>3. known + TelemetryDelay - (n + 1 - i) = (known + TelemetryDelay - 1) - (n - i)
            BY <1>1, <2>2
        <3> QED BY <1>4, <2>2, <3>1, <3>2, <3>3
    <2> QED BY <2>1, <2>2
<1>6. PICK from \in {1, 2} : /\ from = Larger(1, (n + 1) - HistoryWindow + 1)
                             /\ n + 2 - from = Smaller(HistoryWindow, known + 1)
    <2>2. CASE known < HistoryWindow
        <3>1. /\ n = known /\ Larger(1, (n + 1) - HistoryWindow + 1) = 1
              /\ Smaller(HistoryWindow, known + 1) = known + 1
            BY <1>1, <1>2, <2>2 DEF Smaller, Larger
        <3> QED BY <3>1
    <2>3. CASE known >= HistoryWindow
        <3>1. /\ n = HistoryWindow /\ Larger(1, (n + 1) - HistoryWindow + 1) = 2
              /\ Smaller(HistoryWindow, known + 1) = HistoryWindow
            BY <1>1, <1>2, <2>3 DEF Smaller, Larger
        <3> QED BY <3>1
    <2> QED BY <1>1, <2>2, <2>3
<1>7. PICK w : w = Windowed(Append(s, e))
    OBVIOUS
<1>8. w = SubSeq(q, from, n + 1)
    BY <1>3, <1>4, <1>6, <1>7 DEF Windowed
<1>9. /\ w \in Seq(Sample) /\ Len(w) = n + 2 - from
      /\ \A i \in 1 .. n + 2 - from : w[i] = q[from + i - 1]
    <2>1. /\ from \in 1 .. Len(q) + 1 /\ n + 1 \in from - 1 .. Len(q)
        BY <1>4, <1>6
    <2> QED BY <1>4, <1>8, <2>1
<1>10. ASSUME NEW i \in 1 .. Len(w)
       PROVE  /\ w[i].rate = world.demand[known + 1 - (Len(w) - i)]
              /\ w[i].tick = (known + 1 + TelemetryDelay - 1) - (Len(w) - i)
    <2>1. PICK j \in 1 .. n + 1 : j = from + i - 1
        BY <1>6, <1>9
    <2>2. w[i] = q[j]
        BY <1>9, <2>1
    <2>3. n + 1 - j = Len(w) - i
        <3>1. Len(w) = n + 2 - from
            BY <1>9
        <3>2. n + 1 - (from + i - 1) = n + 2 - from - i
            BY <1>6, <1>9
        <3> QED BY <2>1, <3>1, <3>2
    <2>4. known + TelemetryDelay - (n + 1 - j) = (known + 1 + TelemetryDelay - 1) - (n + 1 - j)
        BY <1>1
    <2> QED BY <1>5, <2>2, <2>3, <2>4
<1>11. Len(w) = Smaller(HistoryWindow, known + 1)
    BY <1>6, <1>9
<1>12. WindowOf(w, known + 1)
    BY <1>9, <1>10, <1>11 DEF WindowOf
<1> QED BY <1>7, <1>12

\* What the controller is shown: the demand of the newest tick that is old
\* enough, under the tick that has just been completed.
LEMMA ViewFacts ==
    ASSUME EpisodeInv, TelemetryInv, InfoInv, ~needsReset
    PROVE  /\ DecisionInfo.sample = (clock > TelemetryDelay)
           /\ clock > 0 => DecisionInfo.tick = clock - 1
           /\ DecisionInfo.sample =>
                /\ DecisionInfo.measured.queued \in Nat
                /\ DecisionInfo.measured.demand \in Nat
                /\ DecisionInfo.measured.demand = world.demand[clock - TelemetryDelay]
<1>1. /\ clock \in Nat /\ TelemetryDelay \in Nat /\ HistoryTicks \in Nat \ {0}
    BY EnvConfig DEF EpisodeInv
<1>2. DecisionInfo.sample = (clock > TelemetryDelay)
    BY SampleSeen
<1>3. clock > 0 => DecisionInfo.tick = clock - 1
    BY <1>1 DEF DecisionInfo, EpisodeInv, InfoInv
<1>4. ASSUME DecisionInfo.sample
      PROVE  /\ DecisionInfo.measured.queued \in Nat
             /\ DecisionInfo.measured.demand \in Nat
             /\ DecisionInfo.measured.demand = world.demand[clock - TelemetryDelay]
    <2>1. VisibleTelemetry \in Seq(Snapshot)
        BY <1>1 DEF VisibleTelemetry, TelemetryInv, Smaller, BufferSize
    <2>2. /\ Len(VisibleTelemetry) = Smaller(HistoryTicks, Larger(0, clock - TelemetryDelay))
          /\ \A k \in DOMAIN VisibleTelemetry :
                /\ VisibleTelemetry[k].tick = clock - TelemetryDelay - k
                /\ VisibleTelemetry[k].demand = world.demand[VisibleTelemetry[k].tick + 1]
        BY DelayedView DEF VisibleIsDelayedTruth
    <2>3. 1 \in DOMAIN VisibleTelemetry
        <3>1. clock > TelemetryDelay
            BY <1>2, <1>4
        <3>2. Smaller(HistoryTicks, Larger(0, clock - TelemetryDelay)) \in Nat \ {0}
            BY <1>1, <3>1 DEF Smaller, Larger
        <3>3. Len(VisibleTelemetry) \in Nat \ {0}
            BY <2>2, <3>2
        <3> QED BY <2>1, <3>3
    <2>4. VisibleTelemetry[1] \in Snapshot
        BY <2>1, <2>3
    <2>5. clock - TelemetryDelay - 1 + 1 = clock - TelemetryDelay
        BY <1>1
    <2>6. VisibleTelemetry[1].demand = world.demand[clock - TelemetryDelay]
        BY <2>2, <2>3, <2>5
    <2>7. DecisionInfo.measured = VisibleTelemetry[1]
        <3>1. VisibleTelemetry # <<>>
            BY <2>3
        <3> QED BY <3>1 DEF DecisionInfo
    <2> QED BY <2>4, <2>6, <2>7 DEF Snapshot
<1> QED BY <1>2, <1>3, <1>4

\* Sampling brings the window to the newest visible tick, whether it stood
\* there already or one tick behind.
LEMMA SampledKeeps ==
    ASSUME PolicyInv, ~needsReset, policy # STATIC
    PROVE  LET c == Sampled(DecisionInfo)
           IN  /\ c = [samples |-> c.samples, consumed |-> ConsumedAfter(clock),
                       decision |-> forecaster.decision]
               /\ WindowOf(c.samples, Known(clock))
<1> DEFINE view == DecisionInfo
           c == Sampled(view)
<1>1. clock \in Nat /\ TelemetryDelay \in Nat
    BY EnvConfig DEF PolicyInv, EpisodeInv
<1>2. /\ view.sample <=> clock > TelemetryDelay
      /\ clock > 0 => view.tick = clock - 1
      /\ view.sample => /\ view.measured.demand \in Nat
                        /\ view.measured.demand = world.demand[clock - TelemetryDelay]
    BY ViewFacts DEF PolicyInv
<1>3. /\ forecaster = [samples |-> forecaster.samples, consumed |-> forecaster.consumed,
                       decision |-> forecaster.decision]
      /\ \E n \in {clock - 1, clock} :
            forecaster.consumed = ConsumedAfter(n) /\ WindowOf(forecaster.samples, Known(n))
    BY DEF PolicyInv, SampleInv
<1> HIDE DEF view
<1>4. CASE forecaster.consumed = ConsumedAfter(clock) /\ WindowOf(forecaster.samples, Known(clock))
    <2>1. clock > TelemetryDelay => ConsumedAfter(clock) = clock - 1 /\ clock > 0
        BY <1>1 DEF ConsumedAfter
    <2>2. c = forecaster
        BY <1>2, <1>4, <2>1 DEF Sampled
    <2> HIDE DEF c
    <2>3. /\ c = [samples |-> c.samples, consumed |-> ConsumedAfter(clock),
                  decision |-> forecaster.decision]
          /\ WindowOf(c.samples, Known(clock))
        BY <1>3, <1>4, <2>2
    <2> QED BY <2>3 DEF c, view
<1>5. CASE /\ forecaster.consumed = ConsumedAfter(clock - 1)
           /\ WindowOf(forecaster.samples, Known(clock - 1))
    <2>1. CASE clock <= TelemetryDelay
        <3>1. ConsumedAfter(clock - 1) = ConsumedAfter(clock) /\ Known(clock - 1) = Known(clock)
            BY <1>1, <2>1 DEF ConsumedAfter, Known, Larger
        <3> QED BY <1>4, <1>5, <3>1
    <2>2. CASE clock > TelemetryDelay
        <3>1. PICK known \in Nat : known = clock - 1 - TelemetryDelay
            BY <1>1, <2>2
        <3>2. /\ Known(clock - 1) = known /\ Known(clock) = known + 1
              /\ clock - TelemetryDelay = known + 1 /\ clock - 1 = known + TelemetryDelay
              /\ ConsumedAfter(clock) = clock - 1 /\ ConsumedAfter(clock - 1) # clock - 1
            BY <1>1, <2>2, <3>1 DEF Known, ConsumedAfter, NoTick, Larger
        <3>3. view.sample /\ view.tick = clock - 1
            <4>1. clock > 0
                BY <1>1, <2>2
            <4> QED BY <1>2, <2>2, <4>1
        <3>4. [tick |-> view.tick, rate |-> view.measured.demand] \in Sample
            <4>1. view.tick \in Nat /\ view.measured.demand \in Nat
                BY <1>1, <1>2, <3>2, <3>3
            <4> QED BY <4>1 DEF Sample
        <3>5. PICK e \in Sample : e = [tick |-> view.tick, rate |-> view.measured.demand]
            BY <3>4, Zenon
        <3>6. e.rate = world.demand[known + 1] /\ e.tick = known + TelemetryDelay
            <4>1. view.measured.demand = world.demand[known + 1]
                BY <1>2, <3>2, <3>3
            <4> QED BY <3>2, <3>3, <3>5, <4>1
        <3>7. WindowOf(Windowed(Append(forecaster.samples, e)), Known(clock))
            BY <1>5, <3>2, <3>6, WindowSlides
        <3>8. c = [forecaster EXCEPT !.consumed = view.tick, !.samples = Windowed(Append(@, e))]
            BY <1>5, <3>2, <3>3, <3>5 DEF Sampled
        <3> HIDE DEF c
        <3>9. c = [samples |-> Windowed(Append(forecaster.samples, e)),
                   consumed |-> ConsumedAfter(clock), decision |-> forecaster.decision]
            BY <1>3, <3>2, <3>3, <3>8
        <3>10. /\ c = [samples |-> c.samples, consumed |-> ConsumedAfter(clock),
                       decision |-> forecaster.decision]
               /\ WindowOf(c.samples, Known(clock))
            BY <3>7, <3>9
        <3> QED BY <3>10 DEF c, view
    <2> QED BY <1>1, <2>1, <2>2
<1> QED BY <1>3, <1>4, <1>5

-----------------------------------------------------------------------------
(* What a decision moves.                                                  *)
\* Where the code for a target takes the fleet: there, or one replica closer.
Toward(now, target) ==
    IF contract.semantics = DELTA_V1
    THEN IF target > now THEN now + 1 ELSE IF target < now THEN now - 1 ELSE now
    ELSE target

\* The code for a target in bounds is valid and moves the fleet toward it.
LEMMA TargetCode ==
    ASSUME EpisodeInv, NEW target \in MinReplicas .. MaxReplicas
    PROVE  LET now == Committed(pool)
               code == CodeForTarget(contract, target, now)
           IN  /\ code \in Codes(contract)
               /\ TargetFor(contract, code, now) = Toward(now, target)
<1>1. PICK now \in MinReplicas .. MaxReplicas : now = Committed(pool)
    BY LoopFacts
<1>2. PICK lo \in Nat \ {0}, hi \in Nat : lo = MinReplicas /\ hi = MaxReplicas
    BY LoopFacts
<1>3. /\ contract.min = lo /\ contract.max = hi
      /\ contract.semantics = world.semantics
    BY <1>2, LoopFacts
<1>4. now \in lo .. hi /\ target \in lo .. hi
    BY <1>2
<1>5. PICK code : code = CodeForTarget(contract, target, now)
    OBVIOUS
<1>6. CASE world.semantics = DELTA_V1
    <2>1. Clip(contract, target) = target
        BY <1>3, <1>4 DEF Clip
    <2>2. code = IF target > now THEN SCALE_UP ELSE IF target < now THEN SCALE_DOWN ELSE HOLD
        BY <1>3, <1>4, <1>5, <1>6, <2>1 DEF CodeForTarget
    <2>3. /\ code \in 0 .. 2 /\ code \in {SCALE_DOWN, HOLD, SCALE_UP}
          /\ now + DELTA_EFFECTS[code] = Toward(now, target)
        BY <1>3, <1>4, <1>6, <2>2 DEF DELTA_EFFECTS, SCALE_DOWN, HOLD, SCALE_UP, Toward
    <2>4. Toward(now, target) \in lo .. hi
        BY <1>3, <1>4, <1>6 DEF Toward
    <2>5. Clip(contract, Toward(now, target)) = Toward(now, target)
        BY <1>3, <1>4, <2>4 DEF Clip
    <2>6. TargetFor(contract, code, now) = Toward(now, target)
        BY <1>3, <1>6, <2>3, <2>5 DEF TargetFor
    <2>7. code \in Codes(contract)
        BY <1>3, <1>6, <2>3 DEF Codes, ActionCount
    <2> QED BY <1>1, <1>5, <2>6, <2>7
<1>7. CASE world.semantics # DELTA_V1
    <2>1. Clip(contract, target) = target
        BY <1>3, <1>4 DEF Clip
    <2>2. code = target - lo
        BY <1>3, <1>5, <1>7, <2>1 DEF CodeForTarget
    <2>3. code \in Codes(contract)
        BY <1>3, <1>4, <1>7, <2>2 DEF Codes, ActionCount
    <2>4. TargetFor(contract, code, now) = target
        BY <1>3, <1>4, <1>7, <2>2 DEF TargetFor
    <2>5. Toward(now, target) = target
        BY <1>3, <1>7 DEF Toward
    <2> QED BY <1>1, <1>5, <2>3, <2>4, <2>5
<1> QED BY <1>6, <1>7

\* So does the single step of predictive-v1.
LEMMA StepToward ==
    ASSUME EpisodeInv, NEW target \in MinReplicas .. MaxReplicas, NEW step,
           LET now == Committed(pool)
           IN  \/ step = SCALE_UP /\ target > now
               \/ step = SCALE_DOWN /\ target < now
               \/ step = HOLD /\ target = now
    PROVE  LET now == Committed(pool)
               code == IF contract.semantics = DELTA_V1 THEN step
                       ELSE CodeForTarget(contract, target, now)
           IN  /\ code \in Codes(contract)
               /\ TargetFor(contract, code, now) = Toward(now, target)
<1>1. PICK now \in MinReplicas .. MaxReplicas : now = Committed(pool)
    BY LoopFacts
<1>2. PICK lo \in Nat \ {0}, hi \in Nat : lo = MinReplicas /\ hi = MaxReplicas
    BY LoopFacts
<1>3. contract.min = lo /\ contract.max = hi
    BY <1>2, LoopFacts
<1>4. now \in lo .. hi /\ target \in lo .. hi
    BY <1>2
<1>5. CASE contract.semantics = DELTA_V1
    <2>1. Clip(contract, target) = target
        BY <1>3, <1>4 DEF Clip
    <2>2. \/ step = SCALE_UP /\ target > now
          \/ step = SCALE_DOWN /\ target < now
          \/ step = HOLD /\ target = now
        BY <1>1
    <2>3. CodeForTarget(contract, target, now) = step
        <3>1. target > now => ~(target < now) /\ target # now
            BY <1>4
        <3>2. target < now => ~(target > now) /\ target # now
            BY <1>4
        <3>3. CodeForTarget(contract, target, now)
                = IF target > now THEN SCALE_UP ELSE IF target < now THEN SCALE_DOWN ELSE HOLD
            BY <1>4, <1>5, <2>1 DEF CodeForTarget
        <3> QED BY <1>4, <2>2, <3>1, <3>2, <3>3
    <2> QED BY <1>1, <1>5, <2>3, TargetCode
<1>6. CASE contract.semantics # DELTA_V1
    BY <1>6, TargetCode
<1> QED BY <1>5, <1>6

\* Samples in a window are samples of different ticks.
LEMMA WindowIsSamples ==
    ASSUME NEW s, NEW known \in Nat, WindowOf(s, known)
    PROVE  SampleSeq(s) /\ (s # <<>> <=> known > 0)
<1>1. HistoryWindow \in Nat \ {0} /\ TelemetryDelay \in Nat
    BY PredictiveConfig, EnvConfig
<1>2. s \in Seq(Sample) /\ Len(s) = Smaller(HistoryWindow, known)
    BY DEF WindowOf
<1>3. ASSUME NEW j \in 1 .. Len(s), NEW k \in 1 .. Len(s), j < k
      PROVE  s[j].tick # s[k].tick
    <2>1. /\ s[j].tick = (known + TelemetryDelay - 1) - (Len(s) - j)
          /\ s[k].tick = (known + TelemetryDelay - 1) - (Len(s) - k)
        BY DEF WindowOf
    <2>2. Len(s) \in Nat
        BY <1>2
    <2> QED BY <1>1, <1>3, <2>1, <2>2
<1>4. Len(s) > 0 <=> known > 0
    BY <1>1, <1>2 DEF Smaller
<1>5. s # <<>> <=> Len(s) > 0
    BY <1>2, EmptySeq
<1> QED BY <1>2, <1>3, <1>4, <1>5 DEF SampleSeq

\* predictive-v1 reduces only when nothing visible waits.
LEMMA TrendMoves ==
    ASSUME EpisodeInv, NEW c, SampleSeq(c.samples), c.samples # <<>>,
           NEW view, view.measured.queued \in Nat
    PROVE  LET now == Committed(pool)
               code == TrendDecision(c, view, now).code
           IN  /\ code \in Codes(contract)
               /\ TargetFor(contract, code, now) < now => view.measured.queued = 0
<1>1. PICK now \in MinReplicas .. MaxReplicas : now = Committed(pool)
    BY LoopFacts
<1>2. PICK queued \in Nat : queued = view.measured.queued
    OBVIOUS
<1>3. PICK forecast : forecast = Forecast(c) /\ Fraction(forecast)
    BY ForecastFraction
<1>4. PICK effective : effective = Plus(forecast, Whole(queued)) /\ Fraction(effective)
    BY <1>2, <1>3, FractionsOf
<1>5. PICK desired \in MinReplicas .. MaxReplicas : desired = Desired(effective)
    BY <1>4, DesiredInBounds
<1>6. MinReplicas \in Nat /\ MaxReplicas \in Nat
    BY LoopFacts
<1> DEFINE Code(step, target) ==
        IF contract.semantics = DELTA_V1 THEN step
        ELSE CodeForTarget(contract, target, now)
           code == TrendDecision(c, view, now).code
<1>7. /\ desired > now => code = Code(SCALE_UP, desired)
      /\ desired < now /\ queued > 0 => code = Code(HOLD, now)
      /\ desired < now /\ queued = 0 => code = Code(SCALE_DOWN, desired)
      /\ desired = now => code = Code(HOLD, now)
    BY <1>2, <1>3, <1>4, <1>5, <1>6 DEF TrendDecision
<1>8. ASSUME NEW target \in MinReplicas .. MaxReplicas, NEW step,
             \/ step = SCALE_UP /\ target > now
             \/ step = SCALE_DOWN /\ target < now
             \/ step = HOLD /\ target = now
      PROVE  /\ Code(step, target) \in Codes(contract)
             /\ TargetFor(contract, Code(step, target), now) = Toward(now, target)
    BY <1>1, <1>8, StepToward
<1>9. Toward(now, now) = now /\ (desired > now => Toward(now, desired) > now)
    BY <1>6 DEF Toward
<1> HIDE DEF code, Code
<1>10. CASE desired > now
    <2>1. code \in Codes(contract) /\ TargetFor(contract, code, now) = Toward(now, desired)
        BY <1>7, <1>8, <1>10
    <2>2. ~(Toward(now, desired) < now)
        BY <1>6, <1>9, <1>10 DEF Toward
    <2> QED BY <1>1, <2>1, <2>2 DEF code
<1>11. CASE (desired < now /\ queued > 0) \/ desired = now
    <2>1. code \in Codes(contract) /\ TargetFor(contract, code, now) = now
        BY <1>7, <1>8, <1>9, <1>11
    <2>2. ~(now < now)
        BY <1>6
    <2> QED BY <1>1, <2>1, <2>2 DEF code
<1>12. CASE desired < now /\ queued = 0
    <2>1. code \in Codes(contract)
        BY <1>7, <1>8, <1>12
    <2> QED BY <1>1, <1>2, <1>12, <2>1 DEF code
<1> QED BY <1>2, <1>6, <1>10, <1>11, <1>12

\* predictive-seasonal-v1 gives up one replica, and only one that neither the
\* newest demand nor the forecast needs.
LEMMA ProactiveMoves ==
    ASSUME EpisodeInv, NEW c, SampleSeq(c.samples), c.samples # <<>>,
           NEW view, view.measured.queued \in Nat, view.measured.demand \in Nat
    PROVE  LET now == Committed(pool)
               d == ProactiveDecision(c, view, now)
               next == TargetFor(contract, d.code, now)
           IN  /\ d.code \in Codes(contract)
               /\ next < now =>
                    /\ view.measured.queued = 0
                    /\ next = now - 1
                    /\ next >= Desired(Whole(view.measured.demand))
                    /\ next >= d.desired
<1>1. PICK now \in MinReplicas .. MaxReplicas : now = Committed(pool)
    BY LoopFacts
<1>2. PICK queued \in Nat : queued = view.measured.queued
    OBVIOUS
<1>3. PICK effective : /\ effective = Plus(Forecast(c), Whole(queued))
                       /\ Fraction(effective)
    BY <1>2, ForecastFraction, FractionsOf
<1>4. PICK desired \in MinReplicas .. MaxReplicas : desired = Desired(effective)
    BY <1>3, DesiredInBounds
<1>5. PICK observed \in MinReplicas .. MaxReplicas :
            observed = Desired(Whole(view.measured.demand))
    <2>1. Fraction(Whole(view.measured.demand))
        BY FractionsOf
    <2> QED BY <2>1, DesiredInBounds
<1>6. MinReplicas \in Nat \ {0} /\ MaxReplicas \in Nat
    BY LoopFacts
<1>7. PICK safe \in MinReplicas .. MaxReplicas :
            safe = Larger(observed, desired) /\ safe >= observed /\ safe >= desired
    BY <1>6 DEF Larger
<1> DEFINE Code(target) == CodeForTarget(contract, target, now)
           d == ProactiveDecision(c, view, now)
<1>8. d.desired = desired
    BY <1>2, <1>3, <1>4, <1>6 DEF ProactiveDecision
<1>9. /\ desired > now => d.code = Code(desired)
      /\ desired = now => d.code = Code(now)
      /\ desired < now /\ queued > 0 => d.code = Code(now)
      /\ desired < now /\ queued = 0 /\ safe < now => d.code = Code(Larger(safe, now - 1))
      /\ desired < now /\ queued = 0 /\ ~(safe < now) => d.code = Code(now)
    BY <1>2, <1>3, <1>4, <1>5, <1>6, <1>7 DEF ProactiveDecision
<1>10. \A target \in MinReplicas .. MaxReplicas :
        /\ Code(target) \in Codes(contract)
        /\ TargetFor(contract, Code(target), now) = Toward(now, target)
    BY <1>1, TargetCode
<1>11. Toward(now, now) = now
    BY <1>6 DEF Toward
<1> HIDE DEF Code, d
<1>12. CASE desired > now
    <2>1. d.code \in Codes(contract) /\ TargetFor(contract, d.code, now) = Toward(now, desired)
        BY <1>9, <1>10, <1>12
    <2>2. ~(Toward(now, desired) < now)
        BY <1>6, <1>12 DEF Toward
    <2> QED BY <1>1, <2>1, <2>2 DEF d
<1>13. CASE \/ desired = now
            \/ desired < now /\ queued > 0
            \/ desired < now /\ queued = 0 /\ ~(safe < now)
    <2>1. d.code \in Codes(contract) /\ TargetFor(contract, d.code, now) = now
        BY <1>9, <1>10, <1>11, <1>13
    <2>2. ~(now < now)
        BY <1>6
    <2> QED BY <1>1, <2>1, <2>2 DEF d
<1>14. CASE desired < now /\ queued = 0 /\ safe < now
    <2>1. PICK target \in MinReplicas .. MaxReplicas :
            target = Larger(safe, now - 1) /\ target = now - 1 /\ target >= safe
        <3>1. Larger(safe, now - 1) = now - 1 /\ now - 1 \in MinReplicas .. MaxReplicas
              /\ now - 1 >= safe
            BY <1>6, <1>14 DEF Larger
        <3> QED BY <3>1
    <2>2. d.code \in Codes(contract) /\ TargetFor(contract, d.code, now) = Toward(now, target)
        BY <1>9, <1>10, <1>14, <2>1
    <2>3. Toward(now, target) = now - 1
        BY <1>6, <2>1 DEF Toward
    <2>4. now - 1 >= observed /\ now - 1 >= desired
        BY <1>6, <1>7, <2>1
    <2> QED BY <1>1, <1>2, <1>5, <1>8, <1>14, <2>2, <2>3, <2>4 DEF d
<1> QED BY <1>2, <1>6, <1>12, <1>13, <1>14

\* How far a fleet is from the size the static controller holds.
Distance(n) == Larger(n - StaticTarget, StaticTarget - n)

\* static moves to its target, as fast as the contract lets it.
LEMMA StaticMoves ==
    ASSUME EpisodeInv
    PROVE  LET now == Committed(pool)
               code == StaticDecision(now).code
               next == TargetFor(contract, code, now)
           IN  /\ code \in Codes(contract)
               /\ IF contract.semantics = DELTA_V1
                  THEN Distance(next) = Larger(0, Distance(now) - 1)
                  ELSE next = StaticTarget
<1>1. PICK now \in MinReplicas .. MaxReplicas : now = Committed(pool)
    BY LoopFacts
<1>2. StaticTarget \in MinReplicas .. MaxReplicas /\ MinReplicas \in Nat /\ MaxReplicas \in Nat
    BY LoopFacts, PredictiveConfig
<1>3. PICK code : code = CodeForTarget(contract, StaticTarget, now) /\ code = StaticDecision(now).code
    BY DEF StaticDecision
<1>4. code \in Codes(contract) /\ TargetFor(contract, code, now) = Toward(now, StaticTarget)
    BY <1>1, <1>2, <1>3, TargetCode
<1>5. contract.semantics = DELTA_V1 =>
        Distance(Toward(now, StaticTarget)) = Larger(0, Distance(now) - 1)
    <2> SUFFICES ASSUME contract.semantics = DELTA_V1
                 PROVE  Distance(Toward(now, StaticTarget)) = Larger(0, Distance(now) - 1)
        OBVIOUS
    <2>1. PICK t \in Nat, n \in Nat : t = StaticTarget /\ n = now
        BY <1>2
    <2>2. Toward(n, t) = IF t > n THEN n + 1 ELSE IF t < n THEN n - 1 ELSE n
        BY DEF Toward
    <2>3. Distance(n) = Larger(n - t, t - n) /\ Distance(Toward(n, t))
            = Larger(Toward(n, t) - t, t - Toward(n, t))
        BY <2>1 DEF Distance
    <2> QED BY <2>1, <2>2, <2>3 DEF Larger
<1>6. contract.semantics # DELTA_V1 => Toward(now, StaticTarget) = StaticTarget
    BY DEF Toward
<1> QED BY <1>1, <1>3, <1>4, <1>5, <1>6

\* What every decision leaves behind, and where its code takes the fleet.
LEMMA PolicyDecision ==
    ASSUME PolicyInv, ~needsReset, forecaster' = PolicyDecided(DecisionInfo)
    PROVE  LET view == DecisionInfo
               now == Committed(pool)
               next == TargetFor(contract, forecaster'.decision.code, now)
           IN  /\ forecaster' = [samples |-> forecaster'.samples, consumed |-> forecaster'.consumed,
                                 decision |-> forecaster'.decision]
               /\ policy = STATIC => forecaster'.samples = <<>>
               /\ policy # STATIC => /\ forecaster'.consumed = ConsumedAfter(clock)
                                     /\ WindowOf(forecaster'.samples, Known(clock))
               /\ forecaster'.decision.code \in Codes(contract)
               /\ next < now /\ policy # STATIC => view.sample /\ view.measured.queued = 0
               /\ next < now /\ policy = SEASONAL =>
                    /\ next = now - 1
                    /\ next >= Desired(Whole(view.measured.demand))
                    /\ next >= forecaster'.decision.desired
               /\ policy = STATIC =>
                    IF contract.semantics = DELTA_V1
                    THEN Distance(next) = Larger(0, Distance(now) - 1)
                    ELSE next = StaticTarget
<1> DEFINE view == DecisionInfo
<1>1. PICK now \in MinReplicas .. MaxReplicas : now = Committed(pool)
    BY LoopFacts DEF PolicyInv
<1>2. /\ view.counts.active + view.counts.pending = now
      /\ clock \in Nat /\ TelemetryDelay \in Nat /\ MinReplicas \in Nat /\ MaxReplicas \in Nat
    BY <1>1, LoopFacts DEF PolicyInv
<1>3. /\ view.sample <=> clock > TelemetryDelay
      /\ view.sample => view.measured.queued \in Nat /\ view.measured.demand \in Nat
    BY ViewFacts DEF PolicyInv
<1>4. /\ policy \in {PREDICTIVE, SEASONAL, STATIC}
      /\ policy = STATIC => forecaster.samples = <<>>
      /\ forecaster = [samples |-> forecaster.samples, consumed |-> forecaster.consumed,
                       decision |-> forecaster.decision]
    BY PredictiveConfig DEF PolicyInv, SampleInv
<1>5. STATIC # PREDICTIVE /\ STATIC # SEASONAL /\ SEASONAL # PREDICTIVE
    BY DEF STATIC, PREDICTIVE, SEASONAL
<1> DEFINE d == forecaster'.decision
           next == TargetFor(contract, d.code, now)
<1>6. CASE policy = STATIC
    <2>1. forecaster' = [forecaster EXCEPT !.decision = StaticDecision(now)]
        BY <1>2, <1>6 DEF PolicyDecided
    <2>2. forecaster' = [samples |-> forecaster.samples, consumed |-> forecaster.consumed,
                         decision |-> StaticDecision(now)]
        BY <1>4, <2>1
    <2>3. /\ StaticDecision(now).code \in Codes(contract)
          /\ IF contract.semantics = DELTA_V1
             THEN Distance(TargetFor(contract, StaticDecision(now).code, now))
                    = Larger(0, Distance(now) - 1)
             ELSE TargetFor(contract, StaticDecision(now).code, now) = StaticTarget
        BY <1>1, StaticMoves DEF PolicyInv
    <2>4. forecaster' = [samples |-> forecaster'.samples, consumed |-> forecaster'.consumed,
                         decision |-> forecaster'.decision]
          /\ forecaster'.samples = <<>> /\ forecaster'.decision = StaticDecision(now)
        BY <1>4, <1>6, <2>2
    <2> QED BY <1>1, <1>5, <1>6, <2>3, <2>4
<1>7. CASE policy # STATIC
    <2>1. PICK c : c = Sampled(view)
        OBVIOUS
    <2>2. /\ c = [samples |-> c.samples, consumed |-> ConsumedAfter(clock),
                  decision |-> forecaster.decision]
          /\ WindowOf(c.samples, Known(clock))
        BY <1>7, <2>1, SampledKeeps
    <2>3. Known(clock) \in Nat /\ (Known(clock) > 0 <=> clock > TelemetryDelay)
        BY <1>2 DEF Known, Larger
    <2>4. SampleSeq(c.samples) /\ (c.samples # <<>> <=> view.sample)
        BY <1>3, <2>2, <2>3, WindowIsSamples
    <2>5. forecaster' = [c EXCEPT !.decision =
                CASE c.samples = <<>> -> NoSampleDecision(now)
                  [] c.samples # <<>> /\ policy = PREDICTIVE -> TrendDecision(c, view, now)
                  [] OTHER -> ProactiveDecision(c, view, now)]
        BY <1>2, <1>7, <2>1 DEF PolicyDecided
    <2> HIDE DEF view
    <2>6. /\ c.samples = <<>> => d = NoSampleDecision(now)
          /\ c.samples # <<>> /\ policy = PREDICTIVE => d = TrendDecision(c, view, now)
          /\ c.samples # <<>> /\ policy = SEASONAL => d = ProactiveDecision(c, view, now)
        BY <1>5, <2>2, <2>5
    <2>7. /\ forecaster' = [samples |-> forecaster'.samples, consumed |-> forecaster'.consumed,
                            decision |-> forecaster'.decision]
          /\ forecaster'.consumed = ConsumedAfter(clock) /\ WindowOf(forecaster'.samples, Known(clock))
        <3>1. PICK e : forecaster' = [c EXCEPT !.decision = e]
            BY <2>5
        <3>2. forecaster' = [samples |-> c.samples, consumed |-> ConsumedAfter(clock), decision |-> e]
            BY <2>2, <3>1
        <3> QED BY <2>2, <3>2
    <2> HIDE DEF d
    <2>8. CASE c.samples = <<>>
        <3>1. d.code = CodeForTarget(contract, now, now)
            BY <2>6, <2>8 DEF NoSampleDecision
        <3>2. d.code \in Codes(contract) /\ next = Toward(now, now)
            BY <1>1, <3>1, TargetCode DEF PolicyInv
        <3>3. ~(next < now)
            BY <1>2, <3>2 DEF Toward
        <3> QED BY <1>1, <1>7, <2>7, <3>2, <3>3 DEF d, view
    <2>9. CASE c.samples # <<>> /\ policy = PREDICTIVE
        <3>1. view.sample /\ view.measured.queued \in Nat
            BY <1>3, <2>4, <2>9
        <3>2. d.code \in Codes(contract) /\ (next < now => view.measured.queued = 0)
            BY <1>1, <2>4, <2>6, <2>9, <3>1, TrendMoves DEF PolicyInv
        <3> QED BY <1>1, <1>5, <1>7, <2>7, <2>9, <3>1, <3>2 DEF d, view
    <2>10. CASE c.samples # <<>> /\ policy = SEASONAL
        <3>1. view.sample /\ view.measured.queued \in Nat /\ view.measured.demand \in Nat
            BY <1>3, <2>4, <2>10
        <3>2. /\ d.code \in Codes(contract)
              /\ next < now => /\ view.measured.queued = 0
                               /\ next = now - 1
                               /\ next >= Desired(Whole(view.measured.demand))
                               /\ next >= d.desired
            BY <1>1, <2>4, <2>6, <2>10, <3>1, ProactiveMoves DEF PolicyInv
        <3> QED BY <1>1, <1>7, <2>7, <3>1, <3>2 DEF d, view
    <2> QED BY <1>4, <1>7, <2>8, <2>9, <2>10
<1> QED BY <1>6, <1>7

-----------------------------------------------------------------------------
LEMMA PolicyStep == ASSUME PolicyInv, [PolicyNext]_policyVars PROVE PolicyInv'
<1>1. clock \in Nat /\ TelemetryDelay \in Nat /\ HistoryWindow \in Nat \ {0}
    BY EnvConfig, PredictiveConfig DEF PolicyInv, EpisodeInv
<1>2. CASE PolicyEpisode
    <2>1. Reset /\ forecaster' = FreshForecaster /\ policy' = policy /\ clock' = 0
          /\ info'.kind = "reset"
        BY <1>2 DEF PolicyEpisode, Reset, ResetInfo
    <2>2. EpisodeInv' /\ TelemetryInv' /\ InfoInv'
        BY <2>1, ResetKeepsEpisode, ResetKeepsTelemetry DEF PolicyInv, InfoInv
    <2>3. forecaster'.consumed = ConsumedAfter(0) /\ Known(0) = 0 /\ forecaster'.samples = <<>>
        BY <1>1, <2>1 DEF FreshForecaster, ConsumedAfter, Known, Larger
    <2>4. WindowOf(forecaster.samples, Known(0))'
        <3>1. <<>> \in Seq(Sample) /\ Len(<<>>) = 0
            OBVIOUS
        <3>2. Smaller(HistoryWindow, 0) = 0
            BY <1>1 DEF Smaller
        <3> QED BY <2>3, <3>1, <3>2 DEF WindowOf, Known
    <2>5. SampleInv'
        <3>1. 0 \in {clock' - 1, clock'}
            BY <2>1
        <3>2. policy' \in Policies
            BY <2>1 DEF PolicyInv, SampleInv
        <3>3. forecaster' = [samples |-> forecaster'.samples, consumed |-> forecaster'.consumed,
                             decision |-> forecaster'.decision]
            BY <2>1 DEF FreshForecaster
        <3> QED BY <2>3, <2>4, <3>1, <3>2, <3>3 DEF SampleInv, ConsumedAfter, Known
    <2> QED BY <2>2, <2>5 DEF PolicyInv
<1>3. CASE PolicyTick \/ PolicyConsult
    <2>1. ~needsReset /\ forecaster' = PolicyDecided(DecisionInfo) /\ policy' = policy
        BY <1>3 DEF PolicyTick, PolicyConsult
    <2>2. /\ forecaster' = [samples |-> forecaster'.samples, consumed |-> forecaster'.consumed,
                            decision |-> forecaster'.decision]
          /\ policy = STATIC => forecaster'.samples = <<>>
          /\ policy # STATIC => /\ forecaster'.consumed = ConsumedAfter(clock)
                                /\ WindowOf(forecaster'.samples, Known(clock))
          /\ forecaster'.decision.code \in Codes(contract)
        BY <2>1, PolicyDecision
    <2>3. /\ EpisodeInv' /\ TelemetryInv' /\ InfoInv' /\ world' = world
          /\ clock \in {clock' - 1, clock'}
        <3>1. CASE PolicyTick
            <4>1. PICK code \in Codes(contract) : code = forecaster'.decision.code /\ Step(code)
                BY <2>2, <3>1 DEF PolicyTick
            <4>2. EpisodeInv' /\ TelemetryInv'
                BY <4>1, StepKeepsEpisode, StepKeepsTelemetry DEF PolicyInv
            <4>3. /\ clock' = clock + 1 /\ world' = world /\ info'.kind = "step"
                  /\ info'.tick = clock
                  /\ info'.applied = Committed(Acted(code)) - Committed(pool)
                BY <4>1 DEF Step
            <4>4. info'.applied \in Int
                <5>1. PoolInv(Acted(code)) /\ PoolInv(pool)
                    BY <2>1, ActedInv DEF PolicyInv, EpisodeInv
                <5>2. Committed(Acted(code)) \in Int /\ Committed(pool) \in Int
                    BY <5>1, ReplicaConfig DEF PoolInv
                <5> QED BY <4>3, <5>2
            <4>5. InfoInv' /\ clock \in {clock' - 1, clock'}
                BY <1>1, <4>3, <4>4 DEF InfoInv
            <4> QED BY <4>2, <4>3, <4>5
        <3>2. CASE PolicyConsult
            <4>1. UNCHANGED envVars
                BY <3>2 DEF PolicyConsult
            <4>2. EpisodeInv' /\ TelemetryInv'
                BY <4>1, EnvStays DEF PolicyInv
            <4>3. InfoInv' /\ world' = world /\ clock \in {clock' - 1, clock'}
                BY <4>1 DEF PolicyInv, InfoInv, envVars
            <4> QED BY <4>2, <4>3
        <3> QED BY <1>3, <3>1, <3>2
    <2>4. PICK n \in {clock' - 1, clock'} : n = clock
        BY <2>3, Zenon
    <2>5. SampleInv'
        <3>1. policy' \in Policies
            BY <2>1 DEF PolicyInv, SampleInv
        <3>2. policy' # STATIC =>
                forecaster'.consumed = ConsumedAfter(n) /\ WindowOf(forecaster.samples, Known(n))'
            BY <2>1, <2>2, <2>3, <2>4 DEF WindowOf, Known, ConsumedAfter
        <3> QED BY <2>1, <2>2, <2>4, <3>1, <3>2 DEF SampleInv
    <2> QED BY <2>3, <2>5 DEF PolicyInv
<1>4. CASE UNCHANGED policyVars
    <2>1. UNCHANGED envVars /\ UNCHANGED <<forecaster, policy, info, clock, world>>
        BY <1>4 DEF policyVars, envVars
    <2>2. EpisodeInv' /\ TelemetryInv'
        BY <2>1, EnvStays DEF PolicyInv
    <2>3. InfoInv' /\ SampleInv'
        BY <2>1 DEF PolicyInv, InfoInv, SampleInv, WindowOf, Known, ConsumedAfter
    <2> QED BY <2>2, <2>3 DEF PolicyInv
<1> QED BY <1>2, <1>3, <1>4 DEF PolicyNext

\* The loop of a forecasting or static controller keeps its invariant.
THEOREM PolicyInvariant == PolicySpec => []PolicyInv
<1>1. PolicyInit => PolicyInv
    <2> SUFFICES ASSUME PolicyInit PROVE PolicyInv
        OBVIOUS
    <2>1. EpisodeInv /\ TelemetryInv
        BY InitHolds DEF PolicyInit
    <2>2. /\ info.kind = "none" /\ clock = 0 /\ policy \in Policies
          /\ forecaster = FreshForecaster
        BY DEF PolicyInit, Init, NoInfo
    <2>3. InfoInv
        BY <2>2 DEF InfoInv
    <2>4. TelemetryDelay \in Nat /\ HistoryWindow \in Nat \ {0}
        BY EnvConfig, PredictiveConfig
    <2>5. forecaster.consumed = ConsumedAfter(0) /\ Known(0) = 0 /\ forecaster.samples = <<>>
        BY <2>2, <2>4 DEF FreshForecaster, ConsumedAfter, Known, Larger
    <2>6. WindowOf(forecaster.samples, Known(0))
        <3>1. <<>> \in Seq(Sample) /\ Len(<<>>) = 0
            OBVIOUS
        <3>2. Smaller(HistoryWindow, 0) = 0
            BY <2>4 DEF Smaller
        <3> QED BY <2>5, <3>1, <3>2 DEF WindowOf
    <2>7. SampleInv
        <3>1. 0 \in {clock - 1, clock}
            BY <2>2
        <3>2. forecaster = [samples |-> forecaster.samples, consumed |-> forecaster.consumed,
                            decision |-> forecaster.decision]
            BY <2>2 DEF FreshForecaster
        <3> QED BY <2>2, <2>5, <2>6, <3>1, <3>2 DEF SampleInv
    <2> QED BY <2>1, <2>3, <2>7 DEF PolicyInv
<1> QED BY <1>1, PolicyStep, PTL DEF PolicySpec

\* However often a decision is asked for, the window holds the demand of each
\* of the newest visible ticks of this episode once.
THEOREM SamplesAreVisible == PolicySpec => []SamplesAreVisibleDemands
<1>1. PolicyInv => SamplesAreVisibleDemands
    <2> SUFFICES ASSUME PolicyInv PROVE SamplesAreVisibleDemands
        OBVIOUS
    <2>1. /\ clock \in Nat /\ TelemetryDelay \in Nat
        BY EnvConfig DEF PolicyInv, EpisodeInv
    <2>2. CASE policy = STATIC
        BY <2>2 DEF PolicyInv, SampleInv, SamplesAreVisibleDemands
    <2>3. CASE policy # STATIC
        <3>1. PICK n \in {clock - 1, clock} :
                forecaster.consumed = ConsumedAfter(n) /\ WindowOf(forecaster.samples, Known(n))
            BY <2>3 DEF PolicyInv, SampleInv
        <3>2. /\ Known(n) = Larger(0, forecaster.consumed - TelemetryDelay + 1)
              /\ Known(n) > 0 => /\ Known(n) = forecaster.consumed - TelemetryDelay + 1
                                 /\ Known(n) + TelemetryDelay - 1 = forecaster.consumed
              /\ Known(n) \in Nat /\ forecaster.consumed \in Int
            BY <2>1, <3>1 DEF Known, ConsumedAfter, NoTick, Larger
        <3>3. PICK s : s = forecaster.samples /\ s \in Seq(Sample)
                        /\ Len(s) = Smaller(HistoryWindow, Known(n))
            BY <3>1 DEF WindowOf
        <3>4. ASSUME NEW i \in DOMAIN s
              PROVE  /\ s[i].rate
                          = world.demand[forecaster.consumed - TelemetryDelay - (Len(s) - i) + 1]
                     /\ s[i].tick = forecaster.consumed - (Len(s) - i)
            <4>1. i \in 1 .. Len(s) /\ Len(s) \in Nat
                BY <3>3
            <4>2. Known(n) > 0
                <5>1. Len(s) > 0
                    BY <4>1
                <5> QED BY <3>2, <3>3, <5>1, PredictiveConfig DEF Smaller
            <4>3. /\ s[i].rate = world.demand[Known(n) - (Len(s) - i)]
                  /\ s[i].tick = (Known(n) + TelemetryDelay - 1) - (Len(s) - i)
                BY <3>1, <3>3, <4>1 DEF WindowOf
            <4>4. Known(n) - (Len(s) - i)
                    = forecaster.consumed - TelemetryDelay - (Len(s) - i) + 1
                BY <2>1, <3>2, <4>1, <4>2
            <4> QED BY <3>2, <4>2, <4>3, <4>4
        <3> QED BY <3>2, <3>3, <3>4 DEF SamplesAreVisibleDemands
    <2> QED BY <2>2, <2>3
<1> QED BY <1>1, PolicyInvariant, PTL

\* No policy gives up capacity while a visible backlog waits, and each gives it
\* up, or approaches its size, as it promises.
THEOREM ReductionsAreCareful == PolicySpec => ReducesCarefully
<1> DEFINE Careful ==
        clock' = clock + 1 =>
            LET view == DecisionInfo
                now == Committed(pool)
                next == Committed(pool')
            IN  /\ next < now /\ policy # STATIC => view.sample /\ view.measured.queued = 0
                /\ next < now /\ policy = SEASONAL =>
                    /\ next = now - 1
                    /\ next >= Desired(Whole(view.measured.demand))
                    /\ next >= forecaster'.decision.desired
                /\ policy = STATIC =>
                    IF contract.semantics = DELTA_V1
                    THEN Larger(next - StaticTarget, StaticTarget - next)
                            = Larger(0, Larger(now - StaticTarget, StaticTarget - now) - 1)
                    ELSE next = StaticTarget
<1>1. PolicyInv /\ [PolicyNext]_policyVars => [Careful]_policyVars
    <2> SUFFICES ASSUME PolicyInv, PolicyNext, clock' = clock + 1 PROVE Careful
        BY DEF policyVars
    <2>1. clock \in Nat
        BY LoopFacts DEF PolicyInv
    <2>2. PolicyTick
        <3>1. ~PolicyEpisode
            BY <2>1 DEF PolicyEpisode, Reset
        <3>2. ~PolicyConsult
            BY <2>1 DEF PolicyConsult, envVars
        <3> QED BY <3>1, <3>2 DEF PolicyNext
    <2>3. ~needsReset /\ forecaster' = PolicyDecided(DecisionInfo)
        BY <2>2 DEF PolicyTick
    <2>4. PICK code : code = forecaster'.decision.code /\ Step(code)
        BY <2>2 DEF PolicyTick
    <2>5. PICK next : next = TargetFor(contract, code, Committed(pool))
        OBVIOUS
    <2>6. /\ code \in Codes(contract)
          /\ next < Committed(pool) /\ policy # STATIC =>
                DecisionInfo.sample /\ DecisionInfo.measured.queued = 0
          /\ next < Committed(pool) /\ policy = SEASONAL =>
                /\ next = Committed(pool) - 1
                /\ next >= Desired(Whole(DecisionInfo.measured.demand))
                /\ next >= forecaster'.decision.desired
          /\ policy = STATIC =>
                IF contract.semantics = DELTA_V1
                THEN Distance(next) = Larger(0, Distance(Committed(pool)) - 1)
                ELSE next = StaticTarget
        BY <2>3, <2>4, <2>5, PolicyDecision
    <2>7. EpisodeInv'
        BY <2>4, <2>6, StepKeepsEpisode DEF PolicyInv
    <2>8. Committed(pool') = next
        <3>1. info'.kind = "step" /\ info'.target = next
            BY <2>4, <2>5 DEF Step
        <3>2. Committed(pool)' = info'.target
            BY <2>7, <3>1 DEF EpisodeInv, TargetReached
        <3> QED BY <3>1, <3>2 DEF Committed
    <2> QED BY <2>6, <2>8 DEF Distance
<1> QED BY <1>1, PolicyInvariant, PTL DEF PolicySpec, ReducesCarefully
=============================================================================
