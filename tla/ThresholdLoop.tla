---------------------------- MODULE ThresholdLoop ---------------------------
(***************************************************************************)
(* The reactive threshold controller closing the loop over the environment *)
(* (run_episode): one decision per tick, taken on what the telemetry delay *)
(* lets it see, under controller bounds that may differ from the           *)
(* environment's, with a cooldown after every applied change. A caller may *)
(* also ask for a decision without stepping.                               *)
(*                                                                         *)
(* Thresholds are percentages; utilization is load / service, so a         *)
(* comparison with a threshold is one of whole numbers.                    *)
(***************************************************************************)
EXTENDS AutoscalingEnv

CONSTANTS
    Low, High,          \* thresholds, in percent
    CtlMin, CtlMax,     \* the controller's own replica bounds
    CooldownTicks       \* decisions held after an applied change

ASSUME ControllerConfig ==
    /\ Low \in Nat /\ High \in Nat /\ Low < High /\ High < 100
    /\ CtlMin \in Nat \ {0} /\ CtlMax \in Nat /\ CtlMin <= CtlMax
    /\ CooldownTicks \in Nat

VARIABLES
    controller,     \* cooldown remaining, tick last consumed, last decision
    since,          \* history: decisions since the last applied change, capped
    rank            \* history: which of them the last decision was

vars == <<world, pool, depth, clock, position, draws, telemetry, needsReset, info,
          controller, since, rank>>

NoDecision == [reason |-> "none", desired |-> 0, step |-> HOLD, code |-> 0]
FreshController == [cooldown |-> 0, consumed |-> NoTick, decision |-> NoDecision]

Thresholds == {"above_high", "below_low", "at_max", "at_min", "within_band"}
Reasons == Thresholds \cup {"no_sample", "above_max", "below_min", "cooldown"}

Above(m, threshold) == 100 * m.load > threshold * m.service
Below(m, threshold) == 100 * m.load < threshold * m.service

-----------------------------------------------------------------------------
\* Slip: re-reading an info restarts its cooldown.
NoticedAgain(view) ==
    [controller EXCEPT
        !.cooldown = IF view.changed /\ view.applied # 0 THEN CooldownTicks ELSE @]

\* The change of each completed tick is looked at once, and starts a cooldown
\* if the fleet really changed.
Noticed(view) ==
    IF CooldownTicks = 0 \/ ~view.changed \/ view.tick = controller.consumed
    THEN controller
    ELSE [controller EXCEPT
            !.consumed = view.tick,
            !.cooldown = IF view.applied # 0 THEN CooldownTicks ELSE @]

\* What the thresholds say, once nothing else decides.
ThresholdReason(m, desired) ==
    CASE Above(m, High) -> IF desired < CtlMax THEN "above_high" ELSE "at_max"
      [] Below(m, Low)  -> IF desired > CtlMin THEN "below_low" ELSE "at_min"
      [] OTHER          -> "within_band"

\* Slip: a cooldown blocks the correction of the bounds.
ReasonCoolingFirst(view, desired, cooling) ==
    IF ~view.sample THEN "no_sample"
    ELSE IF cooling THEN "cooldown"
    ELSE IF desired > CtlMax THEN "above_max"
    ELSE IF desired < CtlMin THEN "below_min"
    ELSE ThresholdReason(view.measured, desired)

\* Decision priority: no sample, bounds, cooldown, thresholds.
Reason(view, desired, cooling) ==
    IF ~view.sample THEN "no_sample"
    ELSE IF desired > CtlMax THEN "above_max"
    ELSE IF desired < CtlMin THEN "below_min"
    ELSE IF cooling THEN "cooldown"
    ELSE ThresholdReason(view.measured, desired)

StepFor(reason) ==
    CASE reason \in {"above_max", "below_low"}  -> SCALE_DOWN
      [] reason \in {"below_min", "above_high"} -> SCALE_UP
      [] OTHER -> HOLD

\* Slip: a slot of the cooldown is used up by every decision.
ActedUnguarded(view) ==
    LET noticed == Noticed(view)
        desired == view.counts.active + view.counts.pending
        reason == Reason(view, desired, noticed.cooldown > 0)
    IN  [noticed EXCEPT
            !.cooldown = @ - 1,
            !.decision = [reason |-> reason, desired |-> desired,
                          step |-> StepFor(reason),
                          code |-> CodeForStep(contract, StepFor(reason), desired)]]

\* act(): the controller after deciding on the view.
Decided(view) ==
    LET noticed == Noticed(view)
        desired == view.counts.active + view.counts.pending
        cooling == noticed.cooldown > 0
        reason == Reason(view, desired, cooling)
    IN  [noticed EXCEPT
            !.cooldown = IF cooling THEN @ - 1 ELSE @,
            !.decision = [reason |-> reason, desired |-> desired,
                          step |-> StepFor(reason),
                          code |-> CodeForStep(contract, StepFor(reason), desired)]]

-----------------------------------------------------------------------------
NeverChanged == CooldownTicks + 1
NextRank == Smaller(since + 1, NeverChanged)

LoopInit ==
    /\ Init
    /\ controller = FreshController
    /\ since = NeverChanged
    /\ rank = NeverChanged

\* run_episode starts, whatever was running before.
NewEpisode ==
    /\ Reset
    /\ controller' = FreshController
    /\ since' = NeverChanged
    /\ rank' = NeverChanged

\* One turn of run_episode's loop: decide on the delayed view, then step.
Tick ==
    /\ ~needsReset
    /\ controller' = Decided(DecisionInfo)
    /\ Step(controller'.decision.code)
    /\ rank' = NextRank
    /\ since' = IF info'.applied # 0 THEN 0 ELSE NextRank

\* A decision that nobody acts on.
Consult ==
    /\ ~needsReset
    /\ controller' = Decided(DecisionInfo)
    /\ rank' = NextRank
    /\ since' = NextRank
    /\ UNCHANGED envVars

LoopNext == NewEpisode \/ Tick \/ Consult

LoopSpec == LoopInit /\ [][LoopNext]_vars

-----------------------------------------------------------------------------
\* The controller keeps its fields in their types: a cooldown never outlasts
\* CooldownTicks and never runs below 0.
LoopTypeOK ==
    /\ controller.cooldown \in 0 .. CooldownTicks
    /\ controller.consumed \in -1 .. EpisodeTicks - 1
    /\ controller.decision = NoDecision \/ controller.decision.reason \in Reasons
    /\ since \in 0 .. NeverChanged
    /\ rank \in 1 .. NeverChanged

\* "The next N decisions hold with reason cooldown and decision N + 1 applies
\* thresholds again": counted from the physical change of the fleet, however
\* often an info is re-read, and never because of a request that was clipped.
CooldownExact ==
    controller.decision.reason \in Thresholds \cup {"cooldown"} =>
        (controller.decision.reason = "cooldown" <=> rank <= CooldownTicks)

\* How far a committed capacity is outside the controller's bounds.
Outside(n) == Larger(0, Larger(n - CtlMax, CtlMin - n))

\* Capacity outside the controller's bounds comes back by exactly one replica per
\* tick from the first sample on, during a cooldown too and not before; once
\* inside, nothing takes it out again.
CorrectedOnePerTick ==
    CtlMin <= MaxReplicas /\ MinReplicas <= CtlMax =>
        Outside(Committed(pool)) =
            Larger(0, Outside(InitialReplicas)
                        - Larger(0, clock - TelemetryDelay - 1))

\* A decision means the same step under both action contracts: the fleet moves
\* by the decided replica, or not at all at the environment's bounds.
StepMeansTheSame ==
    [][clock' = clock + 1 =>
        LET effect == DELTA_EFFECTS[controller'.decision.step]
        IN  info'.applied =
                IF Committed(pool) + effect \in MinReplicas .. MaxReplicas
                THEN effect ELSE 0]_vars
=============================================================================
