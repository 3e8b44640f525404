--------------------------- MODULE PredictiveLoop ---------------------------
(***************************************************************************)
(* The forecasting controllers and the static one closing the loop over    *)
(* the environment (run_episode). predictive-v1 sizes for a linear trend;  *)
(* predictive-seasonal-v1 sizes for the larger of that trend and a         *)
(* historical profile, scales out at once and in by one; static holds a    *)
(* fixed size. A caller may also ask for a decision without stepping.      *)
(*                                                                         *)
(* Rates are whole requests per tick, so clearing a backlog of q requests  *)
(* in one control interval is a rate of q. Forecasts are exact fractions   *)
(* [num, den]; the code rounds them to floats.                             *)
(***************************************************************************)
EXTENDS AutoscalingEnv, Sums

CONSTANTS
    Policies,           \* the controllers to run: PREDICTIVE, SEASONAL, STATIC
    HistoryWindow,      \* history_window_ticks
    TargetPercent,      \* target_utilization
    Profile,            \* rate of each profiled tick, from tick 0; <<>> is no profile
    StaticTarget        \* target_replicas of the static controller

PREDICTIVE == "predictive-v1"
SEASONAL == "predictive-seasonal-v1"
STATIC == "static"

ASSUME PredictiveConfig ==
    /\ Policies \subseteq {PREDICTIVE, SEASONAL, STATIC}
    /\ HistoryWindow \in Nat \ {0}
    /\ TargetPercent \in 1 .. 100
    /\ Profile \in Seq(Nat)
    /\ StaticTarget \in MinReplicas .. MaxReplicas

VARIABLES
    policy,         \* the controller of this loop
    forecaster      \* its samples, the tick last consumed, its last decision

policyVars == <<world, pool, depth, clock, position, draws, telemetry, needsReset,
                info, policy, forecaster>>

Undecided == [reason |-> "none", desired |-> 0, code |-> 0]
FreshForecaster == [samples |-> <<>>, consumed |-> NoTick, decision |-> Undecided]

-----------------------------------------------------------------------------
(* Arithmetic on fractions with positive denominators.                     *)
Whole(n) == [num |-> n, den |-> 1]
Less(a, b) == a.num * b.den < b.num * a.den
Greater(a, b) == IF Less(a, b) THEN b ELSE a
Plus(a, b) == [num |-> a.num * b.den + b.num * a.den, den |-> a.den * b.den]
Times(a, b) == [num |-> a.num * b.num, den |-> a.den * b.den]

\* Slip: the line is evaluated at the tick of the newest sample.
LinearTrendNow(samples, target) == Whole(samples[Len(samples)].rate)

\* linear_trend_forecast: the rate itself with one sample, else the
\* least-squares line through the samples at the target tick; never negative.
LinearTrend(samples, target) ==
    LET n   == Len(samples)
        Sx  == Total([i \in 1 .. n |-> samples[i].tick])
        Sy  == Total([i \in 1 .. n |-> samples[i].rate])
        Sxx == Total([i \in 1 .. n |-> samples[i].tick * samples[i].tick])
        Sxy == Total([i \in 1 .. n |-> samples[i].tick * samples[i].rate])
        D   == n * Sxx - Sx * Sx
    IN  IF n = 1 THEN Whole(samples[1].rate)
        ELSE [num |-> Larger(0, Sy * D + (n * Sxy - Sx * Sy) * (n * target - Sx)),
              den |-> n * D]

\* The fraction in the k-th place once f is sorted; equals keep their order.
Place(f, i) ==
    Cardinality({j \in DOMAIN f : Less(f[j], f[i]) \/ (~Less(f[i], f[j]) /\ j <= i)})
Sorted(f, k) == f[CHOOSE i \in DOMAIN f : Place(f, i) = k]

\* statistics.median of a non-empty sequence of fractions.
Median(f) ==
    LET n == Len(f)
    IN  IF n % 2 = 1 THEN Sorted(f, (n + 1) \div 2)
        ELSE Times(Plus(Sorted(f, n \div 2), Sorted(f, n \div 2 + 1)),
                   [num |-> 1, den |-> 2])

Profiled(tick) == tick + 1 \in DOMAIN Profile

\* profile_level_factor: how far the recent demand is above the profile.
LevelFactor(samples) ==
    LET usable == {i \in DOMAIN samples :
                    Profiled(samples[i].tick) /\ Profile[samples[i].tick + 1] > 0}
        ratios == [i \in DOMAIN samples |->
                    [num |-> samples[i].rate, den |-> Profile[samples[i].tick + 1]]]
    IN  IF usable = {} THEN Whole(1) ELSE Median(AtIndices(ratios, usable))

\* size_replicas, before and after the bounds.
Needed(rate) ==
    LET perReplica == rate.den * NominalCapacity * TargetPercent
    IN  (100 * rate.num + perReplica - 1) \div perReplica

Desired(rate) == Clip(contract, Needed(rate))

\* Slip: the horizon forgets that the decision is applied a tick later.
HorizonShort == StartupTicks

\* From the newest sample to the first tick that capacity requested now serves.
Horizon == 1 + StartupTicks

-----------------------------------------------------------------------------
\* Slip: the oldest samples are kept.
WindowedOldest(samples) == SubSeq(samples, 1, Smaller(Len(samples), HistoryWindow))

\* deque(maxlen=history_window_ticks): the newest samples.
Windowed(samples) ==
    SubSeq(samples, Larger(1, Len(samples) - HistoryWindow + 1), Len(samples))

\* _record_sample: the newest visible demand, once per tick, under info["tick"].
Sampled(view) ==
    IF ~view.sample \/ view.tick = forecaster.consumed THEN forecaster
    ELSE [forecaster EXCEPT
            !.consumed = view.tick,
            !.samples = Windowed(Append(@, [tick |-> view.tick,
                                            rate |-> view.measured.demand]))]

SourceTick(c) == c.samples[Len(c.samples)].tick

\* The forecast a decision of this policy is taken on.
Forecast(c) ==
    LET target == SourceTick(c) + Horizon
        linear == LinearTrend(c.samples, target)
    IN  IF policy = SEASONAL /\ Profiled(target)
        THEN Greater(linear, Times(Whole(Profile[target + 1]), LevelFactor(c.samples)))
        ELSE linear

\* predictive-v1: one step toward, or directly to, what forecast and backlog
\* need; no reduction while requests are queued.
TrendDecision(c, view, committed) ==
    LET forecast == Forecast(c)
        effective == Plus(forecast, Whole(view.measured.queued))
        desired == Desired(effective)
        Decide(reason, step, target) ==
            [reason |-> reason, desired |-> desired,
             code |-> IF contract.semantics = DELTA_V1 THEN step
                      ELSE CodeForTarget(contract, target, committed)]
    IN  CASE desired > committed ->
                Decide(IF Desired(forecast) > committed THEN "scale_up"
                       ELSE "queue_recovery", SCALE_UP, desired)
          [] desired < committed /\ view.measured.queued > 0 ->
                Decide("backlog_hold", HOLD, committed)
          [] desired < committed /\ view.measured.queued = 0 ->
                Decide("scale_down", SCALE_DOWN, desired)
          [] OTHER ->
                Decide(CASE Needed(effective) > MaxReplicas -> "at_max"
                         [] Needed(effective) < MinReplicas -> "at_min"
                         [] OTHER -> "at_target", HOLD, committed)

\* Slip: reductions go to the forecast at once.
ProactiveDecisionUnsafe(c, view, committed) ==
    LET desired == Desired(Plus(Forecast(c), Whole(view.measured.queued)))
    IN  [reason |-> "at_target", desired |-> desired,
         code |-> CodeForTarget(contract, desired, committed)]

\* predictive-seasonal-v1: out to the full target, in by one replica and never
\* below what the newest sample or the forecast needs.
ProactiveDecision(c, view, committed) ==
    LET desired == Desired(Plus(Forecast(c), Whole(view.measured.queued)))
        safe == Larger(Desired(Whole(view.measured.demand)), desired)
        Decide(reason, target) ==
            [reason |-> reason, desired |-> desired,
             code |-> CodeForTarget(contract, target, committed)]
    IN  CASE desired > committed -> Decide("scale_out", desired)
          [] desired = committed -> Decide("at_target", committed)
          [] desired < committed /\ view.measured.queued > 0 ->
                Decide("backlog_hold", committed)
          [] desired < committed /\ view.measured.queued = 0 /\ safe < committed ->
                Decide("scale_in", Larger(safe, committed - 1))
          [] OTHER -> Decide("hold_for_observed_or_forecast", committed)

StaticDecision(committed) ==
    [reason |-> "static", desired |-> StaticTarget,
     code |-> CodeForTarget(contract, StaticTarget, committed)]

NoSampleDecision(committed) ==
    [reason |-> "no_sample", desired |-> committed,
     code |-> CodeForTarget(contract, committed, committed)]

\* act(): the controller after deciding on the view.
PolicyDecided(view) ==
    LET committed == view.counts.active + view.counts.pending
        c == Sampled(view)
    IN  IF policy = STATIC THEN [forecaster EXCEPT !.decision = StaticDecision(committed)]
        ELSE [c EXCEPT !.decision =
                CASE c.samples = <<>> -> NoSampleDecision(committed)
                  [] c.samples # <<>> /\ policy = PREDICTIVE ->
                        TrendDecision(c, view, committed)
                  [] OTHER -> ProactiveDecision(c, view, committed)]

-----------------------------------------------------------------------------
PolicyInit == Init /\ policy \in Policies /\ forecaster = FreshForecaster

\* run_episode starts, whatever was running before.
PolicyEpisode == Reset /\ forecaster' = FreshForecaster /\ UNCHANGED policy

\* One turn of run_episode's loop.
PolicyTick ==
    /\ ~needsReset
    /\ forecaster' = PolicyDecided(DecisionInfo)
    /\ Step(forecaster'.decision.code)
    /\ UNCHANGED policy

\* A decision that nobody acts on.
PolicyConsult ==
    /\ ~needsReset
    /\ forecaster' = PolicyDecided(DecisionInfo)
    /\ UNCHANGED <<envVars, policy>>

PolicyNext == PolicyEpisode \/ PolicyTick \/ PolicyConsult

PolicySpec == PolicyInit /\ [][PolicyNext]_policyVars

-----------------------------------------------------------------------------
\* However often a decision is asked for, the window holds the demand of the
\* last HistoryWindow visible ticks of this episode, oldest first, each once.
\* (A decision of the running tick has been taken once info was consumed.)
SamplesAreVisibleDemands ==
    LET samples == forecaster.samples
        newest == forecaster.consumed - TelemetryDelay
    IN  /\ policy # STATIC => Len(samples) = Smaller(HistoryWindow, Larger(0, newest + 1))
        /\ \A i \in DOMAIN samples :
            /\ samples[i].rate = world.demand[newest - (Len(samples) - i) + 1]
            /\ samples[i].tick = forecaster.consumed - (Len(samples) - i)

\* "Add the latest completed tick's demand once, keyed by its tick."
SamplesKeyedByTheirTick ==
    \A i \in DOMAIN forecaster.samples :
        forecaster.samples[i].rate = world.demand[forecaster.samples[i].tick + 1]

Linear(d) == \A t \in 1 .. EpisodeTicks - 2 : d[t + 2] - d[t + 1] = d[t + 1] - d[t]
Rising(d) == \A t \in 1 .. EpisodeTicks - 1 : d[t] <= d[t + 1]

\* What the first decision, on a single sample, may leave of the initial fleet
\* serves every tick up to the first that a trend of two samples can reach.
EnoughToBegin ==
    \A t \in 1 .. Smaller(Horizon + 1, EpisodeTicks) :
        world.demand[t] <= NominalCapacity
                * Smaller(InitialReplicas, Desired(Whole(world.demand[1])))

\* The purpose of the horizon: on a steady ramp within the fleet's bounds, with
\* whole targets and current telemetry, no request ever waits, and every tick the
\* trend could reach is served at the target utilization. Down a ramp this is
\* what the conservative scale-in of predictive-seasonal-v1 is for.
RampServed ==
    (/\ TelemetryDelay = 0 /\ ~Jittered /\ Multipliers = {2}
     /\ contract.semantics = DESIRED_REPLICAS_V1
     /\ Linear(world.demand) /\ EnoughToBegin
     /\ policy = SEASONAL \/ (policy = PREDICTIVE /\ Rising(world.demand))
     /\ \A t \in 1 .. EpisodeTicks : Needed(Whole(world.demand[t])) <= MaxReplicas)
    => /\ depth = 0
       /\ info.kind = "step" /\ info.tick > Horizon =>
            100 * info.measured.demand <= TargetPercent * info.measured.service

\* Capacity is never removed while a visible backlog waits, and
\* predictive-seasonal-v1 gives up one replica at a time, never one that the
\* newest demand or the forecast needs; static ends on its target and stays.
ReducesCarefully ==
    [][clock' = clock + 1 =>
        LET view == DecisionInfo
            now == Committed(pool)
            next == Committed(pool')
        IN  /\ next < now /\ policy # STATIC => view.sample /\ view.measured.queued = 0
            /\ next < now /\ policy = SEASONAL =>
                /\ next = now - 1
                /\ next >= Desired(Whole(view.measured.demand))
                /\ next >= forecaster'.decision.desired
            /\ policy = STATIC =>
                IF contract.semantics = DELTA_V1
                THEN Larger(next - StaticTarget, StaticTarget - next)
                        = Larger(0, Larger(now - StaticTarget, StaticTarget - now) - 1)
                ELSE next = StaticTarget]_policyVars
=============================================================================
