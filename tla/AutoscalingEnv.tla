--------------------------- MODULE AutoscalingEnv ---------------------------
(***************************************************************************)
(* One autoscaling environment: the gym API (reset, step) over the replica *)
(* pool, the request queue, the trace replay, the clock and the telemetry  *)
(* buffer, with seeded capacity jitter and startup times.                  *)
(*                                                                         *)
(* Request volumes are whole requests per tick; a replica's capacity is    *)
(* whole requests per tick too, nominal or jittered. Latency, cost, SLA    *)
(* and reward are functions of the measurements kept here and are left     *)
(* out; the cost is represented by the number of billable replicas.        *)
(***************************************************************************)
EXTENDS ReplicaLifecycle, ActionContract

CONSTANTS
    TelemetryDelay,     \* config.dynamics.telemetry_delay_ticks
    HistoryTicks,       \* config.observation.traffic_history_ticks
    NominalCapacity,    \* requests one replica serves in one tick
    Jittered,           \* config.dynamics.capacity_jitter_fraction > 0
    EpisodeTicks,       \* length of the workload trace
    Worlds              \* action semantics, trace and random realizations: see World

ASSUME EnvConfig ==
    /\ TelemetryDelay \in Nat
    /\ HistoryTicks \in Nat \ {0}
    /\ NominalCapacity \in Nat \ {0}
    /\ Jittered \in BOOLEAN
    /\ EpisodeTicks \in Nat \ {0}

\* What is fixed before the first reset: config.action.semantics, the trace, and
\* the sequences the two seeds determine (capacity per tick, multiplier per
\* requested replica).
World ==
    [semantics : ACTION_SEMANTICS,
     demand : [1 .. EpisodeTicks -> Nat],
     capacity : [1 .. EpisodeTicks -> Nat \ {0}],
     startup : [1 .. EpisodeTicks * MaxReplicas -> Multipliers]]

ASSUME WorldConfig == Worlds \subseteq World /\ Worlds # {}

VARIABLES
    world,          \* the realization this environment was built with
    pool,           \* ReplicaPool
    depth,          \* RequestQueue: requests waiting after the latest tick
    clock,          \* SimulationClock: ticks elapsed since reset
    position,       \* WorkloadReplay: the tick whose demand comes next
    draws,          \* values taken from each generator since its re-creation
    telemetry,      \* completed-tick snapshots, newest first
    needsReset,     \* no episode is running
    info            \* what the latest reset or step returned

envVars == <<world, pool, depth, clock, position, draws, telemetry, needsReset, info>>

contract == [semantics |-> world.semantics, min |-> MinReplicas, max |-> MaxReplicas]

-----------------------------------------------------------------------------
(* The parts of one step.                                                  *)
\* Slip: the buffer is sized for the longer of the two windows only.
BufferSizeOneWindow == Larger(TelemetryDelay, HistoryTicks)

BufferSize == TelemetryDelay + HistoryTicks

Counts(p) ==
    [active |-> p.active, pending |-> Len(p.pending), terminating |-> p.terminating]

\* The multipliers the startup generator yields for a scale-up.
StartupDraws(p, count) ==
    [i \in 1 .. DrawCount(p, count) |-> world.startup[draws.startup + i]]

\* The values a step takes from the startup generator: one per replica added
\* to pending, none under the fixed model.
StartupDrawn(before, after) ==
    IF Multipliers = {2} THEN 0
    ELSE Larger(0, Len(after.pending) - Len(before.pending))

\* Slip: a desired-replicas action moves one replica at a time.
ActedByOne(code) ==
    LET committed == Committed(pool)
        target == TargetFor(contract, code, committed)
    IN  CASE target > committed -> ScaledUp(pool, 1, StartupDraws(pool, 1))
          [] target < committed -> ScaledDown(pool, 1)
          [] OTHER -> pool

\* The pool after the action, before any time passes.
Acted(code) ==
    LET committed == Committed(pool)
        target == TargetFor(contract, code, committed)
    IN  CASE target > committed ->
                ScaledUp(pool, target - committed,
                         StartupDraws(pool, target - committed))
          [] target < committed -> ScaledDown(pool, committed - target)
          [] OTHER -> pool

\* Slip: startup times and capacity jitter share one generator.
CapacityFromSharedGenerator ==
    IF Jittered
    THEN world.capacity[((draws.capacity + draws.startup) % EpisodeTicks) + 1]
    ELSE NominalCapacity

Capacity == IF Jittered THEN world.capacity[draws.capacity + 1] ELSE NominalCapacity

\* Slip: the backlog is served before it is counted as waiting.
MeasuredForgettingBacklog(p) ==
    LET demand == world.demand[position + 1]
        service == p.active * Capacity
    IN  [tick |-> clock, demand |-> demand, service |-> service,
         load |-> Smaller(demand, service),
         queued |-> demand - Smaller(demand, service),
         billable |-> Committed(p)]

\* The measurements of one tick served by the pool p.
Measured(p) ==
    LET demand == world.demand[position + 1]
        work == depth + demand
        service == p.active * Capacity
    IN  [tick |-> clock, demand |-> demand, service |-> service,
         load |-> Smaller(work, service),
         queued |-> work - Smaller(work, service),
         billable |-> Committed(p)]

NoInfo == [kind |-> "none"]
ResetInfo(p) == [kind |-> "reset", tick |-> 0, counts |-> Counts(p)]

\* Slip: the buffer never drops anything.
RecordedUnbounded(snapshot) == <<snapshot>> \o telemetry

\* Newest first; the buffer drops what no delayed view can reach.
Recorded(snapshot) ==
    SubSeq(<<snapshot>> \o telemetry, 1, Smaller(Len(telemetry) + 1, BufferSize))

-----------------------------------------------------------------------------
Init ==
    /\ world \in Worlds
    /\ pool = FreshPool
    /\ depth = 0
    /\ clock = 0
    /\ position = 0
    /\ draws = [capacity |-> 0, startup |-> 0]
    /\ telemetry = <<>>
    /\ needsReset = TRUE
    /\ info = NoInfo

\* Slip: the backlog survives a reset.
ResetKeepingQueue ==
    /\ pool' = FreshPool
    /\ depth' = depth
    /\ clock' = 0
    /\ position' = 0
    /\ draws' = [capacity |-> 0, startup |-> 0]
    /\ telemetry' = <<>>
    /\ needsReset' = FALSE
    /\ info' = ResetInfo(FreshPool)
    /\ UNCHANGED world

\* reset(): any time, in the middle of an episode too.
Reset ==
    /\ pool' = FreshPool
    /\ depth' = 0
    /\ clock' = 0
    /\ position' = 0
    /\ draws' = [capacity |-> 0, startup |-> 0]
    /\ telemetry' = <<>>
    /\ needsReset' = FALSE
    /\ info' = ResetInfo(FreshPool)
    /\ UNCHANGED world

\* step(code): act, serve one tick, measure, let one interval pass.
Step(code) ==
    LET acted == Acted(code)
        measured == Measured(acted)
    IN  /\ ~needsReset
        /\ pool' = Advanced(acted, Interval)
        /\ depth' = measured.queued
        /\ clock' = clock + 1
        /\ position' = position + 1
        /\ draws' = [capacity |-> draws.capacity + (IF Jittered THEN 1 ELSE 0),
                     startup |-> draws.startup + StartupDrawn(pool, acted)]
        /\ telemetry' = Recorded(measured)
        /\ needsReset' = (position' = EpisodeTicks)
        /\ info' = [kind |-> "step", tick |-> clock, code |-> code,
                    target |-> TargetFor(contract, code, Committed(pool)),
                    applied |-> Committed(acted) - Committed(pool),
                    counts |-> Counts(acted), measured |-> measured]
        /\ UNCHANGED world

Next == Reset \/ \E code \in Codes(contract) : Step(code)

Spec == Init /\ [][Next]_envVars

-----------------------------------------------------------------------------
(* What a controller may see.                                              *)
\* A controller that has consumed no info yet.
NoTick == -1

VisibleTelemetry ==
    SubSeq(telemetry, TelemetryDelay + 1, Smaller(Len(telemetry), BufferSize))

\* The control-plane facts of the latest info, the newest visible measurement
\* if there is one, and the current replica counts.
DecisionInfo ==
    [tick |-> info.tick,
     changed |-> info.kind = "step",
     applied |-> IF info.kind = "step" THEN info.applied ELSE 0,
     sample |-> VisibleTelemetry # <<>>,
     measured |-> IF VisibleTelemetry = <<>> THEN NoInfo ELSE VisibleTelemetry[1],
     counts |-> Counts(pool)]

-----------------------------------------------------------------------------
Snapshot ==
    [tick : 0 .. EpisodeTicks - 1, demand : Nat, service : Nat, load : Nat,
     queued : Nat, billable : MinReplicas .. MaxReplicas]

\* Every variable in its type; the pool's own invariant holds between steps.
TypeOK ==
    /\ world \in Worlds
    /\ PoolInv(pool)
    /\ depth \in Nat
    /\ clock \in 0 .. EpisodeTicks
    /\ position \in 0 .. EpisodeTicks
    /\ draws.capacity \in 0 .. EpisodeTicks
    /\ draws.startup \in 0 .. EpisodeTicks * (MaxReplicas - MinReplicas)
    /\ telemetry \in Seq(Snapshot)
    /\ Len(telemetry) <= BufferSize
    /\ needsReset \in BOOLEAN
    /\ info.kind \in {"none", "reset", "step"}

\* A controller sees exactly the completed ticks that are TelemetryDelay old
\* or older, newest first and at most HistoryTicks of them, never a newer one
\* and never one of another episode.
VisibleIsDelayedTruth ==
    LET seen == VisibleTelemetry
    IN  /\ Len(seen) = Smaller(HistoryTicks, Larger(0, clock - TelemetryDelay))
        /\ \A k \in DOMAIN seen :
            /\ seen[k].tick = clock - TelemetryDelay - k
            /\ seen[k].demand = world.demand[seen[k].tick + 1]

\* The action moved the committed capacity to the requested target in one
\* step, and the passing of the tick did not change it.
TargetReached == info.kind = "step" => Committed(pool) = info.target
=============================================================================
