----------------------------- MODULE ReplicaPool ----------------------------
(***************************************************************************)
(* The replica pool as a state machine: one action per public method that  *)
(* changes state, called in any order with any count and any elapsed time. *)
(***************************************************************************)
EXTENDS ReplicaLifecycle

CONSTANTS
    Elapsed,            \* the times, in half seconds, advance is called with
    TerminatingBound    \* bounds the model: no scale-down is requested while
                        \* more replicas than this await finalization

ASSUME ElapsedConfig == Elapsed \subseteq Nat \ {0}
ASSUME BoundConfig == TerminatingBound \in Nat

VARIABLES
    pool        \* the pool's fields: see PoolType

vars == <<pool>>

Init == pool = FreshPool

ScaleUp(count) ==
    \E draws \in Draws(pool, count) : pool' = ScaledUp(pool, count, draws)

ScaleDown(count) ==
    /\ pool.terminating <= TerminatingBound
    /\ pool' = ScaledDown(pool, count)

Advance(e) == pool' = Advanced(pool, e)

Reset == pool' = FreshPool

\* A request beyond MaxReplicas is clamped like one of MaxReplicas.
Next ==
    \/ \E count \in 1 .. MaxReplicas : ScaleUp(count) \/ ScaleDown(count)
    \/ \E e \in Elapsed : Advance(e)
    \/ Reset

Spec == Init /\ [][Next]_vars

\* Every environment step ends with an advance, so simulated time passes as
\* long as the pool is used.
Passing == \E e \in Elapsed : Advance(e)
FairSpec == Spec /\ WF_vars(Passing)

-----------------------------------------------------------------------------
\* The fields stay in their types; in particular no replica is kept pending
\* beyond its realized startup time.
TypeOK == pool \in PoolType

\* "The desired replica count (active + pending) always stays within the
\* configured bounds", whatever is requested and however startups end; nor does
\* the serving fleet fall below the minimum: a reduction takes a serving replica
\* only after every pending one is cancelled.
CapacityWithinBounds ==
    /\ Committed(pool) <= MaxReplicas
    /\ pool.active >= MinReplicas

\* Cancellation is by age: pending stays in request order whatever overtakes
\* whatever, and the two clocks of a replica never drift apart.
RequestOrderKept == OldestFirst(pool) /\ ClocksAgree(pool)

\* What a controller is shown of a starting replica is wrong by at most half a
\* nominal startup (rounded up to ticks) in either direction, and every starting
\* replica is shown, late ones included.
HalfStartup == (StartupDelay + Interval - 1) \div Interval
ScheduleErrorBounded ==
    \A i \in DOMAIN pool.pending :
        LET shown == VisibleBucket(pool.pending[i])
            real == AdvancesUntilActive(pool.pending[i].remaining)
        IN  /\ shown \in 1 .. StartupTicks
            /\ shown - HalfStartup <= real
            /\ real <= shown + HalfStartup

\* Left alone, the pool reaches the capacity it committed to: from any
\* committed count c, either that count changes or all of it gets to serve.
Converges ==
    \A c \in MinReplicas .. MaxReplicas :
        (Committed(pool) = c) ~> (pool.active = c \/ Committed(pool) # c)

\* Abstract view: how many serve and how many are starting.
Promise == INSTANCE Fleet WITH
    Lower <- MinReplicas, Upper <- MaxReplicas, Initial <- InitialReplicas,
    serving <- pool.active, starting <- Len(pool.pending)

\* The pool keeps the promises of Fleet for every startup realization.
KeepsPromise == Promise!Spec

\* Abstract view under fixed startup: the visible buckets.
Pipeline == INSTANCE StartupPipeline WITH
    Lower <- MinReplicas, Upper <- MaxReplicas, Initial <- InitialReplicas,
    Length <- StartupTicks, serving <- pool.active, due <- PendingByTicks(pool)

\* Advanced by whole control intervals under fixed startup, the visible
\* buckets are a shift register: bucket b is served in exactly b intervals
\* unless cancelled, and cancellations take the latest buckets first.
VisibleScheduleIsExact == Pipeline!Spec
=============================================================================
