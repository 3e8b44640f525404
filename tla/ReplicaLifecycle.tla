-------------------------- MODULE ReplicaLifecycle --------------------------
(***************************************************************************)
(* The replica pool as a value and its four operations as operators, so    *)
(* that ReplicaPool (the pool alone, any caller) and AutoscalingEnv (one   *)
(* environment step makes two pool calls) use the same definitions.        *)
(*                                                                         *)
(* Time is exact: a startup delay of d seconds, realized at half, once or  *)
(* one and a half times d, is counted in half seconds, so the tolerance    *)
(* that absorbs float rounding in the code is 0 here.                      *)
(***************************************************************************)
EXTENDS Integers, Sequences, FiniteSets

CONSTANTS
    MinReplicas,        \* config.replicas.min_replicas
    MaxReplicas,        \* config.replicas.max_replicas
    InitialReplicas,    \* config.replicas.initial_replicas
    StartupDelay,       \* config.replicas.startup_delay_seconds
    ControlInterval,    \* config.timing.control_interval_seconds
    Multipliers         \* startup-delay multipliers, in halves: {2} under
                        \* fixed-v1, {1, 2, 3} under tri-point-multiplicative-v1

ASSUME ReplicaConfig ==
    /\ MinReplicas \in Nat \ {0}
    /\ MaxReplicas \in Nat
    /\ InitialReplicas \in MinReplicas .. MaxReplicas

ASSUME TimingConfig ==
    /\ StartupDelay \in Nat
    /\ ControlInterval \in Nat \ {0}
    /\ Multipliers \subseteq {1, 2, 3}
    /\ 2 \in Multipliers

Smaller(a, b) == IF a <= b THEN a ELSE b
Larger(a, b)  == IF a >= b THEN a ELSE b

-----------------------------------------------------------------------------
(* One requested replica still starting up. It carries two clocks: the     *)
(* physical one decides activation, the nominal one is all a controller    *)
(* may see.                                                                *)
NominalDelay == 2 * StartupDelay
RealizedDelay(m) == m * StartupDelay
Interval == 2 * ControlInterval

PendingReplica ==
    [remaining : 1 .. RealizedDelay(3),
     nominal : -StartupDelay .. NominalDelay,
     multiplier : Multipliers]

Requested(m) ==
    [remaining |-> RealizedDelay(m), nominal |-> NominalDelay, multiplier |-> m]

\* Slips the runs must notice (PROJECT.json, "mutants"): only one clock runs,
\* or none.
AgedNominalOnly(r, e) == [r EXCEPT !.nominal = @ - e]
AgedNever(r, e) == r

Aged(r, e) ==
    [remaining |-> r.remaining - e, nominal |-> r.nominal - e,
     multiplier |-> r.multiplier]

-----------------------------------------------------------------------------
(* The pool: pending is in request order, oldest first; started holds the  *)
(* multipliers of the replicas the latest scale-up added.                  *)
PoolType ==
    [active : 0 .. MaxReplicas, pending : Seq(PendingReplica),
     terminating : Nat, started : Seq(Multipliers)]

FreshPool ==
    [active |-> InitialReplicas, pending |-> <<>>, terminating |-> 0,
     started |-> <<>>]

Committed(p) == p.active + Len(p.pending)

\* Slip: a clamp that forgets the replicas still starting.
AddedIgnoringPending(p, count) == Smaller(count, MaxReplicas - p.active)

\* How many of `count` requested replicas fit below the maximum.
Added(p, count) == Smaller(count, MaxReplicas - Committed(p))

\* The multipliers drawn by a scale-up: one per new replica, in request
\* order, and none at all when startup is immediate.
DrawCount(p, count) == IF StartupDelay = 0 THEN 0 ELSE Added(p, count)
Draws(p, count) == [1 .. DrawCount(p, count) -> Multipliers]

\* Slip: new replicas join at the front of the list.
ScaledUpAtFront(p, count, draws) ==
    [p EXCEPT !.pending = [i \in DOMAIN draws |-> Requested(draws[i])] \o @,
              !.started = draws]

ScaledUp(p, count, draws) ==
    IF StartupDelay = 0
    THEN [p EXCEPT !.active = @ + Added(p, count),
                   !.started = [i \in 1 .. Added(p, count) |-> 2]]
    ELSE [p EXCEPT !.pending = @ \o [i \in DOMAIN draws |-> Requested(draws[i])],
                   !.started = draws]

\* How many of `count` replicas can go without falling below the minimum,
\* and how many of those are cancelled before they ever became active.
Removed(p, count) == Smaller(count, Committed(p) - MinReplicas)
Cancelled(p, count) == Smaller(Removed(p, count), Len(p.pending))

\* Slips: the oldest pending replicas are cancelled; serving replicas go first.
ScaledDownOldest(p, count) ==
    LET terminated == Removed(p, count) - Cancelled(p, count)
    IN  [active |-> p.active - terminated,
         pending |-> SubSeq(p.pending, 1 + Cancelled(p, count), Len(p.pending)),
         terminating |-> p.terminating + terminated,
         started |-> p.started]
ScaledDownServingFirst(p, count) ==
    LET terminated == Smaller(Removed(p, count), p.active)
        cancelled == Removed(p, count) - terminated
    IN  [active |-> p.active - terminated,
         pending |-> SubSeq(p.pending, 1, Len(p.pending) - cancelled),
         terminating |-> p.terminating + terminated,
         started |-> p.started]

ScaledDown(p, count) ==
    LET terminated == Removed(p, count) - Cancelled(p, count)
    IN  [active |-> p.active - terminated,
         pending |-> SubSeq(p.pending, 1, Len(p.pending) - Cancelled(p, count)),
         terminating |-> p.terminating + terminated,
         started |-> p.started]

\* The elements of s at the indices in J, in order: what a list comprehension
\* with a filter keeps (SelectSeq, written without recursion so that the
\* provers can use it).
Upto(J, i) == {j \in J : j <= i}
Nth(J, k) == CHOOSE i \in J : Cardinality(Upto(J, i)) = k
AtIndices(s, J) == [k \in 1 .. Cardinality(J) |-> s[Nth(J, k)]]

\* Slip: a replica whose time is exactly up waits for one more advance.
StillStartingLate(p, e) == {i \in DOMAIN p.pending : p.pending[i].remaining - e >= 0}

StillStarting(p, e) == {i \in DOMAIN p.pending : p.pending[i].remaining - e > 0}

Advanced(p, e) ==
    LET aged == [i \in DOMAIN p.pending |-> Aged(p.pending[i], e)]
        still == StillStarting(p, e)
    IN  [active |-> p.active + Len(p.pending) - Cardinality(still),
         pending |-> AtIndices(aged, still),
         terminating |-> 0,
         started |-> p.started]

\* pending is in request order, so the tail that a scale-down deletes is its
\* most recently requested part, even after quick startups overtook slow ones.
OldestFirst(p) ==
    \A i, j \in DOMAIN p.pending :
        i < j => p.pending[i].nominal <= p.pending[j].nominal

\* Both clocks of every pending replica have run for the same time.
ClocksAgree(p) ==
    \A i \in DOMAIN p.pending :
        LET r == p.pending[i]
        IN  RealizedDelay(r.multiplier) - r.remaining = NominalDelay - r.nominal

\* What every operation preserves.
PoolInv(p) ==
    /\ p \in PoolType
    /\ Committed(p) \in MinReplicas .. MaxReplicas
    /\ p.active >= MinReplicas
    /\ OldestFirst(p)
    /\ ClocksAgree(p)

-----------------------------------------------------------------------------
(* Readiness, counted in control intervals.                                *)
\* Slip: no floor of one advance.
AdvancesUnfloored(remaining) == (remaining + Interval - 1) \div Interval

AdvancesUntilActive(remaining) ==
    Larger(1, (remaining + Interval - 1) \div Interval)

StartupTicks ==
    IF StartupDelay = 0 THEN 0 ELSE AdvancesUntilActive(NominalDelay)

\* The bucket a pending replica is shown in; a replica later than its nominal
\* delay is "due now".
VisibleBucket(r) == Smaller(AdvancesUntilActive(r.nominal), StartupTicks)

PendingByTicks(p) ==
    [b \in 1 .. StartupTicks |->
        Cardinality({i \in DOMAIN p.pending : VisibleBucket(p.pending[i]) = b})]

PhysicalTicks(p) ==
    {AdvancesUntilActive(p.pending[i].remaining) : i \in DOMAIN p.pending}

PhysicalPendingByTicks(p) ==
    LET longest == IF PhysicalTicks(p) = {} THEN 0
                   ELSE CHOOSE t \in PhysicalTicks(p) :
                            \A u \in PhysicalTicks(p) : u <= t
    IN  [b \in 1 .. longest |->
            Cardinality({i \in DOMAIN p.pending :
                            AdvancesUntilActive(p.pending[i].remaining) = b})]
=============================================================================
