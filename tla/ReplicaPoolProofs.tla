-------------------------- MODULE ReplicaPoolProofs -------------------------
(***************************************************************************)
(* The pool as a state machine: its safety invariants, and that it keeps   *)
(* the promises of Fleet, for every value of the constants.                *)
(***************************************************************************)
EXTENDS ReplicaPool, ReplicaLifecycleProofs

\* The pool's fields stay typed, its committed and serving counts in bounds,
\* and its pending list in request order, under every sequence of calls.
THEOREM PoolInvariant == Spec => []PoolInv(pool)
<1>1. Init => PoolInv(pool)
    BY FreshPoolInv DEF Init
<1>2. PoolInv(pool) /\ [Next]_vars => PoolInv(pool)'
    <2> SUFFICES ASSUME PoolInv(pool), [Next]_vars
                 PROVE  PoolInv(pool')
        BY DEF PoolInv, PoolType, Committed, OldestFirst, ClocksAgree
    <2>1. ASSUME NEW count \in 1 .. MaxReplicas, ScaleUp(count)
          PROVE  PoolInv(pool')
        <3>1. count \in Nat \ {0}
            BY ReplicaConfig
        <3>2. PICK draws \in Draws(pool, count) :
                pool' = ScaledUp(pool, count, draws)
            BY <2>1 DEF ScaleUp
        <3> QED BY <3>1, <3>2, ScaledUpInv
    <2>2. ASSUME NEW count \in 1 .. MaxReplicas, ScaleDown(count)
          PROVE  PoolInv(pool')
        BY <2>2, ScaledDownInv, ReplicaConfig DEF ScaleDown
    <2>3. ASSUME NEW e \in Elapsed, Advance(e)
          PROVE  PoolInv(pool')
        BY <2>3, AdvancedInv, ElapsedConfig DEF Advance
    <2>4. CASE Reset
        BY <2>4, FreshPoolInv DEF Reset
    <2>5. CASE UNCHANGED vars
        BY <2>5 DEF vars
    <2> QED BY <2>1, <2>2, <2>3, <2>4, <2>5 DEF Next
<1> QED BY <1>1, <1>2, PTL DEF Spec

\* Type correctness: in particular no replica stays pending once its realized
\* startup time has elapsed.
THEOREM TypeCorrect == Spec => []TypeOK
<1>1. PoolInv(pool) => TypeOK
    BY DEF PoolInv, TypeOK
<1> QED BY <1>1, PoolInvariant, PTL

\* active + pending never exceeds max_replicas, and at least min_replicas serve
\* traffic at any time, so the tick metrics never see an empty fleet.
THEOREM BoundsHold == Spec => []CapacityWithinBounds
<1>1. PoolInv(pool) => CapacityWithinBounds
    BY ReplicaConfig DEF PoolInv, PoolType, Committed, CapacityWithinBounds
<1> QED BY <1>1, PoolInvariant, PTL

\* The deleted tail of pending is always the most recently requested part.
THEOREM OrderKept == Spec => []RequestOrderKept
<1>1. PoolInv(pool) => RequestOrderKept
    BY DEF PoolInv, RequestOrderKept
<1> QED BY <1>1, PoolInvariant, PTL

-----------------------------------------------------------------------------
\* A number rounded up to whole multiples of n.
LEMMA RoundedUp ==
    ASSUME NEW x \in Int, NEW n \in Nat \ {0}
    PROVE  LET q == (x + n - 1) \div n
           IN  q \in Int /\ q * n >= x /\ (q - 1) * n < x
<1> DEFINE y == x + n - 1
           q == y \div n
<1>1. y \in Int /\ q \in Int
    OBVIOUS
<1>2. q * n <= y /\ y < (q + 1) * n
    BY <1>1
<1>3. (q + 1) * n = q * n + n /\ (q - 1) * n = q * n - n
    BY <1>1
<1> HIDE DEF q
<1> QED BY <1>1, <1>2, <1>3

LEMMA FactorsCompare ==
    ASSUME NEW a \in Int, NEW b \in Int, NEW n \in Nat \ {0}, a * n < b * n
    PROVE  a < b
<1> SUFFICES ASSUME b <= a PROVE FALSE
    OBVIOUS
<1>1. PICK k \in Nat : a = b + k
    <2>1. a - b \in Nat
        OBVIOUS
    <2> QED BY <2>1
<1>2. a * n = b * n + k * n /\ k * n >= 0
    BY <1>1
<1> QED BY <1>2

\* Rounding up the parts of a sum loses nothing.
LEMMA RoundedSum ==
    ASSUME NEW x \in Int, NEW y \in Int, NEW d \in Int, x <= y + d, NEW n \in Nat \ {0}
    PROVE  (x + n - 1) \div n <= (y + n - 1) \div n + (d + n - 1) \div n
<1> DEFINE p == (x + n - 1) \div n
           q == (y + n - 1) \div n
           r == (d + n - 1) \div n
<1>1. /\ p \in Int /\ q \in Int /\ r \in Int
      /\ (p - 1) * n < x /\ q * n >= y /\ r * n >= d
    BY RoundedUp
<1> HIDE DEF p, q, r
<1>2. (q + r) * n = q * n + r * n
    BY <1>1
<1>3. (p - 1) * n < (q + r) * n
    <2>1. (p - 1) * n \in Int /\ q * n \in Int /\ r * n \in Int
        BY <1>1
    <2> QED BY <1>1, <1>2, <2>1
<1>4. p - 1 < q + r
    BY <1>1, <1>3, FactorsCompare
<1>5. p <= q + r
    BY <1>1, <1>4
<1> QED BY <1>5 DEF p, q, r

\* The schedule shown to a controller errs by at most half a startup in either
\* direction and omits nobody, for every interval, delay and multiplier.
THEOREM ScheduleIsHonest == Spec => []ScheduleErrorBounded
<1>1. PoolInv(pool) => ScheduleErrorBounded
    <2> SUFFICES ASSUME PoolInv(pool), NEW i \in DOMAIN pool.pending
                 PROVE  LET shown == VisibleBucket(pool.pending[i])
                            real == AdvancesUntilActive(pool.pending[i].remaining)
                        IN  /\ shown \in 1 .. StartupTicks
                            /\ shown - HalfStartup <= real
                            /\ real <= shown + HalfStartup
        BY DEF ScheduleErrorBounded
    <2> DEFINE r == pool.pending[i]
               Up(x) == (x + Interval - 1) \div Interval
    <2>1. /\ StartupDelay \in Nat /\ Interval \in Nat \ {0} /\ Multipliers \subseteq {1, 2, 3}
        BY TimingConfig DEF Interval
    <2>2. /\ r \in PendingReplica
          /\ RealizedDelay(r.multiplier) - r.remaining = NominalDelay - r.nominal
        BY DEF PoolInv, PoolType, ClocksAgree
    <2> HIDE DEF r
    <2>3. /\ r.remaining \in Int /\ r.nominal \in Int /\ 1 <= r.remaining
          /\ r.remaining <= 3 * StartupDelay
          /\ r.multiplier \in {1, 2, 3}
          /\ r.multiplier * StartupDelay - r.remaining = 2 * StartupDelay - r.nominal
        <3>1. /\ r.remaining \in 1 .. RealizedDelay(3)
              /\ r.nominal \in -StartupDelay .. NominalDelay
              /\ r.multiplier \in Multipliers
            BY <2>2 DEF PendingReplica
        <3>2. /\ RealizedDelay(r.multiplier) = r.multiplier * StartupDelay
              /\ RealizedDelay(3) = 3 * StartupDelay /\ NominalDelay = 2 * StartupDelay
            BY DEF RealizedDelay, NominalDelay
        <3>3. r.multiplier * StartupDelay - r.remaining = 2 * StartupDelay - r.nominal
            BY <2>2, <3>2
        <3>4. r.remaining \in 1 .. 3 * StartupDelay /\ r.nominal \in -StartupDelay .. 2 * StartupDelay
            BY <3>1, <3>2
        <3>5. /\ r.remaining \in Int /\ r.nominal \in Int /\ 1 <= r.remaining
              /\ r.remaining <= 3 * StartupDelay
            BY <2>1, <3>4
        <3> QED BY <2>1, <3>1, <3>3, <3>5
    <2>4. /\ r.remaining <= r.nominal + StartupDelay
          /\ r.nominal <= r.remaining + StartupDelay
          /\ r.remaining <= 2 * StartupDelay + StartupDelay
          /\ StartupDelay # 0
        <3>1. CASE r.multiplier = 1
            BY <2>1, <2>3, <3>1
        <3>2. CASE r.multiplier = 2
            BY <2>1, <2>3, <3>2
        <3>3. CASE r.multiplier = 3
            BY <2>1, <2>3, <3>3
        <3> QED BY <2>3, <3>1, <3>2, <3>3
    <2>5. /\ Up(r.remaining) <= Up(r.nominal) + Up(StartupDelay)
          /\ Up(r.nominal) <= Up(r.remaining) + Up(StartupDelay)
          /\ Up(r.remaining) <= Up(2 * StartupDelay) + Up(StartupDelay)
        <3>1. 2 * StartupDelay \in Int /\ StartupDelay \in Int
            BY <2>1
        <3> QED BY <2>1, <2>3, <2>4, <3>1, RoundedSum
    <2>6. /\ Up(r.remaining) \in Int /\ Up(r.nominal) \in Int
          /\ Up(2 * StartupDelay) \in Int /\ Up(StartupDelay) \in Int
          /\ Up(StartupDelay) >= 0
        <3>1. Up(StartupDelay) >= 0
            <4>1. Up(StartupDelay) \in Int /\ Up(StartupDelay) * Interval >= StartupDelay
                BY <2>1, RoundedUp
            <4> HIDE DEF Up
            <4>2. Up(StartupDelay) * Interval > (-1) * Interval
                BY <2>1, <4>1
            <4>3. -1 < Up(StartupDelay)
                BY <2>1, <4>1, <4>2, FactorsCompare
            <4> QED BY <4>1, <4>3
        <3> QED BY <2>1, <2>3, <3>1
    <2>7. /\ AdvancesUntilActive(r.remaining) = Larger(1, Up(r.remaining))
          /\ AdvancesUntilActive(r.nominal) = Larger(1, Up(r.nominal))
          /\ StartupTicks = Larger(1, Up(2 * StartupDelay))
          /\ HalfStartup = Up(StartupDelay)
        BY <2>4 DEF AdvancesUntilActive, StartupTicks, NominalDelay, HalfStartup
    <2> HIDE DEF Up
    <2> QED BY <2>5, <2>6, <2>7 DEF VisibleBucket, Smaller, Larger, r
<1> QED BY <1>1, PoolInvariant, PTL

-----------------------------------------------------------------------------
\* Every step of the pool is a step of Fleet or leaves its view unchanged.
LEMMA StepKeepsPromise ==
    ASSUME PoolInv(pool), [Next]_vars
    PROVE  [Promise!Next]_(Promise!vars)
<1> USE ReplicaConfig
<1>1. /\ pool.active \in MinReplicas .. MaxReplicas
      /\ Len(pool.pending) \in Nat
      /\ Committed(pool) = pool.active + Len(pool.pending)
      /\ Committed(pool) \in MinReplicas .. MaxReplicas
      /\ pool.pending \in Seq(PendingReplica)
      /\ pool = [active |-> pool.active, pending |-> pool.pending,
                 terminating |-> pool.terminating, started |-> pool.started]
    BY PoolInvFacts
<1>2. ASSUME NEW count \in 1 .. MaxReplicas, ScaleUp(count)
      PROVE  Promise!Order(count)
    <2>1. PICK draws \in Draws(pool, count) : pool' = ScaledUp(pool, count, draws)
        BY <1>2 DEF ScaleUp
    <2>2. Added(pool, count) = Promise!Least(count, MaxReplicas - Promise!committed)
        BY <1>1 DEF Added, Smaller, Promise!Least, Promise!committed
    <2>3. CASE StartupDelay = 0
        <3>1. pool'.active = pool.active + Added(pool, count)
              /\ pool'.pending = pool.pending
            BY <1>1, <2>1, <2>3 DEF ScaledUp
        <3> QED BY <2>2, <3>1 DEF Promise!Order
    <2>4. CASE StartupDelay # 0
        <3>1. pool'.active = pool.active
            BY <1>1, <2>1, <2>4 DEF ScaledUp
        <3>2. /\ PoolInv(pool')
              /\ Committed(pool') = Committed(pool) + Added(pool, count)
            BY <2>1, ScaledUpInv
        <3>3. /\ Committed(pool') = pool'.active + Len(pool'.pending)
              /\ Len(pool'.pending) \in Nat
            BY <3>2, PoolInvFacts
        <3>4. Added(pool, count) \in Nat
            BY AddedRange
        <3>5. /\ Committed(pool) = pool.active + Len(pool.pending)
              /\ pool.active \in Nat /\ Len(pool.pending) \in Nat
            BY PoolInvFacts
        <3>6. Len(pool'.pending) = Len(pool.pending) + Added(pool, count)
            <4>1. pool'.active + Len(pool'.pending)
                    = (pool.active + Len(pool.pending)) + Added(pool, count)
                BY <3>2, <3>3, <3>5
            <4>2. pool.active + Len(pool'.pending)
                    = (pool.active + Len(pool.pending)) + Added(pool, count)
                BY <3>1, <4>1
            <4>3. \A a, l, m, n \in Nat : a + m = (a + l) + n => m = l + n
                OBVIOUS
            <4> QED BY <3>3, <3>4, <3>5, <4>2, <4>3
        <3> QED BY <2>2, <3>1, <3>6 DEF Promise!Order
    <2> QED BY <2>3, <2>4
<1>3. ASSUME NEW count \in 1 .. MaxReplicas, ScaleDown(count)
      PROVE  Promise!Release(count)
    <2>1. pool' = ScaledDown(pool, count)
        BY <1>3 DEF ScaleDown
    <2>2. /\ Removed(pool, count) = Promise!Least(count, Promise!committed - MinReplicas)
          /\ Cancelled(pool, count)
                = Promise!Least(Removed(pool, count), Len(pool.pending))
        BY <1>1 DEF Removed, Cancelled, Smaller, Promise!Least, Promise!committed
    <2>3. pool'.active = pool.active - (Removed(pool, count) - Cancelled(pool, count))
        BY <2>1 DEF ScaledDown
    <2>4. Len(pool'.pending) = Len(pool.pending) - Cancelled(pool, count)
        BY <2>1, ScaledDownInv
    <2> QED BY <2>2, <2>3, <2>4 DEF Promise!Release
<1>4. ASSUME NEW e \in Elapsed, Advance(e)
      PROVE  Promise!Settle
    <2>1. pool' = Advanced(pool, e)
        BY <1>4 DEF Advance
    <2>2. \E ready \in 0 .. Len(pool.pending) :
            /\ pool'.active = pool.active + ready
            /\ Len(pool'.pending) = Len(pool.pending) - ready
        BY <2>1, AdvancedInv, ElapsedConfig
    <2> QED BY <2>2 DEF Promise!Settle
<1>5. ASSUME Reset
      PROVE  Promise!Restart
    BY <1>5 DEF Reset, FreshPool, Promise!Restart
<1>6. ASSUME UNCHANGED vars
      PROVE  UNCHANGED Promise!vars
    BY <1>6 DEF vars, Promise!vars
<1> QED BY <1>2, <1>3, <1>4, <1>5, <1>6 DEF Next, Promise!Next

\* The pool implements Fleet for every startup realization: the committed
\* count moves by exactly the clamped request, cancellations come before
\* terminations, and time only turns starting replicas into serving ones.
THEOREM PromiseKept == Spec => KeepsPromise
<1>1. Init => Promise!Init
    BY DEF Init, FreshPool, Promise!Init
<1>2. PoolInv(pool) /\ [Next]_vars => [Promise!Next]_(Promise!vars)
    BY StepKeepsPromise
<1> QED BY <1>1, <1>2, PoolInvariant, PTL DEF Spec, KeepsPromise, Promise!Spec

-----------------------------------------------------------------------------
(* Under fixed startup the visible buckets are a shift register. What      *)
(* makes it one is that the list is ordered by bucket: the replicas that   *)
(* are due within b intervals are the first ones of the list.              *)
\* The first M[b] replicas of p, and no others, are due within b intervals.
DueFirst(p, M) ==
    \A b \in 0 .. StartupTicks :
        /\ M[b] \in 0 .. Len(p.pending)
        /\ \A i \in 1 .. Len(p.pending) :
                VisibleBucket(p.pending[i]) <= b <=> i <= M[b]

\* When time in intervals is read off the nominal clock.
LEMMA BucketOfNominal ==
    ASSUME NEW p, PoolInv(p), Multipliers = {2}, NEW i \in 1 .. Len(p.pending)
    PROVE  LET x == p.pending[i].nominal
               bucket == VisibleBucket(p.pending[i])
           IN  /\ x \in 1 .. NominalDelay /\ p.pending[i].remaining = x
               /\ StartupDelay # 0
               /\ bucket \in 1 .. StartupTicks
               /\ bucket = (x + Interval - 1) \div Interval
               /\ bucket * Interval >= x /\ (bucket - 1) * Interval < x
<1> DEFINE r == p.pending[i]
<1>1. /\ StartupDelay \in Nat /\ Interval \in Nat \ {0}
    BY TimingConfig DEF Interval
<1>2. /\ r \in PendingReplica
      /\ RealizedDelay(r.multiplier) - r.remaining = NominalDelay - r.nominal
    BY PoolInvFacts DEF ClocksAgree
<1> HIDE DEF r
<1>3. /\ r.multiplier = 2 /\ r.remaining \in 1 .. 3 * StartupDelay
      /\ r.nominal \in -StartupDelay .. 2 * StartupDelay
    BY <1>2 DEF PendingReplica, RealizedDelay, NominalDelay
<1>4. /\ r.remaining = r.nominal /\ StartupDelay # 0
      /\ r.nominal \in 1 .. NominalDelay /\ NominalDelay = 2 * StartupDelay
    BY <1>1, <1>2, <1>3 DEF RealizedDelay, NominalDelay
<1>5. PICK x \in 1 .. 2 * StartupDelay : x = r.nominal
    BY <1>4
<1> DEFINE Up(y) == (y + Interval - 1) \div Interval
<1>6. /\ Up(x) \in Int /\ Up(x) * Interval >= x /\ (Up(x) - 1) * Interval < x
    BY <1>1, <1>5, RoundedUp
<1>7. Up(x) <= Up(2 * StartupDelay)
    <2>1. /\ Up(2 * StartupDelay) \in Int
          /\ Up(2 * StartupDelay) * Interval >= 2 * StartupDelay
        BY <1>1, RoundedUp
    <2> HIDE DEF Up
    <2>2. (Up(x) - 1) * Interval < Up(2 * StartupDelay) * Interval
        <3>1. (Up(x) - 1) * Interval \in Int /\ Up(2 * StartupDelay) * Interval \in Int
            BY <1>1, <1>6, <2>1
        <3> QED BY <1>1, <1>5, <1>6, <2>1, <3>1
    <2>3. Up(x) - 1 < Up(2 * StartupDelay)
        BY <1>1, <1>6, <2>1, <2>2, FactorsCompare
    <2> QED BY <1>6, <2>1, <2>3
<1>8. Up(x) >= 1
    <2> HIDE DEF Up
    <2>1. 0 * Interval < Up(x) * Interval
        BY <1>1, <1>5, <1>6
    <2>2. 0 < Up(x)
        BY <1>1, <1>6, <2>1, FactorsCompare
    <2> QED BY <1>6, <2>2
<1>9. /\ AdvancesUntilActive(r.nominal) = Larger(1, Up(x))
      /\ StartupTicks = Larger(1, Up(2 * StartupDelay))
    BY <1>4, <1>5 DEF AdvancesUntilActive, StartupTicks, NominalDelay
<1>10. Up(2 * StartupDelay) \in Int
    BY <1>1
<1>11. VisibleBucket(r) = Up(x) /\ Up(x) \in 1 .. StartupTicks
    <2> HIDE DEF Up
    <2> QED BY <1>6, <1>7, <1>8, <1>9, <1>10 DEF VisibleBucket, Smaller, Larger
<1> QED BY <1>4, <1>5, <1>6, <1>11 DEF r

LEMMA TicksOfStartup ==
    /\ StartupTicks \in Nat
    /\ StartupTicks = 0 <=> StartupDelay = 0
<1>1. /\ StartupDelay \in Nat /\ Interval \in Nat \ {0}
    BY TimingConfig DEF Interval
<1>2. (NominalDelay + Interval - 1) \div Interval \in Int
    BY <1>1 DEF NominalDelay
<1> QED BY <1>1, <1>2 DEF StartupTicks, AdvancesUntilActive, Larger

\* Then the buckets hold the differences.
LEMMA BucketsAre ==
    ASSUME NEW p, PoolInv(p), Multipliers = {2}, NEW M, DueFirst(p, M)
    PROVE  /\ PendingByTicks(p) = [b \in 1 .. StartupTicks |-> M[b] - M[b - 1]]
           /\ \A b \in 1 .. StartupTicks : M[b - 1] <= M[b]
           /\ M[0] = 0 /\ M[StartupTicks] = Len(p.pending)
           /\ \A b \in 0 .. StartupTicks : M[b] \in 0 .. Len(p.pending)
<1> DEFINE n == Len(p.pending)
           Bucket(i) == VisibleBucket(p.pending[i])
<1>1. n \in Nat /\ DOMAIN p.pending = 1 .. n /\ StartupTicks \in Nat
    BY PoolInvFacts, TicksOfStartup
<1>2. \A i \in 1 .. n : Bucket(i) \in 1 .. StartupTicks
    BY BucketOfNominal
<1> HIDE DEF Bucket
<1>3. \A b \in 0 .. StartupTicks :
        M[b] \in 0 .. n /\ \A i \in 1 .. n : Bucket(i) <= b <=> i <= M[b]
    BY DEF DueFirst, Bucket
<1> HIDE DEF n
<1>4. M[0] = 0
    <2>1. 0 \in 0 .. StartupTicks
        BY <1>1
    <2>2. M[0] \in 0 .. n /\ \A i \in 1 .. n : Bucket(i) <= 0 <=> i <= M[0]
        BY <1>3, <2>1
    <2>3. M[0] \notin 1 .. n
        BY <1>2, <2>2
    <2> QED BY <1>1, <2>2, <2>3
<1>5. M[StartupTicks] = n
    <2>1. StartupTicks \in 0 .. StartupTicks
        BY <1>1
    <2>2. M[StartupTicks] \in 0 .. n /\ \A i \in 1 .. n : i <= M[StartupTicks]
        BY <1>1, <1>2, <1>3, <2>1
    <2> QED BY <1>1, <2>2
<1>6. ASSUME NEW b \in 1 .. StartupTicks
      PROVE  /\ M[b - 1] <= M[b]
             /\ Cardinality({i \in 1 .. n : Bucket(i) = b}) = M[b] - M[b - 1]
    <2>1. PICK c \in 0 .. StartupTicks : c = b - 1 /\ b \in 0 .. StartupTicks
        BY <1>1
    <2>2. /\ M[c] \in 0 .. n /\ \A i \in 1 .. n : Bucket(i) <= c <=> i <= M[c]
          /\ M[b] \in 0 .. n /\ \A i \in 1 .. n : Bucket(i) <= b <=> i <= M[b]
        BY <1>3, <2>1
    <2>3. M[c] <= M[b]
        <3> SUFFICES ASSUME M[b] < M[c] PROVE FALSE
            BY <1>1, <2>2
        <3>1. PICK i \in 1 .. n : i = M[c]
            BY <1>1, <2>2
        <3>2. Bucket(i) <= c
            BY <2>2, <3>1
        <3>3. Bucket(i) <= b
            BY <1>1, <1>2, <2>1, <3>2
        <3> QED BY <2>2, <3>1, <3>3
    <2>4. {i \in 1 .. n : Bucket(i) = b} = (M[c] + 1) .. M[b]
        <3>1. \A i \in 1 .. n : Bucket(i) = b <=> Bucket(i) <= b /\ ~(Bucket(i) <= c)
            BY <1>1, <1>2, <2>1
        <3>2. \A i \in 1 .. n : Bucket(i) = b <=> i <= M[b] /\ ~(i <= M[c])
            BY <2>2, <3>1
        <3>3. \A i \in (M[c] + 1) .. M[b] : i \in 1 .. n /\ i <= M[b] /\ ~(i <= M[c])
            BY <1>1, <2>2
        <3>4. \A i \in 1 .. n : i <= M[b] /\ ~(i <= M[c]) => i \in (M[c] + 1) .. M[b]
            BY <1>1, <2>2
        <3> QED BY <3>2, <3>3, <3>4
    <2>5. Cardinality((M[c] + 1) .. M[b]) = M[b] - M[c]
        <3>1. M[c] + 1 \in Int /\ M[b] \in Int
            BY <2>2
        <3>2. Cardinality((M[c] + 1) .. M[b])
                = IF M[c] + 1 > M[b] THEN 0 ELSE M[b] - (M[c] + 1) + 1
            BY <3>1, FS_Interval
        <3> QED BY <2>2, <2>3, <3>2
    <2> QED BY <2>1, <2>3, <2>4, <2>5
<1>7. PendingByTicks(p)
        = [b \in 1 .. StartupTicks |-> Cardinality({i \in 1 .. n : Bucket(i) = b})]
    BY <1>1 DEF PendingByTicks, Bucket, n
<1>8. PendingByTicks(p) = [b \in 1 .. StartupTicks |-> M[b] - M[b - 1]]
    BY <1>6, <1>7
<1> QED BY <1>3, <1>4, <1>5, <1>6, <1>8 DEF n

\* Every pool has such positions, and they are the running sums of its buckets.
LEMMA DueInOrder ==
    ASSUME NEW p, PoolInv(p), Multipliers = {2}
    PROVE  \E M : /\ DueFirst(p, M)
                  /\ \A b \in 0 .. StartupTicks : RunningSums(PendingByTicks(p))[b] = M[b]
<1> DEFINE n == Len(p.pending)
           Bucket(i) == VisibleBucket(p.pending[i])
           At(b, m) == \A i \in 1 .. n : Bucket(i) <= b <=> i <= m
           M == [b \in 0 .. StartupTicks |-> CHOOSE m \in 0 .. n : At(b, m)]
<1>1. n \in Nat /\ StartupTicks \in Nat /\ DOMAIN p.pending = 1 .. n
    BY PoolInvFacts, TicksOfStartup
<1>2. \A i \in 1 .. n : Bucket(i) \in 1 .. StartupTicks
    BY BucketOfNominal
<1>3. \A i, j \in 1 .. n : i < j => Bucket(i) <= Bucket(j)
    <2> SUFFICES ASSUME NEW i \in 1 .. n, NEW j \in 1 .. n, i < j
                 PROVE  Bucket(i) <= Bucket(j)
        OBVIOUS
    <2>1. p.pending[i].nominal <= p.pending[j].nominal
        BY <1>1, PoolInvFacts DEF OldestFirst
    <2>2. PICK x \in Int, y \in Int : x = p.pending[i].nominal /\ y = p.pending[j].nominal
        BY BucketOfNominal
    <2>3. PICK c \in Int, d \in Int : c = Bucket(i) /\ d = Bucket(j)
        BY <1>2
    <2>4. (c - 1) * Interval < x /\ d * Interval >= y /\ Interval \in Nat \ {0}
        BY <2>2, <2>3, BucketOfNominal, TimingConfig DEF Interval
    <2>5. (c - 1) * Interval < d * Interval
        <3>1. (c - 1) * Interval \in Int /\ d * Interval \in Int
            BY <2>4
        <3> QED BY <2>1, <2>2, <2>4, <3>1
    <2>6. c - 1 < d
        BY <2>4, <2>5, FactorsCompare
    <2> QED BY <2>3, <2>6
<1> HIDE DEF Bucket, n
<1>4. ASSUME NEW b \in 0 .. StartupTicks PROVE \E m \in 0 .. n : At(b, m)
    <2> DEFINE later == {i \in 1 .. n : ~(Bucket(i) <= b)}
    <2>1. \A i \in later : \A j \in 1 .. n : i < j => j \in later
        BY <1>1, <1>2, <1>3
    <2>2. later \in SUBSET (1 .. n)
        OBVIOUS
    <2>3. PICK m \in 0 .. n : later = Rest(n, m)
        <3> HIDE DEF later
        <3> QED BY <1>1, <2>1, <2>2, UpwardClosed
    <2>4. ASSUME NEW i \in 1 .. n PROVE Bucket(i) <= b <=> i <= m
        BY <1>1, <2>3 DEF Rest
    <2> QED BY <2>4
<1>5. \A b \in 0 .. StartupTicks : M[b] \in 0 .. n /\ At(b, M[b])
    BY <1>4
<1>6. DueFirst(p, M)
    BY <1>5 DEF DueFirst, Bucket, n
<1> HIDE DEF M, At
<1>7. /\ PendingByTicks(p) = [b \in 1 .. StartupTicks |-> M[b] - M[b - 1]]
      /\ M[0] = 0
      /\ \A b \in 0 .. StartupTicks : M[b] \in 0 .. n
      /\ \A b \in 1 .. StartupTicks : M[b - 1] <= M[b]
    BY <1>6, BucketsAre DEF n
<1> DEFINE due == PendingByTicks(p)
           P == {b \in Nat : b <= StartupTicks => RunningSums(due)[b] = M[b]}
<1>8. Len(due) = StartupTicks /\ \A b \in 1 .. StartupTicks : due[b] = M[b] - M[b - 1]
    <2>1. \A b \in 1 .. StartupTicks : b - 1 \in 0 .. StartupTicks /\ b \in 0 .. StartupTicks
        BY <1>1
    <2>2. \A b \in 1 .. StartupTicks : M[b] - M[b - 1] \in Int
        BY <1>1, <1>7, <2>1
    <2>3. due \in [1 .. StartupTicks -> Int]
        BY <1>7, <2>2
    <2>4. due \in Seq(Int) /\ Len(due) = StartupTicks
        <3> HIDE DEF due
        <3> QED BY <1>1, <2>3
    <2> QED BY <1>7, <2>4
<1> HIDE DEF due
<1>9. /\ RunningSums(due)[0] = 0
      /\ \A b \in 1 .. StartupTicks : RunningSums(due)[b] = RunningSums(due)[b - 1] + due[b]
    <2>1. \A b \in 1 .. StartupTicks : due[b] \in Int
        <3>1. \A b \in 1 .. StartupTicks : b - 1 \in 0 .. StartupTicks /\ b \in 0 .. StartupTicks
            BY <1>1
        <3>2. \A b \in 1 .. StartupTicks : M[b] - M[b - 1] \in Int
            BY <1>1, <1>7, <3>1
        <3> QED BY <1>8, <3>2
    <2> QED BY <1>1, <1>8, <2>1, SumsAre
<1>10. 0 \in P
    BY <1>7, <1>9
<1>11. ASSUME NEW b \in Nat, b \in P PROVE b + 1 \in P
    <2> SUFFICES ASSUME b + 1 <= StartupTicks PROVE RunningSums(due)[b + 1] = M[b + 1]
        OBVIOUS
    <2>1. b + 1 \in 1 .. StartupTicks /\ (b + 1) - 1 = b /\ RunningSums(due)[b] = M[b]
          /\ b \in 0 .. StartupTicks /\ b + 1 \in 0 .. StartupTicks
        BY <1>1, <1>11
    <2>2. RunningSums(due)[b + 1] = M[b] + (M[b + 1] - M[b])
        BY <1>8, <1>9, <2>1
    <2>3. M[b] \in Int /\ M[b + 1] \in Int
        BY <1>1, <1>7, <2>1
    <2> QED BY <2>2, <2>3
<1>12. \A b \in Nat : b \in P
    <2> HIDE DEF P
    <2> QED BY <1>10, <1>11, Inductive
<1>13. \A b \in 0 .. StartupTicks : RunningSums(due)[b] = M[b]
    BY <1>1, <1>12
<1> QED BY <1>6, <1>13 DEF due

\* The register's own sums are these.
LEMMA RegisterSums ==
    ASSUME NEW b
    PROVE  Pipeline!DueWithin(b) = RunningSums(PendingByTicks(pool))[b]
BY DEF Pipeline!DueWithin, Pipeline!RunningSums, RunningSums

\* What the register shows of a pool that is known to be in order.
LEMMA RegisterOf ==
    ASSUME PoolInv(pool), Multipliers = {2}
    PROVE  \E M :
            /\ DueFirst(pool, M)
            /\ \A b \in 0 .. StartupTicks : Pipeline!DueWithin(b) = M[b]
            /\ Pipeline!starting = Len(pool.pending)
            /\ PendingByTicks(pool) = [b \in 1 .. StartupTicks |-> M[b] - M[b - 1]]
            /\ \A b \in 1 .. StartupTicks : M[b - 1] <= M[b]
            /\ M[0] = 0 /\ M[StartupTicks] = Len(pool.pending)
            /\ \A b \in 0 .. StartupTicks : M[b] \in 0 .. Len(pool.pending)
<1>1. PICK M : /\ DueFirst(pool, M)
               /\ \A b \in 0 .. StartupTicks : RunningSums(PendingByTicks(pool))[b] = M[b]
    BY DueInOrder
<1>2. /\ PendingByTicks(pool) = [b \in 1 .. StartupTicks |-> M[b] - M[b - 1]]
      /\ \A b \in 1 .. StartupTicks : M[b - 1] <= M[b]
      /\ M[0] = 0 /\ M[StartupTicks] = Len(pool.pending)
      /\ \A b \in 0 .. StartupTicks : M[b] \in 0 .. Len(pool.pending)
    BY <1>1, BucketsAre
<1>3. \A b \in 0 .. StartupTicks : Pipeline!DueWithin(b) = M[b]
    BY <1>1, RegisterSums
<1>4. StartupTicks \in 0 .. StartupTicks
    BY TicksOfStartup
<1>5. Pipeline!starting = Len(pool.pending)
    BY <1>2, <1>3, <1>4 DEF Pipeline!starting
<1> QED BY <1>1, <1>2, <1>3, <1>5

\* A request enters at the far end.
LEMMA RequestEnters ==
    ASSUME PoolInv(pool), Multipliers = {2}, NEW count \in 1 .. MaxReplicas, ScaleUp(count)
    PROVE  Pipeline!Order(count)
<1> DEFINE n == Len(pool.pending)
           k == Added(pool, count)
<1>1. count \in Nat \ {0}
    BY ReplicaConfig
<1>2. PICK draws \in Draws(pool, count) : pool' = ScaledUp(pool, count, draws)
    BY DEF ScaleUp
<1>3. PICK M :
        /\ DueFirst(pool, M)
        /\ Pipeline!starting = n
        /\ PendingByTicks(pool) = [b \in 1 .. StartupTicks |-> M[b] - M[b - 1]]
        /\ M[StartupTicks] = n
        /\ \A b \in 0 .. StartupTicks : M[b] \in 0 .. n
    BY RegisterOf
<1>4. /\ pool.active \in Nat /\ n \in Nat /\ k \in Nat /\ StartupTicks \in Nat
      /\ Committed(pool) = pool.active + n /\ MaxReplicas \in Nat
      /\ pool = [active |-> pool.active, pending |-> pool.pending,
                 terminating |-> pool.terminating, started |-> pool.started]
      /\ pool.pending \in Seq(PendingReplica) /\ DOMAIN pool.pending = 1 .. n
    BY <1>1, PoolInvFacts, AddedRange, TicksOfStartup, ReplicaConfig
<1>5. Pipeline!Least(count, MaxReplicas - pool.active - Pipeline!starting) = k
    BY <1>1, <1>3, <1>4 DEF Added, Smaller, Pipeline!Least
<1>6. CASE StartupDelay = 0
    <2>1. /\ pool'.active = pool.active + k /\ pool'.pending = pool.pending
        BY <1>2, <1>4, <1>6 DEF ScaledUp
    <2>2. PendingByTicks(pool') = PendingByTicks(pool)
        BY <2>1 DEF PendingByTicks
    <2> QED BY <1>5, <1>6, <2>1, <2>2, TicksOfStartup DEF Pipeline!Order
<1>7. CASE StartupDelay # 0
    <2> DEFINE added == [i \in DOMAIN draws |-> Requested(draws[i])]
    <2>1. /\ PoolInv(pool') /\ DOMAIN draws = 1 .. k
          /\ \A i \in 1 .. k : draws[i] = 2
        BY <1>1, <1>2, <1>7, ScaledUpInv DEF Draws, DrawCount
    <2>2. pool'.active = pool.active /\ pool'.pending = pool.pending \o added
        BY <1>2, <1>4, <1>7 DEF ScaledUp
    <2>3. added \in Seq(PendingReplica) /\ Len(added) = k
          /\ \A i \in 1 .. k : added[i].nominal = NominalDelay
        <3>1. \A i \in 1 .. k : added[i] = Requested(2)
            BY <2>1
        <3>2. Requested(2) \in PendingReplica /\ Requested(2).nominal = NominalDelay
            BY <1>7, RequestedType, TimingConfig DEF Requested
        <3>3. added \in [1 .. k -> PendingReplica]
            BY <2>1, <3>1, <3>2
        <3> HIDE DEF added, k
        <3> QED BY <1>4, <3>1, <3>2, <3>3
    <2> HIDE DEF added, n, k
    <2>4. /\ Len(pool'.pending) = n + k
          /\ \A i \in 1 .. n + k :
                pool'.pending[i] = IF i <= n THEN pool.pending[i] ELSE added[i - n]
        <3>1. PICK s \in Seq(PendingReplica), t \in Seq(PendingReplica) :
                s = pool.pending /\ t = added /\ Len(s) = n /\ Len(t) = k
            BY <1>4, <2>3 DEF n
        <3>2. pool'.pending = s \o t
            BY <2>2, <3>1
        <3>3. /\ Len(s \o t) = Len(s) + Len(t)
              /\ \A i \in 1 .. Len(s) + Len(t) :
                    (s \o t)[i] = IF i <= Len(s) THEN s[i] ELSE t[i - Len(s)]
            BY JoinedAt
        <3> QED BY <3>1, <3>2, <3>3
    <2>5. StartupTicks # 0
        BY <1>7, TicksOfStartup
    <2>6. \A i \in 1 .. n + k : i > n => VisibleBucket(pool'.pending[i]) = StartupTicks
        <3> SUFFICES ASSUME NEW i \in 1 .. n + k, i > n
                     PROVE  VisibleBucket(pool'.pending[i]) = StartupTicks
            OBVIOUS
        <3>1. i - n \in 1 .. k /\ ~(i <= n)
            BY <1>4
        <3>2. pool'.pending[i].nominal = NominalDelay
            BY <2>3, <2>4, <3>1
        <3>3. AdvancesUntilActive(NominalDelay) = StartupTicks
            BY <1>7 DEF StartupTicks
        <3> QED BY <1>4, <3>2, <3>3 DEF VisibleBucket, Smaller
    <2>7. PICK N : N = [b \in 0 .. StartupTicks |-> IF b = StartupTicks THEN n + k ELSE M[b]]
        OBVIOUS
    <2>8. DueFirst(pool', N)
        <3> SUFFICES ASSUME NEW b \in 0 .. StartupTicks
                     PROVE  /\ N[b] \in 0 .. n + k
                            /\ \A i \in 1 .. n + k :
                                VisibleBucket(pool'.pending[i]) <= b <=> i <= N[b]
            BY <2>4 DEF DueFirst
        <3>1. CASE b = StartupTicks
            <4>1. \A i \in 1 .. n + k : VisibleBucket(pool'.pending[i]) \in 1 .. StartupTicks
                BY <2>1, <2>4, BucketOfNominal
            <4> QED BY <1>4, <2>7, <3>1, <4>1
        <3>2. CASE b # StartupTicks
            <4>1. N[b] = M[b] /\ M[b] \in 0 .. n
                BY <1>3, <2>7, <3>2
            <4>2. \A i \in 1 .. n : VisibleBucket(pool.pending[i]) <= b <=> i <= M[b]
                BY <1>3 DEF DueFirst, n
            <4>3. ASSUME NEW i \in 1 .. n + k
                  PROVE  VisibleBucket(pool'.pending[i]) <= b <=> i <= N[b]
                <5>1. CASE i <= n
                    BY <1>4, <2>4, <4>1, <4>2, <5>1
                <5>2. CASE i > n
                    BY <1>4, <2>6, <3>2, <4>1, <5>2
                <5> QED BY <1>4, <5>1, <5>2
            <4> QED BY <1>4, <4>1, <4>3
        <3> QED BY <3>1, <3>2
    <2>9. PendingByTicks(pool') = [b \in 1 .. StartupTicks |-> N[b] - N[b - 1]]
        BY <2>1, <2>8, BucketsAre
    <2>10. PendingByTicks(pool')
            = [PendingByTicks(pool) EXCEPT ![StartupTicks] = @ + k]
        <3>1. \A b \in 1 .. StartupTicks :
                /\ b \in 0 .. StartupTicks /\ b - 1 \in 0 .. StartupTicks /\ b - 1 # StartupTicks
                /\ M[b] \in Int /\ M[b - 1] \in Int
            BY <1>3, <1>4
        <3>2. StartupTicks \in 1 .. StartupTicks
            BY <1>4, <2>5
        <3>3. ASSUME NEW b \in 1 .. StartupTicks
              PROVE  N[b] - N[b - 1] = IF b = StartupTicks THEN (M[b] - M[b - 1]) + k ELSE M[b] - M[b - 1]
            BY <1>3, <1>4, <2>7, <3>1
        <3> QED BY <1>3, <2>9, <3>2, <3>3
    <2> QED BY <1>5, <2>2, <2>5, <2>10 DEF Pipeline!Order, k
<1> QED BY <1>6, <1>7

\* What a list of n keeps, between its positions x and y, when it loses its
\* last r entries.
LEMMA TruncatedShare ==
    ASSUME NEW n \in Nat, NEW r \in Nat, NEW x \in 0 .. n, NEW y \in 0 .. n, x <= y
    PROVE  LET kept == n - Smaller(r, n)
           IN  Smaller(y, kept) - Smaller(x, kept)
                = (y - x) - Pipeline!Least(y - x, Pipeline!Most(0, r - (n - y)))
<1>1. CASE r <= n /\ y <= n - r
    BY <1>1 DEF Smaller, Pipeline!Least, Pipeline!Most
<1>2. CASE r <= n /\ y > n - r
    <2>1. Pipeline!Most(0, r - (n - y)) = r - (n - y)
        BY <1>2 DEF Pipeline!Most
    <2> QED BY <1>2, <2>1 DEF Smaller, Pipeline!Least
<1>3. CASE r > n
    <2>1. Pipeline!Most(0, r - (n - y)) = r - (n - y)
        BY <1>3 DEF Pipeline!Most
    <2> QED BY <1>3, <2>1 DEF Smaller, Pipeline!Least
<1> QED BY <1>1, <1>2, <1>3

\* A cancellation empties the register from the far end.
LEMMA ReleaseTruncates ==
    ASSUME PoolInv(pool), Multipliers = {2}, NEW count \in 1 .. MaxReplicas, ScaleDown(count)
    PROVE  Pipeline!Release(count)
<1> DEFINE n == Len(pool.pending)
           r == Removed(pool, count)
           c == Cancelled(pool, count)
<1>1. count \in Nat \ {0}
    BY ReplicaConfig
<1>2. pool' = ScaledDown(pool, count)
    BY DEF ScaleDown
<1>3. PICK M :
        /\ DueFirst(pool, M)
        /\ \A b \in 0 .. StartupTicks : Pipeline!DueWithin(b) = M[b]
        /\ Pipeline!starting = n
        /\ PendingByTicks(pool) = [b \in 1 .. StartupTicks |-> M[b] - M[b - 1]]
        /\ \A b \in 1 .. StartupTicks : M[b - 1] <= M[b]
        /\ \A b \in 0 .. StartupTicks : M[b] \in 0 .. n
    BY RegisterOf
<1>4. /\ pool.active \in Nat /\ n \in Nat /\ StartupTicks \in Nat /\ MinReplicas \in Nat
      /\ Committed(pool) = pool.active + n
      /\ pool.pending \in Seq(PendingReplica) /\ DOMAIN pool.pending = 1 .. n
    BY PoolInvFacts, TicksOfStartup, ReplicaConfig
<1>5. /\ PoolInv(pool') /\ Len(pool'.pending) = n - c
      /\ r \in Nat /\ c \in 0 .. n /\ c <= r /\ c = Smaller(r, n)
    BY <1>1, <1>2, ScaledDownInv, RemovedRange DEF Cancelled
<1>6. /\ pool'.active = pool.active - (r - c)
      /\ pool'.pending = SubSeq(pool.pending, 1, n - c)
    BY <1>2 DEF ScaledDown
<1>7. Pipeline!Least(count, pool.active + Pipeline!starting - MinReplicas) = r
    <2>1. pool.active + Pipeline!starting - MinReplicas = Committed(pool) - MinReplicas
        <3>1. Pipeline!starting = n
            BY <1>3
        <3> HIDE DEF n
        <3> QED BY <1>4, <3>1
    <2> QED BY <2>1 DEF Removed, Smaller, Pipeline!Least
<1>8. \A i \in 1 .. n - c : i \in 1 .. n /\ pool'.pending[i] = pool.pending[i]
    <2>1. PICK s \in Seq(PendingReplica), m \in Nat :
            s = pool.pending /\ m = n - c /\ m <= Len(s)
        BY <1>4, <1>5
    <2>2. \A i \in 1 .. m : i \in 1 .. Len(s) /\ SubSeq(s, 1, m)[i] = s[i]
        BY <2>1
    <2> QED BY <1>6, <2>1, <2>2
<1> HIDE DEF n, r, c
<1>9. PICK N : N = [b \in 0 .. StartupTicks |-> Smaller(M[b], n - c)]
    OBVIOUS
<1>10. DueFirst(pool', N)
    <2> SUFFICES ASSUME NEW b \in 0 .. StartupTicks
                 PROVE  /\ N[b] \in 0 .. n - c
                        /\ \A i \in 1 .. n - c :
                            VisibleBucket(pool'.pending[i]) <= b <=> i <= N[b]
        BY <1>5 DEF DueFirst
    <2>1. /\ N[b] = Smaller(M[b], n - c) /\ M[b] \in 0 .. n
          /\ \A i \in 1 .. n : VisibleBucket(pool.pending[i]) <= b <=> i <= M[b]
        BY <1>3, <1>9 DEF DueFirst, n
    <2>2. ASSUME NEW i \in 1 .. n - c
          PROVE  VisibleBucket(pool'.pending[i]) <= b <=> i <= N[b]
        <3>1. VisibleBucket(pool'.pending[i]) <= b <=> i <= M[b]
            BY <1>8, <2>1
        <3> QED BY <1>4, <1>5, <2>1, <3>1 DEF Smaller
    <2> QED BY <1>4, <1>5, <2>1, <2>2 DEF Smaller
<1>11. PendingByTicks(pool') = [b \in 1 .. StartupTicks |-> N[b] - N[b - 1]]
    BY <1>5, <1>10, BucketsAre
<1> DEFINE taken(b) == Pipeline!Least(PendingByTicks(pool)[b],
                            Pipeline!Most(0, r - (Pipeline!starting - Pipeline!DueWithin(b))))
<1>12. ASSUME NEW b \in 1 .. StartupTicks
       PROVE  N[b] - N[b - 1] = PendingByTicks(pool)[b] - taken(b)
    <2>1. b \in 0 .. StartupTicks /\ b - 1 \in 0 .. StartupTicks
        BY <1>4
    <2>2. PICK x \in 0 .. n, y \in 0 .. n : x = M[b - 1] /\ y = M[b] /\ x <= y
        BY <1>3, <2>1
    <2>3. /\ N[b - 1] = Smaller(x, n - c) /\ N[b] = Smaller(y, n - c)
          /\ PendingByTicks(pool)[b] = y - x
          /\ taken(b) = Pipeline!Least(y - x, Pipeline!Most(0, r - (n - y)))
        BY <1>3, <1>9, <2>1, <2>2
    <2>4. /\ N[b] - N[b - 1] = Smaller(y, n - c) - Smaller(x, n - c)
          /\ PendingByTicks(pool)[b] - taken(b)
                = (y - x) - Pipeline!Least(y - x, Pipeline!Most(0, r - (n - y)))
        BY <2>3
    <2>5. Smaller(y, n - c) - Smaller(x, n - c)
            = (y - x) - Pipeline!Least(y - x, Pipeline!Most(0, r - (n - y)))
        BY <1>4, <1>5, <2>2, TruncatedShare
    <2> QED BY <2>4, <2>5
<1>13. PendingByTicks(pool') = [b \in 1 .. StartupTicks |-> PendingByTicks(pool)[b] - taken(b)]
    BY <1>11, <1>12
<1>14. pool'.active = pool.active - Pipeline!Most(0, r - Pipeline!starting)
    BY <1>3, <1>4, <1>5, <1>6 DEF Smaller, Pipeline!Most
<1> QED BY <1>7, <1>13, <1>14 DEF Pipeline!Release

\* One control interval shifts the register by one place.
LEMMA IntervalShifts ==
    ASSUME PoolInv(pool), Multipliers = {2}, Advance(Interval)
    PROVE  Pipeline!Shift \/ UNCHANGED Pipeline!vars
<1> DEFINE n == Len(pool.pending)
<1>1. Interval \in Nat \ {0}
    BY TimingConfig DEF Interval
<1>2. pool' = Advanced(pool, Interval)
    BY DEF Advance
<1>3. PICK M :
        /\ DueFirst(pool, M)
        /\ PendingByTicks(pool) = [b \in 1 .. StartupTicks |-> M[b] - M[b - 1]]
        /\ M[0] = 0 /\ M[StartupTicks] = n
        /\ \A b \in 0 .. StartupTicks : M[b] \in 0 .. n
    BY RegisterOf
<1>4. /\ pool.active \in Nat /\ n \in Nat /\ StartupTicks \in Nat
      /\ DOMAIN pool.pending = 1 .. n
    BY PoolInvFacts, TicksOfStartup, ReplicaConfig
<1>5. AllNominal(pool) /\ PoolInv(pool')
    <2>1. \A i \in 1 .. n : pool.pending[i].multiplier = 2
        BY PoolInvFacts DEF PendingReplica
    <2> QED BY <1>1, <1>2, <1>4, <2>1, AdvancedInv DEF AllNominal
<1>6. PICK ready \in 0 .. n :
        /\ pool'.active = pool.active + ready
        /\ Len(pool'.pending) = n - ready
        /\ \A i \in 1 .. ready : pool.pending[i].remaining <= Interval
        /\ \A i \in 1 .. n - ready :
            /\ pool.pending[ready + i].remaining > Interval
            /\ pool'.pending[i] = Aged(pool.pending[ready + i], Interval)
    BY <1>1, <1>2, <1>5, AdvancedInOrder
<1> HIDE DEF n
<1>7. CASE StartupTicks = 0
    <2>1. n = 0
        BY <1>7, TicksOfStartup, NothingPending DEF n
    <2>2. pool'.active = pool.active
        BY <1>4, <1>6, <2>1
    <2>3. PendingByTicks(pool') = PendingByTicks(pool)
        BY <1>7 DEF PendingByTicks
    <2> QED BY <2>2, <2>3 DEF Pipeline!vars
<1>8. CASE StartupTicks # 0
    <2>1. ASSUME NEW i \in 1 .. n
          PROVE  /\ VisibleBucket(pool.pending[i]) \in 1 .. StartupTicks
                 /\ VisibleBucket(pool.pending[i]) <= 1 <=> i <= ready
        <3>1. PICK x \in Int, b \in 1 .. StartupTicks :
                /\ x = pool.pending[i].remaining /\ b = VisibleBucket(pool.pending[i])
                /\ b * Interval >= x /\ (b - 1) * Interval < x
            BY BucketOfNominal DEF n
        <3>2. CASE i <= ready
            <4>1. i \in 1 .. ready
                BY <1>4, <3>2
            <4>2. x <= Interval
                BY <1>6, <3>1, <4>1
            <4>3. (b - 1) * Interval < 1 * Interval
                <5>1. (b - 1) * Interval \in Int
                    BY <1>1
                <5> QED BY <1>1, <3>1, <4>2, <5>1
            <4>4. b - 1 < 1
                BY <1>1, <4>3, FactorsCompare
            <4> QED BY <3>1, <3>2, <4>4
        <3>3. CASE i > ready
            <4>1. i - ready \in 1 .. n - ready /\ ready + (i - ready) = i
                BY <1>4, <3>3
            <4>2. x > Interval
                BY <1>6, <3>1, <4>1
            <4>3. 1 * Interval < b * Interval
                <5>1. b * Interval \in Int
                    BY <1>1
                <5> QED BY <1>1, <3>1, <4>2, <5>1
            <4>4. 1 < b
                BY <1>1, <4>3, FactorsCompare
            <4> QED BY <3>1, <3>3, <4>4
        <3> QED BY <1>4, <3>2, <3>3
    <2>2. M[1] = ready
        <3>1. 1 \in 0 .. StartupTicks
            BY <1>4, <1>8
        <3>2. M[1] \in 0 .. n /\ \A i \in 1 .. n : i <= M[1] <=> i <= ready
            BY <1>3, <2>1, <3>1 DEF DueFirst, n
        <3>3. CASE M[1] < ready
            BY <1>4, <3>2, <3>3
        <3>4. CASE ready < M[1]
            <4>1. M[1] \in 1 .. n
                BY <1>4, <3>2, <3>4
            <4> QED BY <3>2, <3>4, <4>1
        <3> QED BY <1>4, <3>2, <3>3, <3>4
    <2>3. ASSUME NEW i \in 1 .. n - ready
          PROVE  /\ ready + i \in 1 .. n
                 /\ VisibleBucket(pool'.pending[i]) = VisibleBucket(pool.pending[ready + i]) - 1
        <3>1. PICK j \in 1 .. n : j = ready + i
            BY <1>4
        <3>2. PICK x \in Int, b \in Int :
                /\ x = pool.pending[j].nominal /\ b = VisibleBucket(pool.pending[j])
                /\ b * Interval >= x /\ (b - 1) * Interval < x
            BY BucketOfNominal DEF n
        <3>3. PICK y \in Int, d \in Int :
                /\ y = pool'.pending[i].nominal /\ d = VisibleBucket(pool'.pending[i])
                /\ d * Interval >= y /\ (d - 1) * Interval < y
            <4>1. i \in 1 .. Len(pool'.pending)
                BY <1>6
            <4>2. pool'.pending[i].nominal \in Int /\ VisibleBucket(pool'.pending[i]) \in Int
                BY <1>5, <4>1, BucketOfNominal, TimingConfig DEF NominalDelay
            <4> QED BY <1>5, <4>1, <4>2, BucketOfNominal
        <3>4. y = x - Interval
            <4>1. pool'.pending[i] = Aged(pool.pending[j], Interval)
                BY <1>6, <3>1
            <4>2. Aged(pool.pending[j], Interval).nominal = pool.pending[j].nominal - Interval
                BY DEF Aged
            <4> QED BY <3>2, <3>3, <4>1, <4>2
        <3>5. /\ (b - 1) * Interval = b * Interval - Interval
              /\ (d - 1) * Interval = d * Interval - Interval
              /\ b * Interval \in Int /\ d * Interval \in Int
              /\ (d + 1) * Interval = d * Interval + Interval
              /\ (b - 2) * Interval = b * Interval - 2 * Interval
            BY <1>1
        <3>6. (d - 1) * Interval < (b - 1) * Interval /\ (b - 1) * Interval < (d + 1) * Interval
            BY <1>1, <3>2, <3>3, <3>4, <3>5
        <3>7. d - 1 < b - 1 /\ b - 1 < d + 1
            BY <1>1, <3>6, FactorsCompare
        <3> QED BY <3>1, <3>2, <3>3, <3>7
    <2>4. PICK N : N = [b \in 0 .. StartupTicks |->
                            IF b = StartupTicks THEN n - ready ELSE M[b + 1] - ready]
        OBVIOUS
    <2>5. \A b \in 0 .. StartupTicks - 1 : M[b + 1] \in ready .. n
        <3> SUFFICES ASSUME NEW b \in 0 .. StartupTicks - 1 PROVE M[b + 1] \in ready .. n
            OBVIOUS
        <3>1. b + 1 \in 0 .. StartupTicks
            BY <1>4
        <3>2. /\ M[b + 1] \in 0 .. n
              /\ \A i \in 1 .. n : VisibleBucket(pool.pending[i]) <= b + 1 <=> i <= M[b + 1]
            BY <1>3, <3>1 DEF DueFirst, n
        <3>3. \A i \in 1 .. ready : i \in 1 .. n
            BY <1>4
        <3>4. \A i \in 1 .. ready : VisibleBucket(pool.pending[i]) <= b + 1
            BY <1>4, <2>1, <3>3
        <3>5. ready # 0 => ready <= M[b + 1]
            BY <1>4, <3>2, <3>3, <3>4
        <3> QED BY <1>4, <3>2, <3>5
    <2>6. DueFirst(pool', N)
        <3> SUFFICES ASSUME NEW b \in 0 .. StartupTicks
                     PROVE  /\ N[b] \in 0 .. n - ready
                            /\ \A i \in 1 .. n - ready :
                                VisibleBucket(pool'.pending[i]) <= b <=> i <= N[b]
            BY <1>6 DEF DueFirst
        <3>1. CASE b = StartupTicks
            <4>1. \A i \in 1 .. n - ready : VisibleBucket(pool'.pending[i]) <= b
                BY <1>5, <1>6, <3>1, BucketOfNominal
            <4>2. N[b] = n - ready
                BY <2>4, <3>1
            <4> QED BY <1>4, <4>1, <4>2
        <3>2. CASE b # StartupTicks
            <4>1. /\ b \in 0 .. StartupTicks - 1 /\ b + 1 \in 0 .. StartupTicks
                  /\ N[b] = M[b + 1] - ready /\ M[b + 1] \in ready .. n
                BY <1>4, <2>4, <2>5, <3>2
            <4>2. \A i \in 1 .. n : VisibleBucket(pool.pending[i]) <= b + 1 <=> i <= M[b + 1]
                BY <1>3, <4>1 DEF DueFirst, n
            <4>3. ASSUME NEW i \in 1 .. n - ready
                  PROVE  VisibleBucket(pool'.pending[i]) <= b <=> i <= N[b]
                <5>1. PICK j \in 1 .. n : j = ready + i
                    BY <2>3
                <5>2. PICK d \in Int : d = VisibleBucket(pool.pending[j])
                    BY <2>1
                <5>3. VisibleBucket(pool'.pending[i]) = d - 1
                    BY <2>3, <5>1, <5>2
                <5>4. d <= b + 1 <=> j <= M[b + 1]
                    BY <4>2, <5>2
                <5> QED BY <1>4, <4>1, <5>1, <5>3, <5>4
            <4> QED BY <1>4, <4>1, <4>3
        <3> QED BY <3>1, <3>2
    <2>7. PendingByTicks(pool') = [b \in 1 .. StartupTicks |-> N[b] - N[b - 1]]
        BY <1>5, <2>6, BucketsAre
    <2>8. ASSUME NEW b \in 1 .. StartupTicks
          PROVE  N[b] - N[b - 1] = IF b = StartupTicks THEN 0 ELSE PendingByTicks(pool)[b + 1]
        <3>1. /\ b \in 0 .. StartupTicks /\ b - 1 \in 0 .. StartupTicks /\ b - 1 # StartupTicks
              /\ (b - 1) + 1 = b /\ M[b] \in 0 .. n
              /\ b # StartupTicks => /\ b + 1 \in 1 .. StartupTicks /\ M[b + 1] \in 0 .. n
                                     /\ (b + 1) - 1 = b
            <4>1. b # StartupTicks => b + 1 \in 0 .. StartupTicks /\ b + 1 \in 1 .. StartupTicks
                BY <1>4
            <4> QED BY <1>3, <1>4, <4>1
        <3>2. N[b - 1] = M[b] - ready
            BY <2>4, <3>1
        <3>3. CASE b = StartupTicks
            <4>1. N[b] = n - ready
                BY <2>4, <3>1, <3>3
            <4> QED BY <1>3, <1>4, <3>1, <3>2, <3>3, <4>1
        <3>4. CASE b # StartupTicks
            <4>1. N[b] = M[b + 1] - ready
                BY <2>4, <3>1, <3>4
            <4>2. PendingByTicks(pool)[b + 1] = M[b + 1] - M[b]
                BY <1>3, <3>1, <3>4
            <4> QED BY <1>4, <3>1, <3>2, <3>4, <4>1, <4>2
        <3> QED BY <3>3, <3>4
    <2>9. PendingByTicks(pool')
            = [b \in 1 .. StartupTicks |->
                IF b = StartupTicks THEN 0 ELSE PendingByTicks(pool)[b + 1]]
        BY <2>7, <2>8
    <2>10. PendingByTicks(pool)[1] = ready
        <3>1. 1 \in 1 .. StartupTicks /\ 1 - 1 = 0
            BY <1>4, <1>8
        <3> QED BY <1>3, <1>4, <2>2, <3>1
    <2> QED BY <1>4, <1>6, <1>8, <2>9, <2>10 DEF Pipeline!Shift
<1> QED BY <1>7, <1>8

\* A pool with nothing pending is the empty register.
LEMMA EmptyRegister ==
    ASSUME NEW p, p.pending = <<>>
    PROVE  PendingByTicks(p) = [b \in 1 .. StartupTicks |-> 0]
<1>1. \A b \in 1 .. StartupTicks :
        {i \in DOMAIN p.pending : VisibleBucket(p.pending[i]) = b} = {}
    OBVIOUS
<1> QED BY <1>1, FS_EmptySet DEF PendingByTicks

\* With fixed startup and calls of whole control intervals, what a controller is
\* shown of the starting replicas is a shift register: the replicas shown in
\* bucket b serve after exactly b intervals unless they are cancelled, and the
\* latest are cancelled first.
THEOREM ScheduleIsExact ==
    ASSUME Multipliers = {2}, Elapsed = {Interval}
    PROVE  Spec => VisibleScheduleIsExact
<1>1. Init => Pipeline!Init
    <2> SUFFICES ASSUME Init PROVE Pipeline!Init
        OBVIOUS
    <2>1. pool.pending = <<>> /\ pool.active = InitialReplicas
        BY DEF Init, FreshPool
    <2>2. PendingByTicks(pool) = [b \in 1 .. StartupTicks |-> 0]
        BY <2>1, EmptyRegister
    <2> QED BY <2>1, <2>2 DEF Pipeline!Init
<1>2. PoolInv(pool) /\ [Next]_vars => [Pipeline!Next]_(Pipeline!vars)
    <2> SUFFICES ASSUME PoolInv(pool), [Next]_vars
                 PROVE  [Pipeline!Next]_(Pipeline!vars)
        OBVIOUS
    <2>1. ASSUME NEW count \in 1 .. MaxReplicas, ScaleUp(count)
          PROVE  Pipeline!Next
        BY <2>1, RequestEnters DEF Pipeline!Next
    <2>2. ASSUME NEW count \in 1 .. MaxReplicas, ScaleDown(count)
          PROVE  Pipeline!Next
        BY <2>2, ReleaseTruncates DEF Pipeline!Next
    <2>3. ASSUME NEW e \in Elapsed, Advance(e)
          PROVE  [Pipeline!Next]_(Pipeline!vars)
        BY <2>3, IntervalShifts DEF Pipeline!Next
    <2>4. CASE Reset
        BY <2>4, EmptyRegister DEF Reset, FreshPool, Pipeline!Restart, Pipeline!Next
    <2>5. CASE UNCHANGED vars
        BY <2>5 DEF vars, Pipeline!vars
    <2> QED BY <2>1, <2>2, <2>3, <2>4, <2>5 DEF Next
<1> QED BY <1>1, <1>2, PoolInvariant, PTL DEF Spec, VisibleScheduleIsExact, Pipeline!Spec
=============================================================================
