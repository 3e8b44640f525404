-------------------------- MODULE ReplicaLifecycleProofs ----------------------
(***************************************************************************)
(* What each operation of the replica pool preserves, for every replica    *)
(* bound, startup delay, control interval and multiplier set; and, first,  *)
(* the induction and the sums that these and other proofs need.            *)
(***************************************************************************)
EXTENDS ReplicaLifecycle, Sums, WellFoundedInduction, FiniteSetTheorems,
        FunctionTheorems, SequenceTheorems, TLAPS

(* Induction over the natural numbers, from the well-foundedness of the    *)
(* subsets of a finite set, and what it gives for running sums.            *)
\* Every nonempty set of numbers has a least element.
LEMMA Least ==
    ASSUME NEW T, T \subseteq Nat, T # {}
    PROVE  \E x \in T : \A y \in T : x <= y
<1>1. PICK t \in T : TRUE
    OBVIOUS
<1> DEFINE S == 0 .. t
           C == {0 .. k : k \in {n \in T : n <= t}}
           R == StrictSubsetOrdering(S)
<1>2. IsFiniteSet(S) /\ t \in Nat
    BY <1>1, FS_Interval
<1>3. IsWellFoundedOn(R, FiniteSubsetsOf(S))
    BY FS_StrictSubsetOrderingWellFounded
<1>4. C \subseteq FiniteSubsetsOf(S) /\ C # {}
    <2>1. FiniteSubsetsOf(S) = SUBSET S
        BY <1>2, FS_FiniteSubsetsOfFinite
    <2>2. t \in {n \in T : n <= t}
        BY <1>1, <1>2
    <2>3. 0 .. t \in C
        BY <2>2
    <2>4. ASSUME NEW k \in T, k <= t PROVE 0 .. k \subseteq S
        BY <2>4, <1>2
    <2> QED BY <2>1, <2>3, <2>4
<1>5. PICK X \in C : \A Y \in C : ~(<<Y, X>> \in R)
    <2> HIDE DEF C, R, S
    <2> QED BY <1>3, <1>4, WFMin
<1>6. PICK x \in T : x <= t /\ X = 0 .. x
    BY <1>5
<1>7. ASSUME NEW y \in T, y < x PROVE FALSE
    <2>1. 0 .. y \in C
        BY <1>6, <1>7
    <2>2. 0 .. y \subseteq 0 .. x /\ 0 .. y # 0 .. x
        BY <1>6, <1>7
    <2>3. 0 .. y \in SUBSET S /\ X \in SUBSET S
        BY <1>2, <1>6, <2>2
    <2>4. <<0 .. y, X>> \in R
        BY <2>2, <2>3, <1>6 DEF StrictSubsetOrdering
    <2> QED BY <1>5, <2>1, <2>4
<1> QED BY <1>6, <1>7

\* Induction, for the set of the numbers that have a property.
LEMMA Inductive ==
    ASSUME NEW P, 0 \in P, \A n \in Nat : n \in P => n + 1 \in P
    PROVE  \A n \in Nat : n \in P
<1> SUFFICES ASSUME Nat \ P # {} PROVE FALSE
    OBVIOUS
<1>1. PICK x \in Nat \ P : \A y \in Nat \ P : x <= y
    <2>1. Nat \ P \subseteq Nat
        OBVIOUS
    <2> QED BY <2>1, Least
<1>2. x # 0 /\ x - 1 \in Nat /\ x - 1 \notin Nat \ P
    BY <1>1
<1> QED BY <1>1, <1>2

\* A recursive sum exists.
LEMMA SumsExist ==
    ASSUME NEW n \in Nat, NEW s, \A k \in 1 .. n : s[k] \in Int
    PROVE  \E f : f = [k \in 0 .. n |-> IF k = 0 THEN 0 ELSE f[k - 1] + s[k]]
<1> DEFINE Defined(f, m) == f = [k \in 0 .. m |-> IF k = 0 THEN 0 ELSE f[k - 1] + s[k]]
           P == {m \in Nat : m <= n => \E f : Defined(f, m)}
<1>1. 0 \in P
    <2>1. PICK f : f = [k \in 0 .. 0 |-> 0]
        OBVIOUS
    <2>2. Defined(f, 0)
        BY <2>1
    <2> QED BY <2>2
<1>2. ASSUME NEW m \in Nat, m \in P PROVE m + 1 \in P
    <2> SUFFICES ASSUME m + 1 <= n PROVE \E g : Defined(g, m + 1)
        OBVIOUS
    <2>1. PICK f : Defined(f, m)
        BY <1>2
    <2>2. PICK g : g = [k \in 0 .. m + 1 |-> IF k <= m THEN f[k] ELSE f[m] + s[m + 1]]
        OBVIOUS
    <2>3. ASSUME NEW k \in 0 .. m + 1
          PROVE  g[k] = IF k = 0 THEN 0 ELSE g[k - 1] + s[k]
        <3>1. CASE k = 0
            BY <2>1, <2>2, <3>1
        <3>2. CASE k \in 1 .. m
            <4>1. k - 1 \in 0 .. m /\ k \in 0 .. m /\ k # 0
                BY <3>2
            <4>2. g[k] = f[k] /\ g[k - 1] = f[k - 1]
                BY <2>2, <4>1
            <4>3. f[k] = f[k - 1] + s[k]
                BY <2>1, <4>1
            <4> QED BY <4>1, <4>2, <4>3
        <3>3. CASE k = m + 1
            <4>1. g[k] = f[m] + s[m + 1]
                BY <2>2, <3>3
            <4>2. k - 1 = m /\ g[m] = f[m] /\ k # 0
                BY <2>2, <3>3
            <4> QED BY <3>3, <4>1, <4>2
        <3> QED BY <3>1, <3>2, <3>3
    <2>4. g = [k \in 0 .. m + 1 |-> g[k]]
        BY <2>2
    <2>5. Defined(g, m + 1)
        BY <2>3, <2>4
    <2> QED BY <2>5
<1>3. n \in P
    <2> HIDE DEF P
    <2> QED BY <1>1, <1>2, Inductive
<1> QED BY <1>3

\* The running sums of a sequence of integers.
LEMMA SumsAre ==
    ASSUME NEW n \in Nat, NEW s, Len(s) = n, \A k \in 1 .. n : s[k] \in Int
    PROVE  /\ RunningSums(s)[0] = 0
           /\ \A k \in 1 .. n : RunningSums(s)[k] = RunningSums(s)[k - 1] + s[k]
           /\ \A k \in 0 .. n : RunningSums(s)[k] \in Int
           /\ Total(s) = RunningSums(s)[n]
<1> DEFINE f == RunningSums(s)
<1>1. f = [k \in 0 .. n |-> IF k = 0 THEN 0 ELSE f[k - 1] + s[k]]
    BY SumsExist DEF RunningSums
<1> HIDE DEF f
<1>2. f[0] = 0 /\ \A k \in 1 .. n : f[k] = f[k - 1] + s[k]
    BY <1>1
<1> DEFINE P == {m \in Nat : m <= n => f[m] \in Int}
<1>3. 0 \in P
    BY <1>2
<1>4. ASSUME NEW m \in Nat, m \in P PROVE m + 1 \in P
    <2> SUFFICES ASSUME m + 1 <= n PROVE f[m + 1] \in Int
        OBVIOUS
    <2>1. m + 1 \in 1 .. n /\ (m + 1) - 1 = m /\ f[m] \in Int
        BY <1>4
    <2> QED BY <1>2, <2>1
<1>5. \A m \in Nat : m \in P
    <2> HIDE DEF P
    <2> QED BY <1>3, <1>4, Inductive
<1>6. \A k \in 0 .. n : f[k] \in Int
    BY <1>5
<1> QED BY <1>2, <1>6 DEF f, Total

(***************************************************************************)
(* The order-preserving filter.                                            *)
(***************************************************************************)

\* A set of positions has a k-th smallest element for every k up to its
\* size, and a larger k names a larger position.
LEMMA NthIsOrdered ==
    ASSUME NEW n \in Nat, NEW J \in SUBSET (1 .. n)
    PROVE  /\ IsFiniteSet(J)
           /\ Cardinality(J) \in 0 .. n
           /\ \A k \in 1 .. Cardinality(J) : Nth(J, k) \in J
           /\ \A k, l \in 1 .. Cardinality(J) : k < l => Nth(J, k) < Nth(J, l)
           /\ \A k \in 1 .. Cardinality(J) : Cardinality(Upto(J, Nth(J, k))) = k
<1>1. IsFiniteSet(1 .. n) /\ Cardinality(1 .. n) = n
    BY FS_Interval
<1>2. IsFiniteSet(J) /\ Cardinality(J) \in 0 .. n
    <2>1. IsFiniteSet(J) /\ Cardinality(J) <= n
        BY <1>1, FS_Subset, Zenon
    <2>2. Cardinality(J) \in Nat
        BY <2>1, FS_CardinalityType
    <2> QED BY <2>1, <2>2
<1> DEFINE size == Cardinality(J)
           rank == [i \in J |-> Cardinality(Upto(J, i))]
<1>3. \A i \in J : IsFiniteSet(Upto(J, i)) /\ rank[i] \in 1 .. size
    <2> SUFFICES ASSUME NEW i \in J
                 PROVE  IsFiniteSet(Upto(J, i)) /\ rank[i] \in 1 .. size
        OBVIOUS
    <2>1. Upto(J, i) \subseteq J
        BY DEF Upto
    <2>2. IsFiniteSet(Upto(J, i)) /\ Cardinality(Upto(J, i)) <= size
        BY <1>2, <2>1, FS_Subset
    <2>3. i \in Upto(J, i)
        BY DEF Upto
    <2>4. Cardinality(Upto(J, i)) # 0
        BY <2>2, <2>3, FS_EmptySet
    <2>5. Cardinality(Upto(J, i)) \in Nat
        BY <2>2, FS_CardinalityType
    <2> QED BY <1>2, <2>2, <2>4, <2>5
<1>4. \A i, j \in J : i < j => rank[i] < rank[j]
    <2> SUFFICES ASSUME NEW i \in J, NEW j \in J, i < j
                 PROVE  rank[i] < rank[j]
        OBVIOUS
    <2> J \subseteq Int
        OBVIOUS
    <2>0. j \in Upto(J, j) /\ j \notin Upto(J, i)
        BY DEF Upto
    <2>a. Upto(J, i) \subseteq Upto(J, j)
        <3> SUFFICES ASSUME NEW x \in Upto(J, i) PROVE x \in Upto(J, j)
            OBVIOUS
        <3> QED BY DEF Upto
    <2>1. Upto(J, i) \in SUBSET Upto(J, j) /\ Upto(J, i) # Upto(J, j)
        BY <2>0, <2>a, Zenon
    <2>2. /\ Cardinality(Upto(J, i)) <= Cardinality(Upto(J, j))
          /\ Cardinality(Upto(J, i)) # Cardinality(Upto(J, j))
        BY <1>3, <2>1, FS_Subset
    <2> QED BY <1>2, <1>3, <2>2
<1>5. rank \in Surjection(J, 1 .. size)
    <2>1. rank \in [J -> 1 .. size]
        BY <1>3
    <2>2. \A i, j \in J : rank[i] = rank[j] => i = j
        BY <1>3, <1>4
    <2>3. rank \in Injection(J, 1 .. size)
        BY <2>1, <2>2 DEF Injection, IsInjective
    <2>4. IsFiniteSet(1 .. size) /\ Cardinality(1 .. size) = size
        BY <1>2, FS_Interval
    <2> QED BY <2>3, <2>4, FS_Injection
<1>6. \A k \in 1 .. size : Nth(J, k) \in J /\ rank[Nth(J, k)] = k
    <2> SUFFICES ASSUME NEW k \in 1 .. size
                 PROVE  Nth(J, k) \in J /\ rank[Nth(J, k)] = k
        OBVIOUS
    <2>1. \E i \in J : Cardinality(Upto(J, i)) = k
        BY <1>5 DEF Surjection
    <2> QED BY <2>1 DEF Nth
<1>7. \A k, l \in 1 .. size : k < l => Nth(J, k) < Nth(J, l)
    <2> SUFFICES ASSUME NEW k \in 1 .. size, NEW l \in 1 .. size, k < l
                 PROVE  Nth(J, k) < Nth(J, l)
        OBVIOUS
    <2>0. J \subseteq Int
        OBVIOUS
    <2>1. /\ Nth(J, k) \in J /\ Nth(J, k) \in Int /\ rank[Nth(J, k)] = k
          /\ Nth(J, l) \in J /\ Nth(J, l) \in Int /\ rank[Nth(J, l)] = l
        BY <1>6, <2>0, Zenon
    <2>2. ~ (Nth(J, l) < Nth(J, k))
        BY <1>2, <1>4, <2>1
    <2>3. Nth(J, k) # Nth(J, l)
        BY <1>2, <2>1
    <2> QED BY <2>1, <2>2, <2>3
<1> QED BY <1>2, <1>6, <1>7

\* Filtering a sequence yields the chosen elements, one per chosen position.
LEMMA AtIndicesType ==
    ASSUME NEW S, NEW s, NEW n \in Nat, NEW J \in SUBSET (1 .. n),
           \A i \in J : s[i] \in S
    PROVE  /\ AtIndices(s, J) \in Seq(S)
           /\ Len(AtIndices(s, J)) = Cardinality(J)
           /\ Cardinality(J) \in 0 .. n
<1>1. Cardinality(J) \in 0 .. n
    BY NthIsOrdered
<1>2. \A k \in 1 .. Cardinality(J) : Nth(J, k) \in J
    BY NthIsOrdered
<1>3. AtIndices(s, J) \in [1 .. Cardinality(J) -> S]
    BY <1>2 DEF AtIndices
<1> QED BY <1>1, <1>3

(***************************************************************************)
(* The operations.                                                         *)
(***************************************************************************)

\* A fresh pool satisfies the invariant.
LEMMA FreshPoolInv == PoolInv(FreshPool)
BY ReplicaConfig
   DEF PoolInv, FreshPool, PoolType, Committed, OldestFirst, ClocksAgree

\* A pending record counts its nominal time in whole half ticks.
LEMMA PendingNominalInt ==
    ASSUME NEW r \in PendingReplica
    PROVE  r.nominal \in Int
BY TimingConfig DEF PendingReplica, NominalDelay

\* The parts of the invariant the operations rely on.
LEMMA PoolInvFacts ==
    ASSUME NEW p, PoolInv(p)
    PROVE  /\ p = [active |-> p.active, pending |-> p.pending,
                   terminating |-> p.terminating, started |-> p.started]
           /\ p.active \in MinReplicas .. MaxReplicas
           /\ p.terminating \in Nat
           /\ p.started \in Seq(Multipliers)
           /\ p.pending \in Seq(PendingReplica)
           /\ Len(p.pending) \in Nat
           /\ DOMAIN p.pending = 1 .. Len(p.pending)
           /\ \A i \in 1 .. Len(p.pending) : p.pending[i] \in PendingReplica
           /\ p.active + Len(p.pending) \in MinReplicas .. MaxReplicas
           /\ Committed(p) = p.active + Len(p.pending)
           /\ OldestFirst(p)
           /\ ClocksAgree(p)
<1>1. p \in PoolType /\ p.active >= MinReplicas /\ OldestFirst(p) /\ ClocksAgree(p)
      /\ Committed(p) \in MinReplicas .. MaxReplicas
    BY DEF PoolInv
<1>2. /\ p = [active |-> p.active, pending |-> p.pending,
              terminating |-> p.terminating, started |-> p.started]
      /\ p.active \in 0 .. MaxReplicas
      /\ p.terminating \in Nat
      /\ p.started \in Seq(Multipliers)
      /\ p.pending \in Seq(PendingReplica)
    BY <1>1 DEF PoolType
<1>3. /\ Len(p.pending) \in Nat
      /\ DOMAIN p.pending = 1 .. Len(p.pending)
      /\ \A i \in 1 .. Len(p.pending) : p.pending[i] \in PendingReplica
    BY <1>2
<1>4. Committed(p) = p.active + Len(p.pending)
    BY DEF Committed
<1> QED BY <1>1, <1>2, <1>3, <1>4, ReplicaConfig

\* A newly requested replica is well formed.
LEMMA RequestedType ==
    ASSUME NEW m \in Multipliers, StartupDelay # 0
    PROVE  Requested(m) \in PendingReplica
<1>1. m = 1 \/ m = 2 \/ m = 3
    BY TimingConfig
<1>2. /\ RealizedDelay(m) \in 1 .. RealizedDelay(3)
      /\ NominalDelay \in -StartupDelay .. NominalDelay
    BY <1>1, TimingConfig DEF RealizedDelay, NominalDelay
<1> QED BY <1>2 DEF Requested, PendingReplica

\* The number of replicas a request can add is clamped at the maximum.
LEMMA AddedRange ==
    ASSUME NEW p, PoolInv(p), NEW count \in Nat \ {0}
    PROVE  /\ Added(p, count) \in 0 .. MaxReplicas
           /\ Committed(p) + Added(p, count) \in MinReplicas .. MaxReplicas
<1>1. Committed(p) \in MinReplicas .. MaxReplicas
    BY DEF PoolInv
<1> QED BY <1>1, ReplicaConfig DEF Added, Smaller

\* Requesting replicas preserves the invariant and commits exactly the
\* clamped request.
LEMMA ScaledUpInv ==
    ASSUME NEW p, PoolInv(p), NEW count \in Nat \ {0},
           NEW draws \in Draws(p, count)
    PROVE  /\ PoolInv(ScaledUp(p, count, draws))
           /\ Committed(ScaledUp(p, count, draws)) = Committed(p) + Added(p, count)
<1> DEFINE q == ScaledUp(p, count, draws)
           n == Len(p.pending)
           k == Added(p, count)
<1>1. /\ p = [active |-> p.active, pending |-> p.pending,
              terminating |-> p.terminating, started |-> p.started]
      /\ p.active \in MinReplicas .. MaxReplicas
      /\ p.terminating \in Nat
      /\ p.started \in Seq(Multipliers)
      /\ p.pending \in Seq(PendingReplica)
      /\ n \in Nat
      /\ DOMAIN p.pending = 1 .. n
      /\ \A i \in 1 .. n : p.pending[i] \in PendingReplica
      /\ Committed(p) = p.active + n
      /\ OldestFirst(p)
      /\ ClocksAgree(p)
    BY PoolInvFacts
<1>2. k \in Nat /\ Committed(p) + k \in MinReplicas .. MaxReplicas
    BY AddedRange, ReplicaConfig
<1> HIDE DEF k
<1>3. CASE StartupDelay = 0
    <2>1. q = [active |-> p.active + k, pending |-> p.pending,
               terminating |-> p.terminating, started |-> [i \in 1 .. k |-> 2]]
        BY <1>1, <1>3 DEF ScaledUp, k
    <2>2. [i \in 1 .. k |-> 2] \in Seq(Multipliers)
        BY <1>2, TimingConfig
    <2>3. p.active + k \in MinReplicas .. MaxReplicas
        BY <1>1, <1>2, ReplicaConfig
    <2>4. q \in PoolType
        BY <1>1, <2>1, <2>2, <2>3, ReplicaConfig DEF PoolType
    <2>5. Committed(q) = Committed(p) + k
        BY <1>1, <1>2, <2>1, ReplicaConfig DEF Committed
    <2> HIDE DEF q
    <2>6. OldestFirst(q) /\ ClocksAgree(q)
        <3>1. q.pending = p.pending
            BY <2>1
        <3> QED BY <1>1, <3>1 DEF OldestFirst, ClocksAgree
    <2>7. q.active >= MinReplicas
        BY <2>1, <2>3, ReplicaConfig
    <2>8. PoolInv(q)
        BY <1>2, <2>4, <2>5, <2>6, <2>7 DEF PoolInv
    <2> QED BY <2>5, <2>8 DEF k, q
<1>4. CASE StartupDelay # 0
    <2> DEFINE new == [i \in DOMAIN draws |-> Requested(draws[i])]
    <2>1. /\ draws \in [1 .. k -> Multipliers] /\ DOMAIN draws = 1 .. k
          /\ draws \in Seq(Multipliers)
        BY <1>2, <1>4 DEF Draws, DrawCount, k
    <2>2. \A i \in 1 .. k : Requested(draws[i]) \in PendingReplica
        BY <1>4, <2>1, RequestedType
    <2>3. /\ new \in Seq(PendingReplica) /\ Len(new) = k
          /\ \A i \in 1 .. k : \E m \in Multipliers : new[i] = Requested(m)
        BY <1>2, <2>1, <2>2
    <2>4. q = [active |-> p.active, pending |-> p.pending \o new,
               terminating |-> p.terminating, started |-> draws]
        BY <1>1, <1>4 DEF ScaledUp
    <2> HIDE DEF new, q
    <2>5. /\ q.pending \in Seq(PendingReplica)
          /\ Len(q.pending) = n + k
          /\ DOMAIN q.pending = 1 .. n + k
          /\ \A i \in 1 .. n + k :
                q.pending[i] = IF i <= n THEN p.pending[i] ELSE new[i - n]
        <3>1. q.pending = p.pending \o new
            BY <2>4
        <3>2. /\ q.pending \in Seq(PendingReplica)
              /\ Len(q.pending) = n + k
              /\ \A i \in 1 .. n + k :
                    q.pending[i] = IF i <= n THEN p.pending[i] ELSE new[i - n]
            <4>0. p.pending \in Seq(PendingReplica) /\ new \in Seq(PendingReplica)
                BY <1>1, <2>3
            <4>1. /\ p.pending \o new \in Seq(PendingReplica)
                  /\ Len(p.pending \o new) = Len(p.pending) + Len(new)
                  /\ \A i \in 1 .. Len(p.pending) + Len(new) :
                        (p.pending \o new)[i] =
                            IF i <= Len(p.pending) THEN p.pending[i]
                            ELSE new[i - Len(p.pending)]
                BY <4>0, ConcatProperties, Zenon
            <4> QED BY <2>3, <3>1, <4>1
        <3> QED BY <3>2, LenProperties
    <2>6. q \in PoolType
        BY <1>1, <2>1, <2>4, <2>5, ReplicaConfig DEF PoolType
    <2>7. Committed(q) = Committed(p) + k
        BY <1>1, <1>2, <2>4, <2>5, ReplicaConfig DEF Committed
    <2>8. \A i \in 1 .. n + k :
            \/ i <= n /\ q.pending[i] = p.pending[i]
            \/ i > n /\ \E m \in Multipliers : q.pending[i] = Requested(m)
        <3> SUFFICES ASSUME NEW i \in 1 .. n + k
                     PROVE  \/ i <= n /\ q.pending[i] = p.pending[i]
                            \/ /\ i > n
                               /\ \E m \in Multipliers : q.pending[i] = Requested(m)
            OBVIOUS
        <3>0. n \in Nat /\ k \in Nat /\ i \in Nat
            BY <1>1, <1>2
        <3>1. q.pending[i] = IF i <= n THEN p.pending[i] ELSE new[i - n]
            BY <2>5
        <3>2. CASE i <= n
            BY <3>1, <3>2
        <3>3. CASE i > n
            <4>1. i - n \in 1 .. k /\ ~(i <= n)
                BY <3>0, <3>3
            <4>2. q.pending[i] = new[i - n]
                BY <3>1, <4>1
            <4> QED BY <2>3, <3>3, <4>1, <4>2
        <3> QED BY <3>0, <3>2, <3>3
    <2>9. OldestFirst(q)
        <3> SUFFICES ASSUME NEW i \in 1 .. n + k, NEW j \in 1 .. n + k, i < j
                     PROVE  q.pending[i].nominal <= q.pending[j].nominal
            BY <2>5 DEF OldestFirst
        <3>1. CASE j <= n
            <4>1. i \in 1 .. n /\ j \in 1 .. n
                BY <1>1, <1>2, <3>1
            <4>2. q.pending[i] = p.pending[i] /\ q.pending[j] = p.pending[j]
                BY <1>1, <1>2, <2>5, <4>1
            <4> QED BY <1>1, <4>1, <4>2 DEF OldestFirst
        <3>2. CASE j > n
            <4>0. ~ (j <= n)
                BY <1>1, <1>2, <3>2
            <4>1. q.pending[j].nominal = NominalDelay
                <5>1. PICK m \in Multipliers : q.pending[j] = Requested(m)
                    BY <2>8, <4>0
                <5> QED BY <5>1 DEF Requested
            <4>2. q.pending[i] \in PendingReplica
                BY <2>5
            <4>3. q.pending[i].nominal <= NominalDelay
                BY <4>2, TimingConfig DEF PendingReplica, NominalDelay
            <4> QED BY <4>1, <4>3
        <3> QED BY <1>1, <1>2, <3>1, <3>2
    <2>10. ClocksAgree(q)
        <3> SUFFICES ASSUME NEW i \in 1 .. n + k
                     PROVE  RealizedDelay(q.pending[i].multiplier)
                                - q.pending[i].remaining
                            = NominalDelay - q.pending[i].nominal
            BY <2>5 DEF ClocksAgree
        <3>1. CASE i <= n
            BY <1>1, <1>2, <2>8, <3>1 DEF ClocksAgree
        <3>2. CASE i > n
            <4>1. PICK m \in Multipliers : q.pending[i] = Requested(m)
                BY <1>1, <2>8, <3>2
            <4>2. RealizedDelay(m) \in Int /\ NominalDelay \in Int
                BY TimingConfig DEF RealizedDelay, NominalDelay
            <4> QED BY <4>1, <4>2 DEF Requested
        <3> QED BY <1>1, <1>2, <3>1, <3>2
    <2>11. q.active >= MinReplicas
        BY <1>1, <2>4, ReplicaConfig
    <2>12. PoolInv(q)
        BY <1>2, <2>6, <2>7, <2>9, <2>10, <2>11 DEF PoolInv
    <2> QED BY <2>7, <2>12 DEF k, q
<1> QED BY <1>3, <1>4

\* A reduction is clamped at the minimum, and reaches a serving replica only
\* when every pending one is cancelled.
LEMMA RemovedRange ==
    ASSUME NEW p, PoolInv(p), NEW count \in Nat \ {0}
    PROVE  /\ Removed(p, count) \in Nat
           /\ Cancelled(p, count) \in 0 .. Len(p.pending)
           /\ Cancelled(p, count) <= Removed(p, count)
           /\ Committed(p) - Removed(p, count) \in MinReplicas .. MaxReplicas
           /\ Cancelled(p, count) # Removed(p, count) =>
                Cancelled(p, count) = Len(p.pending)
<1>1. Committed(p) \in MinReplicas .. MaxReplicas /\ Len(p.pending) \in Nat
    BY PoolInvFacts
<1>2. /\ Removed(p, count) \in Nat
      /\ Committed(p) - Removed(p, count) \in MinReplicas .. MaxReplicas
    BY <1>1, ReplicaConfig DEF Removed, Smaller
<1> QED BY <1>1, <1>2 DEF Cancelled, Smaller

\* A reduction preserves the invariant and removes exactly the clamped count.
LEMMA ScaledDownInv ==
    ASSUME NEW p, PoolInv(p), NEW count \in Nat \ {0}
    PROVE  /\ PoolInv(ScaledDown(p, count))
           /\ Committed(ScaledDown(p, count)) = Committed(p) - Removed(p, count)
           /\ Len(ScaledDown(p, count).pending)
                = Len(p.pending) - Cancelled(p, count)
<1> DEFINE q == ScaledDown(p, count)
           n == Len(p.pending)
           c == Cancelled(p, count)
           r == Removed(p, count)
<1>1. /\ p = [active |-> p.active, pending |-> p.pending,
              terminating |-> p.terminating, started |-> p.started]
      /\ p.active \in MinReplicas .. MaxReplicas
      /\ p.terminating \in Nat
      /\ p.started \in Seq(Multipliers)
      /\ n \in Nat
      /\ DOMAIN p.pending = 1 .. n
      /\ \A i \in 1 .. n : p.pending[i] \in PendingReplica
      /\ Committed(p) = p.active + n
      /\ OldestFirst(p)
      /\ ClocksAgree(p)
    BY PoolInvFacts
<1>2. /\ r \in Nat /\ c \in 0 .. n /\ c <= r
      /\ Committed(p) - r \in MinReplicas .. MaxReplicas
      /\ c # r => c = n
    BY RemovedRange
<1>3. q = [active |-> p.active - (r - c),
           pending |-> SubSeq(p.pending, 1, n - c),
           terminating |-> p.terminating + (r - c), started |-> p.started]
    BY DEF ScaledDown
<1> HIDE DEF q, r, c
<1>4. /\ q.pending \in Seq(PendingReplica)
      /\ Len(q.pending) = n - c
      /\ DOMAIN q.pending = 1 .. n - c
      /\ \A i \in 1 .. n - c : i \in 1 .. n /\ q.pending[i] = p.pending[i]
    <2>1. \A i \in 1 .. n - c : i \in 1 .. n /\ p.pending[i] \in PendingReplica
        BY <1>1, <1>2
    <2>2. q.pending = SubSeq(p.pending, 1, n - c)
        BY <1>3
    <2>3. n - c \in Nat
        BY <1>1, <1>2
    <2>4. /\ q.pending \in Seq(PendingReplica)
          /\ Len(q.pending) = n - c
          /\ \A i \in 1 .. n - c : q.pending[i] = p.pending[i]
        BY <2>1, <2>2, <2>3, SubSeqProperties
    <2> QED BY <2>1, <2>4, LenProperties
<1>5. p.active - (r - c) \in MinReplicas .. MaxReplicas
    BY <1>1, <1>2, ReplicaConfig
<1>6. q \in PoolType
    <2>1. p.active - (r - c) \in 0 .. MaxReplicas
        BY <1>5, ReplicaConfig
    <2>2. p.terminating + (r - c) \in Nat
        BY <1>1, <1>2
    <2>3. SubSeq(p.pending, 1, n - c) \in Seq(PendingReplica)
        BY <1>3, <1>4
    <2> QED BY <1>1, <1>3, <2>1, <2>2, <2>3 DEF PoolType
<1>7. Committed(q) = Committed(p) - r
    <2>1. q.active = p.active - (r - c) /\ Len(q.pending) = n - c
        BY <1>3, <1>4
    <2>2. r \in Int /\ c \in Int /\ n \in Int /\ p.active \in Int
        BY <1>1, <1>2, ReplicaConfig
    <2> QED BY <1>1, <2>1, <2>2 DEF Committed
<1>8. OldestFirst(q)
    <2> SUFFICES ASSUME NEW i \in 1 .. n - c, NEW j \in 1 .. n - c, i < j
                 PROVE  q.pending[i].nominal <= q.pending[j].nominal
        BY <1>4 DEF OldestFirst
    <2> QED BY <1>1, <1>4 DEF OldestFirst
<1>9. ClocksAgree(q)
    BY <1>1, <1>4 DEF ClocksAgree
<1>10. q.active >= MinReplicas
    BY <1>3, <1>5, ReplicaConfig
<1>11. PoolInv(q)
    BY <1>2, <1>6, <1>7, <1>8, <1>9, <1>10 DEF PoolInv
<1> QED BY <1>4, <1>7, <1>11 DEF q, r, c

\* A pending replica that has not run out of startup time stays well formed.
LEMMA AgedType ==
    ASSUME NEW r \in PendingReplica, NEW e \in Nat \ {0}, r.remaining - e > 0,
           RealizedDelay(r.multiplier) - r.remaining = NominalDelay - r.nominal
    PROVE  /\ Aged(r, e) \in PendingReplica
           /\ Aged(r, e).nominal = r.nominal - e
           /\ RealizedDelay(Aged(r, e).multiplier) - Aged(r, e).remaining
                = NominalDelay - Aged(r, e).nominal
<1>1. /\ Aged(r, e) = [remaining |-> r.remaining - e, nominal |-> r.nominal - e,
                       multiplier |-> r.multiplier]
      /\ r.multiplier \in Multipliers
      /\ r.remaining \in 1 .. RealizedDelay(3)
      /\ r.nominal \in -StartupDelay .. NominalDelay
    BY DEF Aged, PendingReplica
<1>2. \/ r.multiplier = 1 \/ r.multiplier = 2 \/ r.multiplier = 3
    BY <1>1, TimingConfig
<1>3. RealizedDelay(3) \in Int /\ NominalDelay \in Int
    BY TimingConfig DEF RealizedDelay, NominalDelay
<1>4. r.remaining - e \in 1 .. RealizedDelay(3)
    BY <1>1, <1>3
<1>5. r.nominal - e \in -StartupDelay .. NominalDelay
    BY <1>1, <1>2, TimingConfig DEF RealizedDelay, NominalDelay
<1>6. RealizedDelay(r.multiplier) \in Int
    BY <1>2, TimingConfig DEF RealizedDelay
<1>7. RealizedDelay(r.multiplier) - (r.remaining - e)
        = NominalDelay - (r.nominal - e)
    BY <1>1, <1>3, <1>6
<1>8. Aged(r, e) \in PendingReplica
    BY <1>1, <1>4, <1>5 DEF PendingReplica
<1> QED BY <1>1, <1>7, <1>8

\* Passing time preserves the invariant and the committed capacity: it only
\* turns pending replicas into serving ones.
LEMMA AdvancedInv ==
    ASSUME NEW p, PoolInv(p), NEW e \in Nat \ {0}
    PROVE  /\ PoolInv(Advanced(p, e))
           /\ Committed(Advanced(p, e)) = Committed(p)
           /\ \E ready \in 0 .. Len(p.pending) :
                /\ Advanced(p, e).active = p.active + ready
                /\ Len(Advanced(p, e).pending) = Len(p.pending) - ready
<1> DEFINE q == Advanced(p, e)
           n == Len(p.pending)
           still == StillStarting(p, e)
           aged == [i \in DOMAIN p.pending |-> Aged(p.pending[i], e)]
           m == Cardinality(still)
<1>1. /\ p = [active |-> p.active, pending |-> p.pending,
              terminating |-> p.terminating, started |-> p.started]
      /\ p.active \in MinReplicas .. MaxReplicas
      /\ p.started \in Seq(Multipliers)
      /\ n \in Nat
      /\ DOMAIN p.pending = 1 .. n
      /\ \A i \in 1 .. n : p.pending[i] \in PendingReplica
      /\ p.active + n \in MinReplicas .. MaxReplicas
      /\ Committed(p) = p.active + n
      /\ OldestFirst(p)
      /\ ClocksAgree(p)
    BY PoolInvFacts
<1>2. still \in SUBSET (1 .. n)
    BY <1>1 DEF StillStarting
<1>3. q = [active |-> p.active + n - m, pending |-> AtIndices(aged, still),
           terminating |-> 0, started |-> p.started]
    BY DEF Advanced
<1>4. \A i \in still :
        /\ aged[i] \in PendingReplica
        /\ aged[i].nominal = p.pending[i].nominal - e
        /\ RealizedDelay(aged[i].multiplier) - aged[i].remaining
            = NominalDelay - aged[i].nominal
    <2> SUFFICES ASSUME NEW i \in still
                 PROVE  /\ aged[i] \in PendingReplica
                        /\ aged[i].nominal = p.pending[i].nominal - e
                        /\ RealizedDelay(aged[i].multiplier) - aged[i].remaining
                            = NominalDelay - aged[i].nominal
        OBVIOUS
    <2>1. i \in 1 .. n /\ p.pending[i].remaining - e > 0
        BY <1>1 DEF StillStarting
    <2>2. p.pending[i] \in PendingReplica
        BY <1>1, <2>1
    <2>3. RealizedDelay(p.pending[i].multiplier) - p.pending[i].remaining
            = NominalDelay - p.pending[i].nominal
        BY <1>1, <2>1 DEF ClocksAgree
    <2>4. aged[i] = Aged(p.pending[i], e)
        BY <1>1, <2>1
    <2> QED BY <2>1, <2>2, <2>3, <2>4, AgedType
<1> HIDE DEF still, aged, q
<1>5. /\ AtIndices(aged, still) \in Seq(PendingReplica)
      /\ Len(AtIndices(aged, still)) = m
      /\ m \in 0 .. n
    BY <1>1, <1>2, <1>4, AtIndicesType
<1>6. /\ \A k \in 1 .. m : Nth(still, k) \in still
      /\ \A k, l \in 1 .. m : k < l => Nth(still, k) < Nth(still, l)
    BY <1>1, <1>2, NthIsOrdered
<1>7. /\ DOMAIN q.pending = 1 .. m
      /\ \A k \in 1 .. m : q.pending[k] = aged[Nth(still, k)]
    BY <1>3 DEF AtIndices
<1> HIDE DEF m
<1>8. q \in PoolType
    BY <1>1, <1>3, <1>5, ReplicaConfig DEF PoolType
<1>9. Committed(q) = Committed(p) /\ Len(q.pending) = m
    BY <1>1, <1>3, <1>5, ReplicaConfig DEF Committed
<1>10. OldestFirst(q)
    <2> SUFFICES ASSUME NEW k \in 1 .. m, NEW l \in 1 .. m, k < l
                 PROVE  q.pending[k].nominal <= q.pending[l].nominal
        BY <1>7 DEF OldestFirst
    <2> DEFINE i == Nth(still, k)
               j == Nth(still, l)
    <2>1. i \in still /\ j \in still /\ i < j
        BY <1>6
    <2>2. /\ i \in 1 .. n /\ j \in 1 .. n
          /\ p.pending[i] \in PendingReplica /\ p.pending[j] \in PendingReplica
        BY <1>1, <1>2, <2>1
    <2>3. p.pending[i].nominal <= p.pending[j].nominal
        BY <1>1, <2>1, <2>2 DEF OldestFirst
    <2>4. p.pending[i].nominal \in Int /\ p.pending[j].nominal \in Int
        BY <2>2, PendingNominalInt
    <2>5. /\ q.pending[k].nominal = p.pending[i].nominal - e
          /\ q.pending[l].nominal = p.pending[j].nominal - e
        BY <1>4, <1>7, <2>1
    <2> HIDE DEF i, j
    <2> QED BY <2>3, <2>4, <2>5
<1>11. ClocksAgree(q)
    BY <1>4, <1>6, <1>7 DEF ClocksAgree
<1>12. q.active >= MinReplicas
    BY <1>1, <1>3, <1>5, ReplicaConfig
<1>13. Committed(q) \in MinReplicas .. MaxReplicas
    BY <1>1, <1>9
<1>14. PoolInv(q)
    BY <1>8, <1>10, <1>11, <1>12, <1>13 DEF PoolInv
<1>15. \E ready \in 0 .. n :
            q.active = p.active + ready /\ Len(q.pending) = n - ready
    <2>1. n - m \in 0 .. n /\ m = n - (n - m)
        BY <1>1, <1>5
    <2>2. q.active = p.active + (n - m)
        BY <1>1, <1>3, <1>5, ReplicaConfig
    <2> QED BY <1>9, <2>1, <2>2
<1> QED BY <1>9, <1>14, <1>15 DEF q

-----------------------------------------------------------------------------
(* Replicas become ready in the order they were requested when every       *)
(* startup is nominal.                                                     *)
\* The positions of a list of n without its first m.
Rest(n, m) == (m + 1) .. n

LEMMA SuffixKept ==
    ASSUME NEW n \in Nat, NEW m \in 0 .. n, NEW s
    PROVE  /\ Cardinality(Rest(n, m)) = n - m
           /\ DOMAIN AtIndices(s, Rest(n, m)) = 1 .. n - m
           /\ \A k \in 1 .. n - m : AtIndices(s, Rest(n, m))[k] = s[m + k]
<1> DEFINE J == Rest(n, m)
<1> USE DEF Rest
<1>1. \A i \in J : Cardinality(Upto(J, i)) = i - m
    <2> SUFFICES ASSUME NEW i \in J PROVE Cardinality(Upto(J, i)) = i - m
        OBVIOUS
    <2>0. i \in (m + 1) .. n
        OBVIOUS
    <2>1. Upto(J, i) = (m + 1) .. i
        BY <2>0 DEF Upto
    <2>2. m + 1 \in Int /\ i \in Int /\ m + 1 <= i
        BY <2>0
    <2>3. Cardinality((m + 1) .. i) = i - (m + 1) + 1
        BY <2>2, FS_Interval
    <2> QED BY <2>1, <2>2, <2>3
<1>2. Cardinality(J) = n - m
    <2>1. m + 1 \in Int /\ n \in Int
        OBVIOUS
    <2>2. Cardinality((m + 1) .. n) = IF m + 1 > n THEN 0 ELSE n - (m + 1) + 1
        BY <2>1, FS_Interval
    <2> QED BY <2>1, <2>2
<1>3. \A k \in 1 .. n - m : Nth(J, k) = m + k
    <2> SUFFICES ASSUME NEW k \in 1 .. n - m PROVE Nth(J, k) = m + k
        OBVIOUS
    <2>1. m + k \in J /\ Cardinality(Upto(J, m + k)) = k
        BY <1>1
    <2>2. \A i \in J : Cardinality(Upto(J, i)) = k => i = m + k
        BY <1>1
    <2> QED BY <2>1, <2>2 DEF Nth
<1>4. /\ DOMAIN AtIndices(s, J) = 1 .. n - m
      /\ \A k \in 1 .. n - m : AtIndices(s, J)[k] = s[m + k]
    BY <1>2, <1>3 DEF AtIndices
<1> QED BY <1>2, <1>4

\* A set of positions that contains every later one is such a rest.
LEMMA UpwardClosed ==
    ASSUME NEW n \in Nat, NEW J \in SUBSET (1 .. n),
           \A i \in J : \A j \in 1 .. n : i < j => j \in J
    PROVE  \E m \in 0 .. n : J = Rest(n, m)
<1> USE DEF Rest
<1>1. CASE J = {}
    <2>1. J = (n + 1) .. n
        BY <1>1
    <2> QED BY <2>1
<1>2. CASE J # {}
    <2>1. IsFiniteSet(J) /\ Cardinality(J) \in 0 .. n
        BY NthIsOrdered
    <2>2. Cardinality(J) # 0
        BY <1>2, <2>1, FS_EmptySet
    <2>3. 1 \in 1 .. Cardinality(J)
        BY <2>1, <2>2
    <2>4. PICK first : first = Nth(J, 1)
        OBVIOUS
    <2>5. first \in J /\ Cardinality(Upto(J, first)) = 1
        BY <2>3, <2>4, NthIsOrdered
    <2>6. first \in 1 .. n
        BY <2>5
    <2>7. \A j \in J : first <= j
        <3> SUFFICES ASSUME NEW j \in J, j < first PROVE FALSE
            BY <2>6
        <3>1. IsFiniteSet(Upto(J, first)) /\ IsFiniteSet(Upto(J, j))
            BY <2>1, FS_Subset DEF Upto
        <3>2. Upto(J, j) \subseteq Upto(J, first)
            <4> SUFFICES ASSUME NEW x \in Upto(J, j) PROVE x \in Upto(J, first)
                OBVIOUS
            <4>1. x \in 1 .. n
                BY DEF Upto
            <4> QED BY <2>6, <4>1 DEF Upto
        <3>3. first \in Upto(J, first) /\ first \notin Upto(J, j) /\ j \in Upto(J, j)
            BY <2>5, <2>6 DEF Upto
        <3>4. /\ Cardinality(Upto(J, j)) <= Cardinality(Upto(J, first))
              /\ Cardinality(Upto(J, j)) # Cardinality(Upto(J, first))
            BY <3>1, <3>2, <3>3, FS_Subset
        <3>5. Cardinality(Upto(J, j)) \in Nat /\ Cardinality(Upto(J, j)) # 0
            BY <3>1, <3>3, FS_EmptySet, FS_CardinalityType
        <3> QED BY <2>5, <3>4, <3>5
    <2>8. J = first .. n
        <3>1. \A j \in J : j \in first .. n
            BY <2>6, <2>7
        <3>2. \A j \in first .. n : j \in J
            BY <2>5, <2>6
        <3> QED BY <3>1, <3>2
    <2>9. first - 1 \in 0 .. n /\ (first - 1) + 1 = first
        BY <2>6
    <2> QED BY <2>8, <2>9
<1> QED BY <1>1, <1>2

AllNominal(p) == \A i \in DOMAIN p.pending : p.pending[i].multiplier = 2

\* So time makes the oldest pending replicas ready, and only those.
LEMMA AdvancedInOrder ==
    ASSUME NEW p, PoolInv(p), NEW e \in Nat \ {0}, AllNominal(p)
    PROVE  \E ready \in 0 .. Len(p.pending) :
            /\ Advanced(p, e).active = p.active + ready
            /\ Len(Advanced(p, e).pending) = Len(p.pending) - ready
            /\ \A i \in 1 .. ready : p.pending[i].remaining <= e
            /\ \A i \in 1 .. Len(p.pending) - ready :
                /\ p.pending[ready + i].remaining > e
                /\ Advanced(p, e).pending[i] = Aged(p.pending[ready + i], e)
<1> DEFINE n == Len(p.pending)
           still == StillStarting(p, e)
           aged == [i \in DOMAIN p.pending |-> Aged(p.pending[i], e)]
<1>1. /\ n \in Nat /\ DOMAIN p.pending = 1 .. n
      /\ \A i \in 1 .. n : p.pending[i] \in PendingReplica
      /\ p.active \in MinReplicas .. MaxReplicas /\ p.active \in Nat
      /\ OldestFirst(p) /\ ClocksAgree(p)
      /\ \A i \in 1 .. n : p.pending[i].multiplier = 2
    BY PoolInvFacts, ReplicaConfig DEF AllNominal
<1>2. \A i \in 1 .. n :
        /\ p.pending[i].remaining \in Int
        /\ p.pending[i].remaining = p.pending[i].nominal
    <2> SUFFICES ASSUME NEW i \in 1 .. n
                 PROVE  /\ p.pending[i].remaining \in Int
                        /\ p.pending[i].remaining = p.pending[i].nominal
        OBVIOUS
    <2>1. /\ p.pending[i].remaining \in Int /\ p.pending[i].nominal \in Int
          /\ p.pending[i].multiplier = 2
        BY <1>1, TimingConfig, PendingNominalInt DEF PendingReplica, RealizedDelay
    <2>2. RealizedDelay(p.pending[i].multiplier) - p.pending[i].remaining
            = NominalDelay - p.pending[i].nominal
        BY <1>1 DEF ClocksAgree
    <2> QED BY <2>1, <2>2, TimingConfig DEF RealizedDelay, NominalDelay
<1>3. \A i, j \in 1 .. n : i < j => p.pending[i].remaining <= p.pending[j].remaining
    BY <1>1, <1>2 DEF OldestFirst
<1>4. still = {i \in 1 .. n : p.pending[i].remaining - e > 0}
    BY <1>1 DEF StillStarting
<1>5. \A i \in still : \A j \in 1 .. n : i < j => j \in still
    BY <1>2, <1>3, <1>4
<1>6. PICK ready \in 0 .. n : still = Rest(n, ready)
    BY <1>1, <1>4, <1>5, UpwardClosed
<1> HIDE DEF n, still, aged
<1>7. /\ Cardinality(still) = n - ready
      /\ DOMAIN AtIndices(aged, still) = 1 .. n - ready
      /\ \A i \in 1 .. n - ready : AtIndices(aged, still)[i] = aged[ready + i]
    BY <1>1, <1>6, SuffixKept
<1>8. /\ Advanced(p, e).active = p.active + n - Cardinality(still)
      /\ Advanced(p, e).pending = AtIndices(aged, still)
    BY DEF Advanced, n, still, aged
<1>9. Advanced(p, e).active = p.active + ready
    BY <1>1, <1>6, <1>7, <1>8
<1>10. Len(Advanced(p, e).pending) = n - ready
    <2>1. PICK q : q = Advanced(p, e)
        OBVIOUS
    <2>2. PICK r \in 0 .. n : q.active = p.active + r /\ Len(q.pending) = n - r
        BY <2>1, AdvancedInv DEF n
    <2>3. r = ready
        BY <1>1, <1>6, <1>9, <2>1, <2>2
    <2> QED BY <2>1, <2>2, <2>3
<1>11. \A i \in 1 .. ready : i \notin still /\ i \in 1 .. n
    BY <1>1, <1>6 DEF Rest
<1>12. \A i \in 1 .. n - ready : ready + i \in still /\ ready + i \in 1 .. n
    BY <1>1, <1>6 DEF Rest
<1>13. \A i \in 1 .. ready : p.pending[i].remaining <= e
    BY <1>2, <1>4, <1>11
<1>14. \A i \in 1 .. n - ready : p.pending[ready + i].remaining > e
    <2> SUFFICES ASSUME NEW i \in 1 .. n - ready PROVE p.pending[ready + i].remaining > e
        OBVIOUS
    <2>1. PICK j \in 1 .. n : j = ready + i /\ j \in still
        BY <1>12
    <2>2. p.pending[j].remaining - e > 0 /\ p.pending[j].remaining \in Int
        BY <1>2, <1>4, <2>1
    <2> QED BY <2>1, <2>2
<1>15. \A i \in 1 .. n - ready : Advanced(p, e).pending[i] = Aged(p.pending[ready + i], e)
    <2> SUFFICES ASSUME NEW i \in 1 .. n - ready
                 PROVE  Advanced(p, e).pending[i] = Aged(p.pending[ready + i], e)
        OBVIOUS
    <2>1. aged[ready + i] = Aged(p.pending[ready + i], e)
        BY <1>1, <1>12 DEF aged
    <2> QED BY <1>7, <1>8, <2>1
<1> QED BY <1>6, <1>9, <1>10, <1>13, <1>14, <1>15 DEF n

\* Immediate startup leaves nothing pending.
LEMMA NothingPending ==
    ASSUME NEW p, PoolInv(p), StartupDelay = 0
    PROVE  Len(p.pending) = 0
<1>1. /\ p.pending \in Seq(PendingReplica) /\ Len(p.pending) \in Nat
      /\ \A i \in 1 .. Len(p.pending) : p.pending[i] \in PendingReplica
    BY PoolInvFacts
<1>2. PendingReplica = {}
    BY DEF PendingReplica, RealizedDelay
<1> QED BY <1>1, <1>2

\* What a list that is joined of two holds where.
LEMMA JoinedAt ==
    ASSUME NEW S, NEW s \in Seq(S), NEW t \in Seq(S)
    PROVE  /\ Len(s \o t) = Len(s) + Len(t)
           /\ \A i \in 1 .. Len(s) + Len(t) :
                (s \o t)[i] = IF i <= Len(s) THEN s[i] ELSE t[i - Len(s)]
    OBVIOUS
=============================================================================
