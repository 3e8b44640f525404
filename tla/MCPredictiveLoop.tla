-------------------------- MODULE MCPredictiveLoop --------------------------
(* Ramps and bursts under both action contracts, for PredictiveLoop.       *)
EXTENDS PredictiveLoop, TLC

NominalOnly == {2}
AllPolicies == {PREDICTIVE, SEASONAL, STATIC}
TrendOnly == {PREDICTIVE}
\* A profile that ends before the episode and holds a silent tick.
MorningProfile == <<2, 0, 3, 8, 8, 2>>

WorldOf(a, d) ==
    [semantics |-> a, demand |-> d,
     capacity |-> [i \in 1 .. EpisodeTicks |-> NominalCapacity],
     startup |-> [i \in 1 .. EpisodeTicks * MaxReplicas |-> 2]]

Ramps == {[i \in 1 .. EpisodeTicks |-> Larger(0, a + b * i)] :
            a \in {2, 5, 15}, b \in {-3, -1, 0, 1, 2}}
Bursts == {[i \in 1 .. EpisodeTicks |-> p[(i % 3) + 1]] : p \in [1 .. 3 -> {0, 4, 11}]}

RampsAndBursts == {WorldOf(a, d) : a \in ACTION_SEMANTICS, d \in Ramps \cup Bursts}
OneRamp == {WorldOf(DESIRED_REPLICAS_V1, [i \in 1 .. EpisodeTicks |-> i])}

\* Median is the middle of the sorted sequence, or the mean of the middle two.
Fractions == [num : 0 .. 2, den : 1 .. 2]
ASSUME MedianIsMiddle ==
    \A n \in 1 .. 4 : \A f \in [1 .. n -> Fractions] :
        LET sorted == SortSeq(f, Less)
            twice == Plus(Median(f), Median(f))
            middle == Plus(sorted[(n + 1) \div 2], sorted[n \div 2 + 1])
        IN  ~Less(twice, middle) /\ ~Less(middle, twice)
=============================================================================
