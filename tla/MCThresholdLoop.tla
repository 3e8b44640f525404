-------------------------- MODULE MCThresholdLoop ---------------------------
(* Every demand pattern over a few ticks under both action contracts, for  *)
(* ThresholdLoop.                                                          *)
EXTENDS ThresholdLoop

TriPoint == {1, 2, 3}

EveryDemand ==
    {[semantics |-> a, demand |-> d, capacity |-> [i \in 1 .. EpisodeTicks |-> 2],
      startup |-> [i \in 1 .. EpisodeTicks * MaxReplicas |-> 1 + (i % 3)]] :
        a \in ACTION_SEMANTICS, d \in [1 .. EpisodeTicks -> {0, 3, 8}]}
=============================================================================
