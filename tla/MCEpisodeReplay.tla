-------------------------- MODULE MCEpisodeReplay ---------------------------
(* Small worlds for EpisodeReplay.                                         *)
EXTENDS EpisodeReplay

TriPoint == {1, 2, 3}

Cycle(s, n) == [i \in 1 .. n |-> s[((i - 1) % Len(s)) + 1]]

\* A world that repeats demand d and startups s under an uneven capacity.
MadeOf(a, d, s) ==
    [semantics |-> a, demand |-> Cycle(d, EpisodeTicks),
     capacity |-> Cycle(<<1, 3>>, EpisodeTicks),
     startup |-> Cycle(s, EpisodeTicks * MaxReplicas)]

\* Bursts, a steady trickle and silence; startups out of order, and nominal.
SmallWorlds ==
    {MadeOf(DESIRED_REPLICAS_V1, <<4, 0, 2>>, <<1, 3, 2>>),
     MadeOf(DESIRED_REPLICAS_V1, <<1>>, <<3, 1>>),
     MadeOf(DESIRED_REPLICAS_V1, <<5, 1>>, <<2>>),
     MadeOf(DELTA_V1, <<4, 0, 2>>, <<3, 1>>)}
=============================================================================
