--------------------------- MODULE MCReplicaPool ----------------------------
(* Small instances of ReplicaPool.                                         *)
EXTENDS ReplicaPool, Sequences, SequencesExt

TriPoint == {1, 2, 3}
Fixed == {2}

\* One control interval of 2 seconds, in half seconds.
WholeIntervals == {4}
\* Calls that cut the interval at other places.
UnevenTimes == {1, 3, 4}

\* AtIndices is the filter of the list comprehension in advance.
ASSUME FilterIsSelectSeq ==
    \A n \in 0 .. 4 : \A s \in [1 .. n -> 0 .. 2] :
        AtIndices(s, {i \in DOMAIN s : s[i] > 0})
            = SelectSeq(s, LAMBDA x : x > 0)
=============================================================================
