-------------------------------- MODULE Sums --------------------------------
(* Sums of sequences of integers.                                          *)
EXTENDS Integers, Sequences

\* The sums of the first 0, 1, ... entries.
RunningSums(s) ==
    LET sums[k \in 0 .. Len(s)] == IF k = 0 THEN 0 ELSE sums[k - 1] + s[k]
    IN  sums

Total(s) == RunningSums(s)[Len(s)]
=============================================================================
