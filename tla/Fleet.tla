-------------------------------- MODULE Fleet -------------------------------
(***************************************************************************)
(* What the replica pool promises its caller, whatever its startup times:  *)
(* the committed capacity (serving plus starting) moves only on request,   *)
(* by exactly the clamped request; a reduction cancels starting replicas   *)
(* before it takes a serving one; time only turns starting replicas into   *)
(* serving ones.                                                           *)
(***************************************************************************)
EXTENDS Integers

CONSTANTS Lower, Upper, Initial

VARIABLES
    serving,    \* replicas that serve traffic
    starting    \* replicas requested and not yet serving

vars == <<serving, starting>>

committed == serving + starting

Least(a, b) == IF a <= b THEN a ELSE b

Init == serving = Initial /\ starting = 0

\* n more replicas, at once or after a startup, never beyond Upper.
Order(n) ==
    LET added == Least(n, Upper - committed)
    IN  \/ serving' = serving + added /\ UNCHANGED starting
        \/ starting' = starting + added /\ UNCHANGED serving

\* n fewer replicas, starting ones first, never below Lower.
Release(n) ==
    LET removed == Least(n, committed - Lower)
        cancelled == Least(removed, starting)
    IN  /\ starting' = starting - cancelled
        /\ serving' = serving - (removed - cancelled)

\* Time passes: some of the starting replicas become ready.
Settle ==
    \E ready \in 0 .. starting :
        /\ serving' = serving + ready
        /\ starting' = starting - ready

Restart == serving' = Initial /\ starting' = 0

Next ==
    \/ \E n \in 1 .. Upper : Order(n) \/ Release(n)
    \/ Settle
    \/ Restart

Spec == Init /\ [][Next]_vars
=============================================================================
