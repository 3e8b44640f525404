--------------------------- MODULE StartupPipeline --------------------------
(***************************************************************************)
(* What a controller may rely on when startup is fixed: a shift register.  *)
(* due[b] replicas become ready at the b-th control interval from now; a   *)
(* new request enters at the far end, a cancellation empties the register  *)
(* from the far end, and each interval shifts it by one place.             *)
(***************************************************************************)
EXTENDS Sums

CONSTANTS Lower, Upper, Initial, Length

VARIABLES
    serving,    \* replicas that serve traffic
    due         \* the register, [1 .. Length -> Nat]

vars == <<serving, due>>

Least(a, b) == IF a <= b THEN a ELSE b
Most(a, b)  == IF a >= b THEN a ELSE b

\* How many of them are ready in b intervals, and how many ever.
DueWithin(b) == RunningSums(due)[b]
starting == DueWithin(Length)

Init == serving = Initial /\ due = [b \in 1 .. Length |-> 0]

Order(n) ==
    LET added == Least(n, Upper - serving - starting)
    IN  IF Length = 0
        THEN serving' = serving + added /\ UNCHANGED due
        ELSE due' = [due EXCEPT ![Length] = @ + added] /\ UNCHANGED serving

Release(n) ==
    LET removed == Least(n, serving + starting - Lower)
        taken(b) == Least(due[b], Most(0, removed - (starting - DueWithin(b))))
    IN  /\ due' = [b \in 1 .. Length |-> due[b] - taken(b)]
        /\ serving' = serving - Most(0, removed - starting)

Shift ==
    /\ Length > 0
    /\ serving' = serving + due[1]
    /\ due' = [b \in 1 .. Length |-> IF b = Length THEN 0 ELSE due[b + 1]]

Restart == serving' = Initial /\ due' = [b \in 1 .. Length |-> 0]

Next ==
    \/ \E n \in 1 .. Upper : Order(n) \/ Release(n)
    \/ Shift
    \/ Restart

Spec == Init /\ [][Next]_vars
=============================================================================
