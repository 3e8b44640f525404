--------------------------- MODULE ActionContract ---------------------------
(***************************************************************************)
(* The two versioned encodings of a scaling decision as an action code.    *)
(* Pure operators; the semantics is a parameter so that the two can be     *)
(* compared. lo and hi are the environment's replica bounds.               *)
(***************************************************************************)
EXTENDS Integers

DELTA_V1 == "delta-v1"
DESIRED_REPLICAS_V1 == "desired-replicas-v1"
ACTION_SEMANTICS == {DELTA_V1, DESIRED_REPLICAS_V1}

SCALE_DOWN == 0
HOLD == 1
SCALE_UP == 2
DELTA_EFFECTS == [code \in {SCALE_DOWN, HOLD, SCALE_UP} |-> code - 1]

Contract == [semantics : ACTION_SEMANTICS, min : Nat \ {0}, max : Nat \ {0}]

WellFormed(c) == c \in Contract /\ c.min <= c.max

ActionCount(c) == IF c.semantics = DELTA_V1 THEN 3 ELSE c.max - c.min + 1

\* The codes validate_code accepts.
Codes(c) == 0 .. ActionCount(c) - 1

Clip(c, replicas) ==
    LET raised == IF replicas < c.min THEN c.min ELSE replicas
    IN  IF raised > c.max THEN c.max ELSE raised

TargetFor(c, code, committed) ==
    IF c.semantics = DELTA_V1
    THEN Clip(c, committed + DELTA_EFFECTS[code])
    ELSE c.min + code

\* Slip: the code is the target itself.
CodeForTargetAbsolute(c, target, committed) ==
    IF c.semantics = DELTA_V1
    THEN CASE Clip(c, target) > committed -> SCALE_UP
           [] Clip(c, target) < committed -> SCALE_DOWN
           [] OTHER -> HOLD
    ELSE Clip(c, target)

CodeForTarget(c, target, committed) ==
    IF c.semantics = DELTA_V1
    THEN CASE Clip(c, target) > committed -> SCALE_UP
           [] Clip(c, target) < committed -> SCALE_DOWN
           [] OTHER -> HOLD
    ELSE Clip(c, target) - c.min

CodeForStep(c, delta, committed) ==
    IF c.semantics = DELTA_V1
    THEN delta
    ELSE CodeForTarget(c, committed + DELTA_EFFECTS[delta], committed)
=============================================================================
