--------------------------- MODULE ModelSelection ---------------------------
(***************************************************************************)
(* selection-v2-cost-under-sla (model_selection): within one family, the   *)
(* cheapest candidate that is nowhere worse than the reference controller; *)
(* nothing at all when none is. Pure operators: a candidate carries an     *)
(* index and its metrics per workload, a rule its workloads and the        *)
(* reference's SLA violations on each. Means over the same workloads       *)
(* compare as sums do, so sums stand for them.                             *)
(***************************************************************************)
EXTENDS Integers, FiniteSets, FiniteSetsExt

\* SelectionSpec: thresholds for exactly the declared workloads, all validation.
RuleWellFormed(rule, split) ==
    /\ rule.workloads # {}
    /\ DOMAIN rule.threshold = rule.workloads
    /\ \A w \in rule.workloads : split[w] = "validation"

\* Served well enough on every workload by itself.
Feasible(rule, c) ==
    \A w \in rule.workloads : c.metrics[w].sla <= rule.threshold[w]

Total(rule, c, metric) ==
    MapThenSumSet(LAMBDA w : c.metrics[w][metric], rule.workloads)

\* Cost, then queue pressure, churn, SLA violations, and the candidate's own order.
Objective(rule, c) ==
    <<Total(rule, c, "cost"), Total(rule, c, "pressure"), Total(rule, c, "churn"),
      Total(rule, c, "sla"), c.index>>

\* The order of the fallback that is only reported.
Closeness(rule, c) ==
    <<Total(rule, c, "sla"), Total(rule, c, "cost"), Total(rule, c, "pressure"),
      Total(rule, c, "churn"), c.index>>

Before(a, b) ==
    \E i \in DOMAIN a : a[i] < b[i] /\ \A j \in 1 .. i - 1 : a[j] = b[j]

Nothing == [index |-> -1]

\* The evidence must cover exactly the rule's workloads.
Selectable(rule, candidates) ==
    /\ candidates # {}
    /\ \A c \in candidates : DOMAIN c.metrics = rule.workloads

Select(rule, candidates) ==
    LET feasible == {c \in candidates : Feasible(rule, c)}
    IN  [feasible |-> {c.index : c \in feasible},
         succeeded |-> feasible # {},
         selected |->
            IF feasible = {} THEN Nothing.index
            ELSE (CHOOSE c \in feasible : \A d \in feasible \ {c} :
                    Before(Objective(rule, c), Objective(rule, d))).index,
         fallback |->
            IF feasible # {} THEN Nothing.index
            ELSE (CHOOSE c \in candidates : \A d \in candidates \ {c} :
                    Before(Closeness(rule, c), Closeness(rule, d))).index]

\* SelectionResult: a selected candidate is a feasible one, and excludes a fallback.
ResultWellFormed(result) ==
    IF result.succeeded
    THEN result.selected \in result.feasible /\ result.fallback = Nothing.index
    ELSE result.selected = Nothing.index
=============================================================================
