--------------------------- MODULE ActionSemantics --------------------------
(***************************************************************************)
(* The action-contract experiment (action_semantics). Learned families are *)
(* an algorithm under a contract. One command per family screens every     *)
(* candidate, in parallel with the others; one selects within each family; *)
(* one per family retrains what was selected with every seed; one          *)
(* evaluates rules and models; one decides, and freezes what it decided.   *)
(* Each phase reads the files of the one before it.                        *)
(***************************************************************************)
EXTENDS CaseRuns, ModelSelection

CONSTANTS
    Families,           \* sequence of [algorithm, semantics]
    Candidates,         \* the frozen candidates of each algorithm
    RetrainingSeeds,
    ActionRules,        \* rule controllers, evaluated under both contracts
    SelectionRule,      \* the frozen selection rule
    Learnt(_, _)        \* metrics per workload of a trained policy on a version

Screening == "screening"
Retraining == "retraining"
ScreeningSeed == 0
ActionWorkloads == SetToSeq(SelectionRule.workloads)
Semantics == {family.semantics : family \in ToSet(Families)}
Preferred == "desired-replicas-v1"
NoModel == [version |-> 0]

-----------------------------------------------------------------------------
(* The frozen plan.                                                        *)
\* No test workload, fixed budgets, seeds and families, nominal conditions.
ActionPlan(definition) ==
    [id |-> definition, families |-> Families, candidates |-> Candidates,
     seeds |-> RetrainingSeeds, workloads |-> ActionWorkloads, heldOut |-> {}]
PlanAllowed(plan) ==
    /\ plan.heldOut = {}
    /\ \A w \in ToSet(plan.workloads) : SplitOf[w] # "test"
    /\ plan.workloads = ActionWorkloads
    /\ plan.families = Families /\ plan.seeds = RetrainingSeeds

\* The committed plan must be the one this code builds, with a valid selection rule.
LoadsActionPlan ==
    /\ tree.file = tree.code /\ PlanAllowed(ActionPlan(tree.file))
    /\ RuleWellFormed(SelectionRule, SplitOf)

-----------------------------------------------------------------------------
(* Evidence files.                                                         *)
EvidencePath(phase, family, key) == <<phase, family, key>>

\* Training and its validation on every workload, by the code the command loaded.
TrainedEvidence(job, family) ==
    LET candidate == IF job.phase = Screening THEN Candidates[job.at] ELSE job.candidate
        seed == IF job.phase = Screening THEN ScreeningSeed ELSE RetrainingSeeds[job.at]
        policy == [family |-> family, candidate |-> candidate, seed |-> seed,
                   version |-> job.version]
    IN  [spec |-> job.spec, phase |-> job.phase, family |-> family, seed |-> seed,
         candidate |-> candidate, semantics |-> family.semantics, policy |-> policy,
         path |-> EvidencePath(job.phase, family,
                               IF job.phase = Screening THEN candidate ELSE seed),
         metrics |-> Learnt(policy, job.version)]

EvidenceAt(path) == {e \in files.evidence : e.path = path}
OfPlan(e, spec) == e.spec = spec

TempName(family) == "experiment-spec.json.tmp"

-----------------------------------------------------------------------------
(* screen and retrain: one command per family.                             *)
ActionUnchanged == UNCHANGED <<experiment, tree, commits, inputs, changes>>

\* Bounds the model: a command is launched when it has something to train.
ToTrain(family, phase) ==
    IF phase = Screening
    THEN \E c \in ToSet(Candidates) : EvidenceAt(EvidencePath(phase, family, c)) = {}
    ELSE \E s \in ToSet(RetrainingSeeds) : EvidenceAt(EvidencePath(phase, family, s)) = {}

\* Every command begins with a copy of the plan: a temporary file, then a rename.
ActionLaunch(family, phase) ==
    /\ experiment = "action" /\ frozen = NoResult
    /\ family \notin DOMAIN jobs
    /\ LoadsActionPlan /\ ToTrain(family, phase)
    /\ jobs' = Having(jobs, family, [pc |-> "rename", phase |-> phase, spec |-> tree.file,
                                     version |-> inputs, at |-> 1, candidate |-> Nothing.index])
    /\ files' = [files EXCEPT !.temps = @ \cup {TempName(family)}]
    /\ UNCHANGED <<raw, runs, proc, frozen>> /\ ActionUnchanged

\* All commands use one temporary name: when another has renamed it, this one fails.
\* A family is retrained only after a successful selection.
ActionRenamed(family) ==
    /\ experiment = "action"
    /\ LET job == jobs[family]
           selected == /\ family \in DOMAIN files.chosen
                       /\ files.chosen[family].succeeded
       IN  /\ job.pc = "rename"
           /\ jobs' = IF TempName(family) \notin files.temps \/ (job.phase = Retraining /\ ~selected)
                      THEN Without(jobs, family)
                      ELSE [jobs EXCEPT ![family].pc = "train", ![family].candidate =
                                IF job.phase = Retraining THEN files.chosen[family].selected
                                                          ELSE @]
    /\ files' = [files EXCEPT !.temps = @ \ {TempName(family)}]
    /\ UNCHANGED <<raw, runs, proc, frozen>> /\ ActionUnchanged

\* Evidence that is there is kept, if it is of this plan; what is missing is trained
\* and saved. A command that is stopped in a training has not taken this step.
ActionTrain(family) ==
    /\ experiment = "action"
    /\ LET job == jobs[family]
           keys == IF job.phase = Screening THEN Candidates ELSE RetrainingSeeds
           found == EvidenceAt(EvidencePath(job.phase, family, keys[job.at]))
           next == IF job.at = Len(keys) THEN Without(jobs, family)
                   ELSE [jobs EXCEPT ![family].at = @ + 1]
       IN  /\ job.pc = "train"
           /\ IF found = {}
              THEN /\ files' = [files EXCEPT !.evidence = @ \cup {TrainedEvidence(job, family)}]
                   /\ jobs' = next
              ELSE /\ jobs' = IF \A e \in found : OfPlan(e, job.spec) THEN next
                             ELSE Without(jobs, family)
                   /\ UNCHANGED files
    /\ UNCHANGED <<raw, runs, proc, frozen>> /\ ActionUnchanged

-----------------------------------------------------------------------------
(* The predeclared retraining matrix.                                      *)
\* Every family with a selection, with every seed.
ExpectedModels ==
    {model \in ToSet(Families) \X ToSet(RetrainingSeeds) :
        files.chosen[model[1]].succeeded}
RetrainedModels == {e \in files.evidence : e.phase = Retraining}

\* Slip: whether a model is of the selected candidate is not asked.
MatrixExactButCandidate(spec) ==
    /\ DOMAIN files.chosen = ToSet(Families)
    /\ {<<e.family, e.seed>> : e \in RetrainedModels} = ExpectedModels
    /\ \A e \in RetrainedModels : OfPlan(e, spec)

\* load_retrained_models: nothing missing, nothing extra, nothing of another
\* candidate or plan. Each file is at its canonical path by construction.
MatrixExact(spec) ==
    /\ DOMAIN files.chosen = ToSet(Families)
    /\ \A family \in ToSet(Families) : ResultWellFormed(files.chosen[family])
    /\ {<<e.family, e.seed>> : e \in RetrainedModels} = ExpectedModels
    /\ \A e \in RetrainedModels :
        OfPlan(e, spec) /\ e.candidate = files.chosen[e.family].selected

-----------------------------------------------------------------------------
(* select, evaluate, decide: serial commands.                              *)
ActionBegin(command) ==
    /\ experiment = "action" /\ proc.pc = "idle" /\ frozen = NoResult
    /\ LoadsActionPlan /\ DOMAIN jobs = {}
    /\ proc' = [Idle EXCEPT !.pc = "rename", !.spec = tree.file, !.input = inputs,
                            !.command = command]
    /\ files' = [files EXCEPT !.temps = @ \cup {TempName(command)}]
    /\ UNCHANGED <<raw, runs, jobs, frozen>> /\ ActionUnchanged

\* Evaluation and decision start from the exact matrix; decide reports without it.
ActionBegun ==
    /\ experiment = "action" /\ proc.pc = "rename"
    /\ proc' = CASE TempName(proc.command) \notin files.temps -> Idle
                 [] proc.command = "evaluate" /\ ~MatrixExact(proc.spec) -> Idle
                 [] proc.command = "evaluate" /\ MatrixExact(proc.spec) ->
                        [proc EXCEPT !.pc = "repair", !.models = RetrainedModels]
                 [] OTHER -> [proc EXCEPT !.pc = proc.command]
    /\ files' = [files EXCEPT !.temps = @ \ {TempName(proc.command)}]
    /\ UNCHANGED <<raw, runs, jobs, frozen>> /\ ActionUnchanged

\* Screening evidence as candidates of the generic rule.
FamilyCandidates(family) ==
    {[index |-> e.candidate, metrics |-> e.metrics] :
        e \in {f \in files.evidence : f.phase = Screening /\ f.family = family}}
Screened(family) ==
    \A c \in ToSet(Candidates) : EvidenceAt(EvidencePath(Screening, family, c)) # {}

\* One family after the other: a family that is not completely screened ends the
\* command, and the selections before it stay replaced.
ActionSelect ==
    /\ experiment = "action" /\ proc.pc = "select"
    /\ IF proc.at > Len(Families) THEN Stopped /\ UNCHANGED files
       ELSE LET family == Families[proc.at]
            IN  IF /\ Screened(family)
                   /\ \A e \in files.evidence :
                        e.phase = Screening /\ e.family = family => OfPlan(e, proc.spec)
                   /\ Selectable(SelectionRule, FamilyCandidates(family))
                THEN /\ files' = [files EXCEPT !.chosen = Having(@, family,
                                    Select(SelectionRule, FamilyCandidates(family)))]
                     /\ proc' = [proc EXCEPT !.at = @ + 1]
                ELSE Stopped /\ UNCHANGED files
    /\ UNCHANGED <<raw, runs, jobs, frozen>> /\ ActionUnchanged

\* Rules under both contracts, then the models, on each workload. A case is known
\* by its variant and workload; which model it evaluates is not part of its name.
ActionCases(models) ==
    LET order(e) == CHOOSE i \in DOMAIN Families : Families[i] = e.family
        sorted == SetToSortSeq(models, LAMBDA a, b :
                    Before(<<order(a), a.seed>>, <<order(b), b.seed>>))
        rules == SetToSeq({<<[algorithm |-> r, semantics |-> s], -1>> :
                                r \in ActionRules, s \in Semantics})
    IN  FlattenSeq([w \in DOMAIN ActionWorkloads |->
            [r \in DOMAIN rules |-> [case |-> [variant |-> rules[r], where |-> ActionWorkloads[w]],
                                     model |-> NoModel]]
            \o [m \in DOMAIN sorted |->
                    [case |-> [variant |-> <<sorted[m].family, sorted[m].seed>>,
                               where |-> ActionWorkloads[w]],
                     model |-> sorted[m].policy]]])

ActionPlanned == ActionCases(proc.models)
ActionCase == ActionPlanned[proc.at]

\* A rule's metrics, or those of the model's policy.
ActionValue(planned) ==
    IF planned.model = NoModel THEN Measured([variant |-> "threshold"], proc.input)
    ELSE Learnt(planned.model, proc.input)[planned.case.where]

ActionRow(planned, i, value) ==
    [case |-> planned.case, spec |-> proc.spec, input |-> 0, run |-> i,
     model |-> planned.model, value |-> value]

ActionRepair ==
    /\ experiment = "action" /\ proc.pc = "repair"
    /\ raw' = Repaired(raw)
    /\ proc' = [proc EXCEPT !.pc = "case"]
    /\ UNCHANGED <<runs, files, jobs, frozen>> /\ ActionUnchanged

\* A case with a row is done. Otherwise a finished run tagged as the case gives the
\* row: the tag that names its model is not asked.
ActionScan ==
    /\ experiment = "action" /\ proc.pc = "case" /\ proc.at <= Len(ActionPlanned)
    /\ LET found == FinishedRuns(ActionCase.case, proc.spec, 0)
       IN  \/ /\ ActionCase.case \in CasesWithRow(proc.spec)
              /\ proc' = [proc EXCEPT !.at = @ + 1]
           \/ /\ ActionCase.case \notin CasesWithRow(proc.spec)
              /\ \E i \in found : proc' = [proc EXCEPT !.pc = "append",
                                !.row = ActionRow(ActionCase, i, runs[i].row.value)]
    /\ UNCHANGED <<raw, runs, files, jobs, frozen>> /\ ActionUnchanged

ActionOpen ==
    /\ experiment = "action" /\ proc.pc = "case" /\ proc.at <= Len(ActionPlanned)
    /\ ActionCase.case \notin CasesWithRow(proc.spec)
    /\ FinishedRuns(ActionCase.case, proc.spec, 0) = {}
    /\ runs' = Append(runs, OpenedRun(ActionCase.case, proc.spec, 0))
    /\ proc' = [proc EXCEPT !.pc = "evaluate", !.run = Len(runs) + 1]
    /\ UNCHANGED <<raw, files, jobs, frozen>> /\ ActionUnchanged

ActionTag ==
    /\ experiment = "action" /\ proc.pc = "evaluate"
    /\ runs' = Tagged(proc.run)
    /\ proc' = [proc EXCEPT !.pc = "record"]
    /\ UNCHANGED <<raw, files, jobs, frozen>> /\ ActionUnchanged

ActionFinish ==
    /\ experiment = "action" /\ proc.pc = "record"
    /\ LET row == ActionRow(ActionCase, proc.run, ActionValue(ActionCase))
       IN  /\ runs' = FinishedWith(proc.run, row)
           /\ proc' = [proc EXCEPT !.pc = "append", !.row = row]
    /\ UNCHANGED <<raw, files, jobs, frozen>> /\ ActionUnchanged

ActionAppend ==
    /\ experiment = "action" /\ proc.pc = "append"
    /\ raw' = Appended(raw, proc.row)
    /\ proc' = [proc EXCEPT !.pc = "case", !.at = @ + 1, !.run = 0, !.row = NoRow]
    /\ UNCHANGED <<runs, files, jobs, frozen>> /\ ActionUnchanged

ActionReturn ==
    /\ experiment = "action" /\ proc.pc = "case" /\ proc.at > Len(ActionPlanned)
    /\ Stopped
    /\ UNCHANGED <<raw, runs, files, jobs, frozen>> /\ ActionUnchanged

-----------------------------------------------------------------------------
(* The decision.                                                           *)
\* Slip: learned rows are not compared with the validation of their models.
RowsReproducedUnchecked(rows, models) == TRUE

\* Every learned row equals the validation of the model its variant names.
RowsReproduced(rows, models) ==
    \A e \in models, w \in SelectionRule.workloads :
        \E row \in ToSet(rows) :
            /\ row.case = [variant |-> <<e.family, e.seed>>, where |-> w]
            /\ row.value = e.metrics[w]

\* Completely screened, the exact matrix, and each case's row exactly once.
Adopted ==
    LET rows == RowsOf(proc.spec)
        cases == {planned.case : planned \in ToSet(ActionCases(RetrainedModels))}
    IN  /\ \A family \in ToSet(Families) : Screened(family)
        /\ \A family \in ToSet(Families) : family.semantics = Preferred =>
            \A e \in files.evidence : e.family = family => e.semantics = Preferred
        /\ MatrixExact(proc.spec)
        /\ {row.case : row \in ToSet(rows)} = cases /\ Len(rows) = Cardinality(cases)
        /\ RowsReproduced(rows, RetrainedModels)

\* Without a stored selection of every family the command fails.
ActionDecide ==
    /\ experiment = "action" /\ proc.pc = "decide"
    /\ IF DOMAIN files.chosen = ToSet(Families) /\ Adopted
       THEN proc' = [proc EXCEPT !.pc = "freeze"] ELSE Stopped
    /\ UNCHANGED <<raw, runs, files, jobs, frozen>> /\ ActionUnchanged

\* Means per controller, contract and workload, over training seeds.
ActionSummary(rows) ==
    [group \in {[variant |-> row.case.variant[1], where |-> row.case.where] :
                    row \in ToSet(rows)} |->
        {<<row.run, row.value>> : row \in {r \in ToSet(rows) :
            r.case.variant[1] = group.variant /\ r.case.where = group.where}}]

\* The frozen artifact is built from the files as they are read once more.
ActionFreeze ==
    /\ experiment = "action" /\ proc.pc = "freeze"
    /\ frozen' = IF MatrixExact(proc.spec)
                 THEN [experiment |-> "action", spec |-> proc.spec, semantics |-> Preferred,
                       selection |-> files.chosen, models |-> RetrainedModels,
                       rows |-> RowsOf(proc.spec), summary |-> ActionSummary(RowsOf(proc.spec))]
                 ELSE frozen
    /\ Stopped
    /\ UNCHANGED <<raw, runs, files, jobs>> /\ ActionUnchanged

ActionNextStep ==
    \/ \E family \in ToSet(Families), phase \in {Screening, Retraining} :
            ActionLaunch(family, phase)
    \/ \E family \in DOMAIN jobs :
            ActionRenamed(family) \/ ActionTrain(family)
    \/ \E command \in {"select", "evaluate", "decide"} : ActionBegin(command)
    \/ ActionBegun \/ ActionSelect \/ ActionRepair \/ ActionScan \/ ActionOpen \/ ActionTag
    \/ ActionFinish \/ ActionAppend \/ ActionReturn \/ ActionDecide \/ ActionFreeze

\* A frozen decision rests on the models it names and no others: one of each
\* selected candidate and seed, one row of a finished run per case, and on every
\* workload the row of a model has the value of that model's own validation,
\* although rows are found by their case and not by their model.
ActionFrozenWell ==
    /\ \A e \in frozen.models : e.candidate = frozen.selection[e.family].selected
    /\ \A family \in ToSet(Families) :
        {e.seed : e \in {m \in frozen.models : m.family = family}}
            = IF frozen.selection[family].succeeded THEN ToSet(RetrainingSeeds) ELSE {}
    /\ \A e \in frozen.models, w \in SelectionRule.workloads :
        LET found == {row \in ToSet(frozen.rows) :
                        row.case = [variant |-> <<e.family, e.seed>>, where |-> w]}
        IN  \E row \in found : found = {row} /\ RowBacked(row) /\ row.value = e.metrics[w]
=============================================================================
