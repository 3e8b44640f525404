---------------------------- MODULE SelectionRun ----------------------------
(***************************************************************************)
(* The selection commands (model_selection): freeze builds the rule from   *)
(* the reference controller's rows of a finished multi-seed evaluation,    *)
(* diagnose applies a frozen rule to the learned variants. Both read a     *)
(* controller manifest and a raw file that the user names separately, so   *)
(* that they may come from different evaluations or be incomplete.         *)
(* Here inputs is the version of the manifest, files.records the raw file. *)
(***************************************************************************)
EXTENDS CaseRuns, ModelSelection

CONSTANTS
    SelectionWorkloads,
    Reference,              \* the reference controller's variant
    SelectionFamilies,      \* the families to diagnose, in order
    ManifestVariants(_),    \* sequence of variants: id, controller, seed, run
    EvaluationRows(_)       \* the rows of an evaluation, in order of appending

Spec0 == <<"selection-v2">>

-----------------------------------------------------------------------------
(* Evidence.                                                               *)
\* nominal_validation_rows: one plan, nothing held out; rows under other conditions,
\* of other realizations or of other evaluation seeds are left out.
Admissible(rows) ==
    /\ \A row \in ToSet(rows) : row.split # "test"
    /\ Cardinality({row.plan : row \in ToSet(rows)}) = 1
Condition ==
    [scenario |-> "nominal", version |-> "robustness-v1", dynamics |-> 0, evaluation |-> 0,
     split |-> "validation"]
Meets(row) == \A field \in DOMAIN Condition : row[field] = Condition[field]
NominalRows(rows) == SelectSeq(rows, Meets)

VariantsNamed(manifest, id) == SelectSeq(manifest, LAMBDA v : v.id = id)

\* Slip: a row counts for every variant that has its name.
OneRowByName(rows, variant, where) ==
    Len(SelectSeq(rows, LAMBDA row : row.id = variant.id /\ row.where = where)) = 1

\* Exactly one row, and it was evaluated for the model the manifest names.
OneRow(rows, variant, where) ==
    LET found == SelectSeq(rows, LAMBDA row : row.id = variant.id /\ row.where = where)
    IN  /\ Len(found) = 1
        /\ Head(found).controller = variant.controller
        /\ Head(found).seed = variant.seed /\ Head(found).model = variant.run
VariantRow(rows, variant, where) ==
    Head(SelectSeq(rows, LAMBDA row : row.id = variant.id /\ row.where = where))

HasReference(manifest, rows) ==
    /\ Len(VariantsNamed(manifest, Reference)) = 1
    /\ \A w \in SelectionWorkloads :
        OneRow(rows, Head(VariantsNamed(manifest, Reference)), w)

\* freeze_spec_from_multiseed: the reference's exact values and their runs.
FrozenRule(manifest, rows) ==
    LET reference == Head(VariantsNamed(manifest, Reference))
    IN  [kind |-> "rule", workloads |-> SelectionWorkloads, reference |-> reference,
         threshold |-> [w \in SelectionWorkloads |->
                            VariantRow(rows, reference, w).metrics.sla],
         run |-> [w \in SelectionWorkloads |-> VariantRow(rows, reference, w).madeBy]]

\* check_spec_matches_evidence
RuleMatches(rule, manifest, rows) ==
    /\ HasReference(manifest, rows)
    /\ Head(VariantsNamed(manifest, Reference)) = rule.reference
    /\ \A w \in rule.workloads :
        LET row == VariantRow(rows, rule.reference, w)
        IN  row.madeBy = rule.run[w] /\ row.metrics.sla = rule.threshold[w]

\* multiseed_candidates: the trained seeds of a family, at least one.
OfFamily(manifest, family) == SelectSeq(manifest, LAMBDA v : v.controller = family)
HasCandidates(rule, manifest, rows, family) ==
    /\ OfFamily(manifest, family) # <<>>
    /\ \A v \in ToSet(OfFamily(manifest, family)), w \in rule.workloads : OneRow(rows, v, w)
SelectionCandidates(rule, manifest, rows, family) ==
    {[index |-> v.seed, run |-> v.run,
      metrics |-> [w \in rule.workloads |-> VariantRow(rows, v, w).metrics]] :
        v \in ToSet(OfFamily(manifest, family))}

-----------------------------------------------------------------------------
(* The commands.                                                           *)
SelectionUnchanged == UNCHANGED <<experiment, tree, commits, inputs, raw, runs, jobs>>

\* The user names the raw file of another evaluation, or one that is still growing.
SelectionEvidence(version, length) ==
    /\ experiment = "selection" /\ frozen = NoResult
    /\ IF files.records.rows = <<>> THEN UNCHANGED changes ELSE Change
    /\ files' = [files EXCEPT !.records.rows = SubSeq(EvaluationRows(version), 1, length)]
    /\ UNCHANGED <<proc, frozen>> /\ SelectionUnchanged

SelectionFreeze ==
    LET rows == NominalRows(files.records.rows)
        manifest == ManifestVariants(inputs)
    IN  /\ experiment = "selection" /\ proc.pc = "idle" /\ frozen = NoResult
        /\ Admissible(files.records.rows) /\ HasReference(manifest, rows)
        /\ RuleWellFormed(FrozenRule(manifest, rows), SplitOf)
        /\ files' = [files EXCEPT !.manifests = Having(@, Spec0, FrozenRule(manifest, rows))]
        /\ UNCHANGED <<proc, frozen, changes>> /\ SelectionUnchanged

\* Everything is read and checked before any selection.
SelectionDiagnose ==
    LET rows == NominalRows(files.records.rows)
        manifest == ManifestVariants(inputs)
        rule == files.manifests[Spec0]
    IN  /\ experiment = "selection" /\ proc.pc = "idle" /\ frozen = NoResult
        /\ Spec0 \in DOMAIN files.manifests
        /\ Admissible(files.records.rows) /\ RuleMatches(rule, manifest, rows)
        /\ \A i \in DOMAIN SelectionFamilies :
            HasCandidates(rule, manifest, rows, SelectionFamilies[i])
        /\ proc' = [Idle EXCEPT !.pc = "diagnose", !.input = inputs, !.pending =
                [i \in DOMAIN SelectionFamilies |->
                    [family |-> SelectionFamilies[i], rule |-> rule,
                     candidates |->
                        SelectionCandidates(rule, manifest, rows, SelectionFamilies[i])]]]
        /\ UNCHANGED <<files, frozen, changes>> /\ SelectionUnchanged

\* One family after the other; each result is saved on its own.
SelectionSave ==
    /\ experiment = "selection" /\ proc.pc = "diagnose" /\ proc.at <= Len(proc.pending)
    /\ LET entry == proc.pending[proc.at]
       IN  /\ Selectable(entry.rule, entry.candidates)
           /\ files' = [files EXCEPT !.chosen =
                            Having(@, entry.family, Select(entry.rule, entry.candidates))]
    /\ proc' = [proc EXCEPT !.at = @ + 1]
    /\ UNCHANGED <<frozen, changes>> /\ SelectionUnchanged

\* The table over all families comes last.
SelectionTable ==
    /\ experiment = "selection" /\ proc.pc = "diagnose" /\ proc.at > Len(proc.pending)
    /\ frozen' = [experiment |-> "selection", manifest |-> proc.input,
                  table |-> proc.pending, selection |-> files.chosen]
    /\ Stopped
    /\ UNCHANGED <<files, changes>> /\ SelectionUnchanged

SelectionNext ==
    \/ \E version \in TraceVersions : \E length \in DOMAIN EvaluationRows(version) :
            SelectionEvidence(version, length)
    \/ SelectionFreeze \/ SelectionDiagnose \/ SelectionSave \/ SelectionTable

\* A finished diagnosis rests on one evaluation: every candidate has the metrics that
\* this evaluation measured, nominally and with the fixed seeds, for the very model the manifest names, the
\* thresholds are those of the reference in the same evaluation, and whatever was
\* selected was nowhere worse than that reference, however the files were exchanged.
SelectionFrozenWell ==
    \E version \in TraceVersions :
        \A i \in DOMAIN frozen.table :
            LET entry == frozen.table[i]
                Measures(c, w, row) ==
                    /\ row.controller = entry.family /\ row.model = c.run
                    /\ row.where = w /\ Meets(row)
                    /\ row.metrics = c.metrics[w]
                Refers(w, row) ==
                    /\ row.id = Reference /\ row.where = w /\ Meets(row)
                    /\ row.metrics.sla = entry.rule.threshold[w]
                chosen == frozen.selection[entry.family]
            IN  /\ \A w \in SelectionWorkloads :
                    /\ \E row \in ToSet(EvaluationRows(version)) : Refers(w, row)
                    /\ \A c \in entry.candidates :
                        \E row \in ToSet(EvaluationRows(version)) : Measures(c, w, row)
                /\ chosen.succeeded =>
                    \E c \in entry.candidates :
                        c.index = chosen.selected /\ Feasible(entry.rule, c)
=============================================================================
