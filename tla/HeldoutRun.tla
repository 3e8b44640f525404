----------------------------- MODULE HeldoutRun -----------------------------
(***************************************************************************)
(* The held-out evaluation (heldout): a predeclared matrix of cases, each  *)
(* evaluated once as one tracked run from one clean commit; then the rows  *)
(* are audited against what the runs recorded themselves, and frozen.      *)
(*                                                                         *)
(* A case's metrics are one number, its row keeps what identifies it.      *)
(***************************************************************************)
EXTENDS CaseRuns

CONSTANTS
    Benchmarks,         \* the benchmark manifest: id, split and source of each workload
    TestWorkloads,      \* the Azure TEST workloads the module names
    ScenarioTable(_),   \* of a definition, the robustness scenarios: name, jitter,
                        \* telemetry delay
    DynamicsSeeds,
    StartupMatrix(_),   \* the scenarios of its startup evaluation, each with its pairs
                        \* of dynamics and startup seeds
    RuleVariants,       \* the rule controllers and their evaluation seeds
    Deployment,         \* the controller manifest: what was selected per family
    Slices,             \* the replay manifest: windows and their schedules
    PinnedPart(_),      \* by data version: the source of the slices and of the profile
    FrozenPart,         \* that part as the definition pins it
    ReplayControllers(_),
    ExpectedCounts(_)   \* the number of cases of each kind the module names

NoSeed == 0

ForEach(s, Op(_)) == FlattenSeq([i \in DOMAIN s |-> Op(s[i])])

-----------------------------------------------------------------------------
(* The predeclared specification and its matrix.                           *)
\* A controller of the matrix; only a learned one has a training run.
Variant(id, controller, seeds, run) ==
    [id |-> id, controller |-> controller, seeds |-> seeds, run |-> run]
IsLearned(variant) == variant.controller \in {"dqn", "ppo"}

\* The rule controllers, then the canonical model of each learned family.
FrozenVariants ==
    [i \in DOMAIN RuleVariants |->
        Variant(RuleVariants[i].id, RuleVariants[i].id, RuleVariants[i].seeds, 0)]
        \o [i \in DOMAIN Deployment |->
                Variant(Deployment[i].id, Deployment[i].family, <<0>>, Deployment[i].run)]

\* Nothing is built unless every selected model is feasible and the workloads
\* are exactly the TEST workloads of the benchmark that come from Azure.
BuildsSpec(definition) ==
    /\ \A i \in DOMAIN Deployment : Deployment[i].feasible
    /\ {b.id : b \in {b \in Benchmarks : b.split = "test" /\ b.source = "azure"}}
            = ToSet(TestWorkloads)
    /\ ToSet(ReplayControllers(definition)) \subseteq {v.id : v \in ToSet(FrozenVariants)}

\* Dynamics seeds matter only where capacity jitters.
SeedsOf(scenario) == IF scenario.jitter THEN DynamicsSeeds ELSE <<0>>

WithSeeds(scenario) ==
    [scenario |-> scenario,
     seeds |-> [j \in DOMAIN SeedsOf(scenario) |-> <<SeedsOf(scenario)[j], NoSeed>>]]

HeldoutSpec(definition) ==
    [id |-> definition, workloads |-> TestWorkloads, variants |-> FrozenVariants,
     primary |-> [i \in DOMAIN ScenarioTable(definition) |->
                    WithSeeds(ScenarioTable(definition)[i])],
     startup |-> StartupMatrix(definition), slices |-> Slices,
     replayed |-> ReplayControllers(definition), expected |-> ExpectedCounts(definition)]

\* load_frozen_spec: the committed file must be what this code builds.
LoadsSpec == tree.file = tree.code /\ BuildsSpec(tree.code)

\* A case is identified by kind, controller, place, scenario and seeds.
HeldoutCase(kind, variant, where, scenario, seeds, evaluation) ==
    [kind |-> kind, variant |-> variant.id, where |-> where, scenario |-> scenario.name,
     dynamics |-> seeds[1], startup |-> seeds[2], evaluation |-> evaluation]

HeldoutCases(spec) ==
    LET InMatrix(kind, matrix) ==
            ForEach(spec.workloads, LAMBDA workload :
            ForEach(matrix, LAMBDA entry :
            ForEach(entry.seeds, LAMBDA seeds :
            ForEach(spec.variants, LAMBDA variant :
                [i \in DOMAIN variant.seeds |->
                    HeldoutCase(kind, variant, workload, entry.scenario, seeds,
                                variant.seeds[i])]))))
        Replayed ==
            ForEach(spec.slices, LAMBDA slice :
                [i \in DOMAIN spec.replayed |->
                    HeldoutCase("replay",
                                CHOOSE v \in ToSet(spec.variants) : v.id = spec.replayed[i],
                                slice.id, [name |-> "nominal"], <<0, NoSeed>>, 0)])
    IN  InMatrix("primary", spec.primary) \o InMatrix("startup", spec.startup) \o Replayed

\* Of every definition its matrix.
HeldoutPlan == [definition \in Definitions |-> HeldoutCases(HeldoutSpec(definition))]

CaseCounts(cases) ==
    [kind \in {"primary", "startup", "replay"} |->
        Len(SelectSeq(cases, LAMBDA case : case.kind = kind))]

RequireExpectedCounts(spec) ==
    /\ CaseCounts(HeldoutPlan[spec.id]) = spec.expected
    /\ IsInjective(HeldoutPlan[spec.id])

-----------------------------------------------------------------------------
(* The controllers, rows and tags of one case.                             *)
VariantOf(spec, case) == CHOOSE v \in ToSet(spec.variants) : v.id = case.variant

\* A learned policy meets conditions it was not trained for only by the path
\* that records what was perturbed.
RobustnessPath(spec, case) ==
    \/ case.startup # NoSeed
    \/ \E entry \in ToSet(spec.primary) :
        entry.scenario.name = case.scenario /\ entry.scenario.delay > 0

Perturbed(spec, case) == IsLearned(VariantOf(spec, case)) /\ RobustnessPath(spec, case)

\* A slice is cut from the pinned part of the data.
TraceOf(case, version) == IF case.kind = "replay" THEN PinnedPart(version) ELSE version

\* input_identity: the trace, and for a learned controller its training run.
InputIdentity(spec, case, version) ==
    [trace |-> TraceOf(case, version), run |-> VariantOf(spec, case).run]

\* The row of a case evaluated in run i: the commit is the one just checked.
HeldoutRow(spec, case, i) ==
    [kind |-> case.kind, case |-> case, spec |-> spec.id,
     input |-> InputIdentity(spec, case, proc.input), run |-> i,
     sha |-> proc.sha, dirty |-> FALSE, perturbed |-> Perturbed(spec, case),
     value |-> Measured(case, TraceOf(case, proc.input))]

\* Slip: the commit is not looked at.
ProvenanceProblemsButCommit(row, i, execution) ==
    \/ row.run # i \/ runs[i].status # "FINISHED"
    \/ runs[i].case # row.case \/ runs[i].spec # row.spec \/ runs[i].input # row.input
    \/ runs[i].dirty

\* What the run recorded itself disagrees with the row: another run, not
\* finished, other tags, not a clean tree, another commit.
ProvenanceProblems(row, i, execution) ==
    \/ row.run # i \/ runs[i].status # "FINISHED"
    \/ runs[i].case # row.case \/ runs[i].spec # row.spec \/ runs[i].input # row.input
    \/ runs[i].dirty
    \/ runs[i].sha # row.sha
    \/ execution # {} /\ runs[i].sha \notin execution

-----------------------------------------------------------------------------
(* The run command.                                                        *)
SpecOf(p) == HeldoutSpec(p.spec)
InputOf(spec, case) == InputIdentity(spec, case, proc.input)
\* Slip: only rows this command appended count.
CasesDoneHere == {row.case : row \in {r \in ToSet(RowsOf(proc.spec)) : r.sha = proc.sha}}

CasesDone == CasesWithRow(proc.spec)

\* The cases are done in order; this one is next.
HeldoutOver == AllDone(HeldoutPlan[proc.spec], CasesDone)
HeldoutDue == NextOf(HeldoutPlan[proc.spec], CasesDone)

HeldoutUnchanged == UNCHANGED <<experiment, tree, commits, inputs, files, jobs, frozen, changes>>

\* The spec is loaded, then the inputs, whose pinned part must be the frozen one.
HeldoutLoad ==
    /\ experiment = "heldout" /\ proc.pc = "idle" /\ frozen = NoResult
    /\ LoadsSpec /\ RequireExpectedCounts(HeldoutSpec(tree.file))
    /\ PinnedPart(inputs) = FrozenPart
    /\ proc' = [Idle EXCEPT !.pc = "loaded", !.spec = tree.file, !.input = inputs]
    /\ UNCHANGED <<raw, runs>> /\ HeldoutUnchanged

\* Only a clean tree runs; its commit is the commit of the whole command.
HeldoutBegin ==
    /\ experiment = "heldout" /\ proc.pc = "loaded"
    /\ IF tree.dirty THEN Stopped
       ELSE proc' = [proc EXCEPT !.pc = "repair", !.sha = tree.sha]
    /\ UNCHANGED <<raw, runs>> /\ HeldoutUnchanged

\* A row of this spec from other inputs, or a second row of a case, is an error.
HeldoutScan ==
    /\ experiment = "heldout" /\ proc.pc = "repair"
    /\ raw' = Repaired(raw)
    /\ LET rows == SelectSeq(raw'.rows, LAMBDA row : row.spec = proc.spec)
       IN  IF /\ \A i \in DOMAIN rows : rows[i].input = InputOf(SpecOf(proc), rows[i].case)
              /\ IsInjective([i \in DOMAIN rows |-> rows[i].case])
           THEN proc' = [proc EXCEPT !.pc = "case"]
           ELSE Stopped
    /\ UNCHANGED runs /\ HeldoutUnchanged

\* A finished run of the next case gives its row, if both agree and there is
\* only one.
HeldoutRecover ==
    /\ experiment = "heldout" /\ proc.pc = "case" /\ ~HeldoutOver
    /\ LET case == HeldoutDue
           found == FinishedRuns(case, proc.spec, InputOf(SpecOf(proc), case))
       IN  /\ found # {}
           /\ IF /\ Cardinality(found) = 1
                 /\ \A i \in found : /\ runs[i].row.case = case
                                     /\ ~ProvenanceProblems(runs[i].row, i, {})
              THEN proc' = [proc EXCEPT !.pc = "append",
                                        !.row = runs[CHOOSE i \in found : TRUE].row]
              ELSE Stopped
    /\ UNCHANGED <<raw, runs>> /\ HeldoutUnchanged

\* Otherwise it is evaluated, unless the checkout has changed.
HeldoutCheck ==
    /\ experiment = "heldout" /\ proc.pc = "case" /\ ~HeldoutOver
    /\ LET case == HeldoutDue
       IN FinishedRuns(case, proc.spec, InputOf(SpecOf(proc), case)) = {}
    /\ IF tree.dirty \/ tree.sha # proc.sha THEN Stopped
       ELSE proc' = [proc EXCEPT !.pc = "open"]
    /\ UNCHANGED <<raw, runs>> /\ HeldoutUnchanged

HeldoutOpen ==
    /\ experiment = "heldout" /\ proc.pc = "open"
    /\ LET case == HeldoutDue
       IN  runs' = Append(runs, OpenedRun(case, proc.spec, InputOf(SpecOf(proc), case)))
    /\ proc' = [proc EXCEPT !.pc = "evaluate", !.run = Len(runs) + 1]
    /\ UNCHANGED raw /\ HeldoutUnchanged

\* The run is tagged only once the episode is over.
HeldoutTag ==
    /\ experiment = "heldout" /\ proc.pc = "evaluate"
    /\ runs' = Tagged(proc.run)
    /\ proc' = [proc EXCEPT !.pc = "record",
                            !.row = HeldoutRow(SpecOf(proc), HeldoutDue, proc.run)]
    /\ UNCHANGED raw /\ HeldoutUnchanged

\* The row is saved with the run, which is then finished.
HeldoutFinish ==
    /\ experiment = "heldout" /\ proc.pc = "record"
    /\ runs' = FinishedWith(proc.run, proc.row)
    /\ proc' = [proc EXCEPT !.pc = "append"]
    /\ UNCHANGED raw /\ HeldoutUnchanged

HeldoutAppend ==
    /\ experiment = "heldout" /\ proc.pc = "append"
    /\ raw' = Appended(raw, proc.row)
    /\ proc' = [proc EXCEPT !.pc = "case", !.run = 0, !.row = NoRow]
    /\ UNCHANGED runs /\ HeldoutUnchanged

HeldoutReturn ==
    /\ experiment = "heldout" /\ proc.pc = "case" /\ HeldoutOver
    /\ Stopped
    /\ UNCHANGED <<raw, runs>> /\ HeldoutUnchanged

-----------------------------------------------------------------------------
(* Aggregation.                                                            *)
MainRows(rows) == SelectSeq(rows, LAMBDA row : row.kind # "replay")

\* One group never mixes kinds, workloads, scenarios or controllers.
GroupKey(row) == <<row.kind, row.case.where, row.case.scenario, row.case.variant>>
Group(rows, key) == SelectSeq(rows, LAMBDA row : GroupKey(row) = key)
GroupKeys(rows) == {GroupKey(rows[i]) : i \in DOMAIN rows}

SumOf(rows) == FoldLeft(LAMBDA sum, row : sum + row.value, 0, rows)

\* Of each group its number of runs, its total, also per evaluation seed, and its
\* runs of record.
Summaries(rows) ==
    [key \in GroupKeys(rows) |->
        [n |-> Len(Group(rows, key)), total |-> SumOf(Group(rows, key)),
         perSeed |-> {SumOf(SelectSeq(Group(rows, key),
                                      LAMBDA row : row.case.evaluation = seed)) :
                        seed \in {row.case.evaluation : row \in ToSet(Group(rows, key))}},
         runs |-> {row.run : row \in ToSet(Group(rows, key))}]]

\* Slip: the seeds are not compared.
SameConditions(a, b) ==
    /\ a.kind = b.kind
    /\ a.case.where = b.case.where /\ a.case.scenario = b.case.scenario

\* Two rows of one world: same kind, place, scenario and exogenous seeds.
SameRealization(a, b) ==
    /\ a.kind = b.kind
    /\ a.case.where = b.case.where /\ a.case.scenario = b.case.scenario
    /\ a.case.dynamics = b.case.dynamics /\ a.case.startup = b.case.startup

PairedDeltas(rows) ==
    {[case |-> pair[1].case, reference |-> pair[2].case,
      delta |-> pair[1].value - pair[2].value] :
        pair \in {p \in ToSet(rows) \X ToSet(rows) :
                    /\ p[1].case.variant # "threshold"
                    /\ p[2].case.variant = "threshold"
                    /\ SameRealization(p[1], p[2])}}

\* Groups whose mean is worse than that of their threshold group.
WorseThanThreshold(rows) ==
    LET summaries == Summaries(rows)
    IN  {key \in DOMAIN summaries :
            LET reference == <<key[1], key[2], key[3], "threshold">>
            IN  /\ reference \in DOMAIN summaries
                /\ summaries[key].total * summaries[reference].n
                     > summaries[reference].total * summaries[key].n}

-----------------------------------------------------------------------------
(* The audit and the frozen results.                                       *)
\* Slip: only finished runs are asked for.
RunsOfSpecFinished(spec) ==
    {i \in DOMAIN runs : runs[i].tagged /\ runs[i].spec = spec /\ runs[i].status = "FINISHED"}

\* Every run tagged with the spec, whatever became of it.
RunsOfSpec(spec) == {i \in DOMAIN runs : runs[i].tagged /\ runs[i].spec = spec}

Audit(spec, rows, execution) ==
    LET tagged == RunsOfSpec(spec)
    IN  [checked |-> Len(rows),
         mismatches |-> {i \in DOMAIN rows :
                            \/ rows[i].run \notin tagged
                            \/ ProvenanceProblems(rows[i], rows[i].run, {execution})},
         unreferenced |-> tagged \ {row.run : row \in ToSet(rows)}]

\* build_results. Which commit had the spec before the run is not kept in the model.
HeldoutResults(spec, rows, execution, superseded) ==
    [experiment |-> "heldout", spec |-> spec,
     executions |-> {row.sha : row \in ToSet(rows)}, execution |-> execution,
     rows |-> rows, counts |-> CaseCounts([i \in DOMAIN rows |-> rows[i].case]),
     summaries |-> Summaries(MainRows(rows)), deltas |-> PairedDeltas(MainRows(rows)),
     flags |-> WorseThanThreshold(MainRows(rows)), superseded |-> superseded]

\* One row of every case and no other rows.
RowsComplete(spec) ==
    /\ Len(RowsOf(spec)) = Len(HeldoutPlan[spec])
    /\ CasesWithRow(spec) = ToSet(HeldoutPlan[spec])

\* The rows are read in case order whatever order they were written in.
OrderedRows(spec) ==
    [i \in DOMAIN HeldoutPlan[spec] |->
        CHOOSE row \in ToSet(RowsOf(spec)) : row.case = HeldoutPlan[spec][i]]

\* The freeze command: nothing is frozen if a row disagrees with its run, a run
\* is neither referenced nor declared superseded, a case is missing, or the spec
\* was not the one committed before the run.
HeldoutFreeze ==
    /\ experiment = "heldout" /\ frozen = NoResult
    /\ LoadsSpec
    /\ RowsComplete(tree.file)
    /\ LET rows == OrderedRows(tree.file)
           unreferenced == RunsOfSpec(tree.file) \ {row.run : row \in ToSet(rows)}
       IN  /\ \A i \in DOMAIN rows : ~rows[i].dirty
           /\ \E preRun \in DOMAIN commits : commits[preRun].file = tree.file
           /\ \E execution \in DOMAIN commits :
              \E superseded \in {{}, unreferenced} :
              LET audit == Audit(tree.file, rows, execution)
              IN  /\ audit.mismatches = {}
                  /\ audit.unreferenced \subseteq superseded
                  /\ audit.checked = Len(HeldoutPlan[tree.file])
                  /\ frozen' = HeldoutResults(tree.file, rows, execution, superseded)
    /\ UNCHANGED <<experiment, tree, commits, inputs, raw, runs, files, proc, jobs, changes>>

HeldoutNext ==
    \/ experiment = "heldout" /\ GitChanges
    \/ HeldoutLoad \/ HeldoutBegin \/ HeldoutScan \/ HeldoutRecover \/ HeldoutCheck
    \/ HeldoutOpen \/ HeldoutTag \/ HeldoutFinish \/ HeldoutAppend \/ HeldoutReturn
    \/ HeldoutFreeze

-----------------------------------------------------------------------------
\* Frozen results come from one clean commit and exactly the predeclared cases:
\* every row has its own finished run, which recorded that commit and no edits, no
\* run of the spec is silently left out, and every delta compares two rows of the
\* same world.
HeldoutFrozenWell ==
    /\ frozen.executions = {frozen.execution}
    /\ [i \in DOMAIN frozen.rows |-> frozen.rows[i].case] = HeldoutPlan[frozen.spec]
    /\ IsInjective([i \in DOMAIN frozen.rows |-> frozen.rows[i].run])
    /\ \A row \in ToSet(frozen.rows) :
        /\ RowBacked(row)
        /\ ~runs[row.run].dirty /\ runs[row.run].sha = frozen.execution
        /\ row.value = Measured(row.case, row.input.trace)
    /\ \A i \in DOMAIN runs :
        runs[i].tagged /\ runs[i].spec = frozen.spec =>
            i \in frozen.superseded \cup {row.run : row \in ToSet(frozen.rows)}
    /\ \A d \in frozen.deltas :
        /\ d.case.where = d.reference.where /\ d.case.kind = d.reference.kind
        /\ d.case.dynamics = d.reference.dynamics /\ d.case.startup = d.reference.startup
=============================================================================
