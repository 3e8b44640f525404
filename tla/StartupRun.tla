----------------------------- MODULE StartupRun -----------------------------
(***************************************************************************)
(* The startup-robustness evaluation (startup_robustness): rule            *)
(* controllers and the selected PPO models under sampled startup delays,   *)
(* on validation workloads, beside one nominal reference each. The freeze  *)
(* command evaluates what is missing, then summarizes and freezes.         *)
(***************************************************************************)
EXTENDS CaseRuns

CONSTANTS
    ValidationWorkloads,
    StartupScenarios,   \* the startup scenarios: name, jitter
    StartupSeeds,
    RuleControllers,
    ActionDecision,     \* the frozen decision on the action contract
    StepInfos(_)        \* per tick of a case's episode: the applied change, the delays

Fixed == 0

-----------------------------------------------------------------------------
(* What is frozen before any run.                                          *)
\* verify_action_decision
DecisionVerified ==
    /\ ActionDecision.semantics = "desired-replicas-v1"
    /\ ~ActionDecision.heldOutUsed /\ ~ActionDecision.rewardChanged

\* ppo_models: exactly one selected model per startup seed, ordered by seed.
PpoModels ==
    LET models == SelectSeq(ActionDecision.models, LAMBDA m : m.family = "ppo")
    IN  SortSeq(models, LAMBDA a, b : a.seed < b.seed)
PpoModelsComplete ==
    /\ [i \in DOMAIN PpoModels |-> PpoModels[i].seed] = StartupSeeds
    /\ \A m \in ToSet(PpoModels) : m.candidate = "selected"

\* Without jitter the dynamics seed is unused; with it both streams are matched.
SeedPairs(scenario) ==
    [i \in DOMAIN StartupSeeds |->
        <<IF scenario.jitter THEN StartupSeeds[i] ELSE 0, StartupSeeds[i]>>]

StartupVariants ==
    [i \in DOMAIN RuleControllers |-> [id |-> RuleControllers[i], model |-> 0, seed |-> 0]]
        \o [i \in DOMAIN PpoModels |-> [id |-> PpoModels[i].id, model |-> PpoModels[i].run,
                                        seed |-> PpoModels[i].seed]]

\* _scenarios
ScenarioDefinitions ==
    [i \in DOMAIN StartupScenarios |->
        [name |-> StartupScenarios[i].name, seeds |-> SeedPairs(StartupScenarios[i])]]

\* build_experiment_spec
StartupSpec(definition) ==
    [id |-> definition, workloads |-> ValidationWorkloads, variants |-> StartupVariants,
     seeds |-> StartupSeeds, scenarios |-> ScenarioDefinitions, heldOut |-> {}]

\* _check: the predeclared validation workloads, seeds and scenarios, nothing held out.
StartupSpecValid(spec) ==
    /\ spec.heldOut = {}
    /\ \A w \in ToSet(spec.workloads) : SplitOf[w] = "validation"
    /\ spec.workloads = ValidationWorkloads
    /\ spec.seeds = StartupSeeds /\ spec.scenarios = ScenarioDefinitions

LoadsStartupSpec ==
    /\ DecisionVerified /\ PpoModelsComplete
    /\ tree.file = tree.code /\ StartupSpecValid(StartupSpec(tree.file))

\* Of each controller on each workload the nominal reference, then every pair of
\* every scenario.
StartupCases(spec) ==
    LET Conditions ==
            <<[scenario |-> "nominal", seeds |-> <<0, Fixed>>]>>
                \o FlattenSeq([i \in DOMAIN spec.scenarios |->
                    [j \in DOMAIN spec.scenarios[i].seeds |->
                        [scenario |-> spec.scenarios[i].name,
                         seeds |-> spec.scenarios[i].seeds[j]]]])
        CaseOf(workload, variant, condition) ==
            [variant |-> variant.id, model |-> variant.model, seed |-> variant.seed,
             where |-> workload, scenario |-> condition.scenario,
             dynamics |-> condition.seeds[1], startup |-> condition.seeds[2]]
    IN  FlattenSeq([w \in DOMAIN spec.workloads |->
            FlattenSeq([v \in DOMAIN spec.variants |->
                [c \in DOMAIN Conditions |->
                    CaseOf(spec.workloads[w], spec.variants[v], Conditions[c])]])])

StartupPlan == [definition \in Definitions |-> StartupCases(StartupSpec(definition))]

-----------------------------------------------------------------------------
(* Startup diagnostics of one episode.                                     *)
\* Per scale-up the realized delays; of fixed startups only the number is known.
StartupBatches(infos) ==
    LET BatchOf(info) ==
            IF info.sampled THEN info.delays ELSE [i \in 1 .. info.change |-> 1]
    IN  SelectSeq([t \in DOMAIN infos |-> BatchOf(infos[t])], LAMBDA batch : batch # <<>>)

\* summarize_startup: absent statistics are left out, never zero.
StartupDiagnostics(batches) ==
    LET started == ToSet(FlattenSeq(batches))
        Spread(batch) == Max(ToSet(batch)) - Min(ToSet(batch))
        spreads == {Spread(batch) : batch \in {b \in ToSet(batches) : Len(b) > 1}}
    IN  [requested |-> Len(FlattenSeq(batches)),
         shortest |-> IF started = {} THEN {} ELSE {Min(started)},
         longest |-> IF started = {} THEN {} ELSE {Max(started)},
         widest |-> IF spreads = {} THEN {} ELSE {Max(spreads)}]

-----------------------------------------------------------------------------
(* Rows and tags. The identity of the inputs holds the definition too.     *)
StartupInput(case, trace) == [trace |-> trace, run |-> case.model]

\* A learned policy is loaded for conditions it was not trained for.
StartupPerturbed(case) == case.model # 0 /\ case.startup # Fixed

StartupRow(case, spec, i) ==
    [case |-> case, spec |-> spec, input |-> StartupInput(case, runs[i].input.trace),
     run |-> i, perturbed |-> StartupPerturbed(case),
     realizations |-> StartupBatches(StepInfos(case)),
     value |-> Measured(case, runs[i].input.trace)]

-----------------------------------------------------------------------------
(* The run command.                                                        *)
StartupDone == CasesWithRow(proc.spec)
StartupOver == AllDone(StartupPlan[proc.spec], StartupDone)
StartupDue == NextOf(StartupPlan[proc.spec], StartupDone)
StartupFound(case) == FinishedRuns(case, proc.spec, StartupInput(case, proc.input))

StartupUnchanged == UNCHANGED <<experiment, tree, commits, inputs, files, jobs, changes>>

\* The spec is checked and the workloads are built.
StartupLoad(freezing) ==
    /\ experiment = "startup" /\ proc.pc = "idle" /\ frozen = NoResult
    /\ LoadsStartupSpec
    /\ proc' = [Idle EXCEPT !.pc = "repair", !.spec = tree.file, !.input = inputs,
                            !.freezing = freezing]
    /\ UNCHANGED <<raw, runs, frozen>> /\ StartupUnchanged

\* Slip: rows from other inputs are taken over.
StartupScanAdopting ==
    /\ experiment = "startup" /\ proc.pc = "repair"
    /\ raw' = Repaired(raw)
    /\ proc' = [proc EXCEPT !.pc = "case"]
    /\ UNCHANGED <<runs, frozen>> /\ StartupUnchanged

\* A row of this spec from other inputs is an error.
StartupScan ==
    /\ experiment = "startup" /\ proc.pc = "repair"
    /\ raw' = Repaired(raw)
    /\ IF \A row \in ToSet(raw'.rows) :
            row.spec = proc.spec => row.input = StartupInput(row.case, proc.input)
       THEN proc' = [proc EXCEPT !.pc = "case"]
       ELSE Stopped
    /\ UNCHANGED <<runs, frozen>> /\ StartupUnchanged

\* The row of a finished run is rebuilt from its metrics and its artifact.
StartupRecover ==
    /\ experiment = "startup" /\ proc.pc = "case" /\ ~StartupOver
    /\ LET case == StartupDue
       IN  \E i \in StartupFound(case) :
            proc' = [proc EXCEPT !.pc = "append", !.row = StartupRow(case, proc.spec, i)]
    /\ UNCHANGED <<raw, runs, frozen>> /\ StartupUnchanged

StartupOpen ==
    /\ experiment = "startup" /\ proc.pc = "case" /\ ~StartupOver
    /\ LET case == StartupDue
       IN  /\ StartupFound(case) = {}
           /\ runs' = Append(runs, OpenedRun(case, proc.spec, StartupInput(case, proc.input)))
    /\ proc' = [proc EXCEPT !.pc = "evaluate", !.run = Len(runs) + 1]
    /\ UNCHANGED <<raw, frozen>> /\ StartupUnchanged

\* The run is tagged before its episode, and finished with its artifacts.
StartupTag ==
    /\ experiment = "startup" /\ proc.pc = "evaluate"
    /\ runs' = Tagged(proc.run)
    /\ proc' = [proc EXCEPT !.pc = "record"]
    /\ UNCHANGED <<raw, frozen>> /\ StartupUnchanged

StartupFinish ==
    /\ experiment = "startup" /\ proc.pc = "record"
    /\ LET row == StartupRow(StartupDue, proc.spec, proc.run)
       IN  /\ runs' = FinishedWith(proc.run, row)
           /\ proc' = [proc EXCEPT !.pc = "append", !.row = row]
    /\ UNCHANGED <<raw, frozen>> /\ StartupUnchanged

StartupAppend ==
    /\ experiment = "startup" /\ proc.pc = "append"
    /\ raw' = Appended(raw, proc.row)
    /\ proc' = [proc EXCEPT !.pc = "case", !.run = 0, !.row = NoRow]
    /\ UNCHANGED <<runs, frozen>> /\ StartupUnchanged

-----------------------------------------------------------------------------
(* Summaries and the freeze.                                               *)
SeedTotal(rows) == FoldLeft(LAMBDA sum, row : sum + row.value, 0, rows)
StartupGroup(rows, key) ==
    SelectSeq(rows, LAMBDA row : <<row.case.variant, row.case.where, row.case.scenario>> = key)

\* Each controller over its startup seeds; the PPO models, each by its own mean,
\* once more as one group, so that both kinds of variation stay apart.
StartupSummaries(rows) ==
    LET keys == {<<row.case.variant, row.case.where, row.case.scenario>> : row \in ToSet(rows)}
        learned == {row \in ToSet(rows) : row.case.model # 0}
    IN  [variants |-> [key \in keys |-> [n |-> Len(StartupGroup(rows, key)),
                                         total |-> SeedTotal(StartupGroup(rows, key))]],
         seeds |-> [place \in {<<row.case.where, row.case.scenario>> : row \in learned} |->
                        {[seed |-> row.case.seed,
                          total |-> SeedTotal(StartupGroup(rows, <<row.case.variant>> \o place)),
                          n |-> Len(StartupGroup(rows, <<row.case.variant>> \o place))] :
                            row \in {r \in learned :
                                        <<r.case.where, r.case.scenario>> = place}}]]

\* build_freeze: of the PPO models only the group enters.
StartupFreeze(rows) ==
    [experiment |-> "startup", spec |-> proc.spec,
     rows |-> rows,
     evidence |-> [key \in {k \in DOMAIN StartupSummaries(rows).variants :
                                \E c \in ToSet(RuleControllers) : k[1] = c} |->
                    StartupSummaries(rows).variants[key]],
     learned |-> StartupSummaries(rows).seeds]

\* The rows must be the cases; then reports are written, or the result is frozen.
StartupReturn ==
    /\ experiment = "startup" /\ proc.pc = "case" /\ StartupOver
    /\ LET rows == RowsOf(proc.spec)
           complete == /\ Len(rows) = Len(StartupPlan[proc.spec])
                       /\ StartupDone = ToSet(StartupPlan[proc.spec])
       IN  frozen' = IF complete /\ proc.freezing THEN StartupFreeze(rows) ELSE frozen
    /\ Stopped
    /\ UNCHANGED <<raw, runs>> /\ StartupUnchanged

StartupNext ==
    \/ \E freezing \in BOOLEAN : StartupLoad(freezing)
    \/ StartupScan \/ StartupRecover \/ StartupOpen \/ StartupTag \/ StartupFinish
    \/ StartupAppend \/ StartupReturn

\* A frozen result names, of every predeclared case, one finished run of it, and
\* all of them met the same inputs; a group has as many replicates as its
\* scenario has seeds, and the training seeds are never pooled with the startups.
StartupFrozenWell ==
    /\ {row.case : row \in ToSet(frozen.rows)} = ToSet(StartupPlan[frozen.spec])
    /\ Len(frozen.rows) = Len(StartupPlan[frozen.spec])
    /\ \A row \in ToSet(frozen.rows) : RowBacked(row)
    /\ Cardinality({row.input.trace : row \in ToSet(frozen.rows)}) = 1
    /\ \A key \in DOMAIN frozen.evidence :
        frozen.evidence[key].n = IF key[3] = "nominal" THEN 1 ELSE Len(StartupSeeds)
    /\ \A place \in DOMAIN frozen.learned :
        {entry.seed : entry \in frozen.learned[place]} = ToSet(StartupSeeds)
=============================================================================
