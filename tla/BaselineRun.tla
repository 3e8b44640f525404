---------------------------- MODULE BaselineRun -----------------------------
(***************************************************************************)
(* The predictive-baseline evaluation (predictive_baseline): three rule    *)
(* controllers on validation workloads, the Azure one only when its data   *)
(* is there. Beside the rows it keeps a second file, the forecast records  *)
(* of every run that forecasts, and restores what an interruption lost.    *)
(***************************************************************************)
EXTENDS CaseRuns

CONSTANTS
    BaselineControllers,    \* threshold-v1, predictive-v1, predictive-seasonal-v1
    SyntheticValidation,    \* validation workloads generated by the code
    AzureValidation,        \* validation workloads read from the external data
    RecordsIssued(_)        \* the number of forecasts a case's controller issues

Absent == 0                 \* the version of inputs that is not there
Seasonal == "seasonal"
Azure == inputs # Absent

-----------------------------------------------------------------------------
\* build_experiment_spec: no parameter but the definition.
BaselineSpec(definition) ==
    [id |-> definition, synthetic |-> SyntheticValidation, azure |-> AzureValidation,
     heldOut |-> {}]

\* _check: exactly the predeclared workloads, nothing held out.
BaselineSpecValid(spec) ==
    /\ spec.heldOut = {}
    /\ \A w \in ToSet(spec.synthetic \o spec.azure) : SplitOf[w] # "test"
    /\ spec.synthetic = SyntheticValidation /\ spec.azure = AzureValidation

\* load_frozen_spec
LoadsBaselineSpec == tree.file = tree.code /\ BaselineSpecValid(BaselineSpec(tree.file))

\* Every controller on every workload; only the seasonal one reads the profile,
\* and only where there is one.
BaselineCases(spec, azure) ==
    LET workloads == IF azure THEN spec.synthetic \o spec.azure ELSE spec.synthetic
    IN  FlattenSeq([w \in DOMAIN workloads |->
            [c \in DOMAIN BaselineControllers |->
                [variant |-> BaselineControllers[c], where |-> workloads[w],
                 profiled |-> /\ BaselineControllers[c] = Seasonal
                              /\ workloads[w] \in ToSet(spec.azure)]]])

BaselinePlans ==
    [definition \in Definitions |->
        [azure \in BOOLEAN |-> BaselineCases(BaselineSpec(definition), azure)]]
BaselinePlan == BaselinePlans[proc.spec][proc.input # Absent]

\* The exact trace and the profile a case uses; generated traces never change.
BaselineInput(case, version) ==
    [trace |-> IF case.where \in ToSet(AzureValidation) THEN version ELSE 1,
     profile |-> IF case.profiled THEN version ELSE 0]

-----------------------------------------------------------------------------
\* The forecasts of a run and their number, which the run logs with its metrics.
Records(case, i) == [n \in 1 .. RecordsIssued(case) |-> [case |-> case, run |-> i, tick |-> n]]

\* Forecasts scored after the episode; without forecasts there are no metrics.
ForecastMetrics(case) ==
    IF RecordsIssued(case) = 0 THEN {}
    ELSE {[issued |-> RecordsIssued(case), profileUsed |-> case.profiled]}

BaselineRow(case, spec, i) ==
    [case |-> case, spec |-> spec, input |-> runs[i].input, run |-> i,
     forecast |-> ForecastMetrics(case), value |-> Measured(case, runs[i].input.trace)]

-----------------------------------------------------------------------------
(* The run command.                                                        *)
BaselineCase == BaselinePlan[proc.at]
RowsOfCase(case) == SelectSeq(RowsOf(proc.spec), LAMBDA row : row.case = case)
BaselineFound(case) == FinishedRuns(case, proc.spec, BaselineInput(case, proc.input))
NextCase(p) == [p EXCEPT !.pc = "case", !.at = @ + 1, !.run = 0, !.row = NoRow]

BaselineUnchanged == UNCHANGED <<experiment, tree, commits, inputs, jobs, changes>>

BaselineLoad(freezing) ==
    /\ experiment = "baseline" /\ proc.pc = "idle" /\ frozen = NoResult
    /\ LoadsBaselineSpec
    /\ proc' = [Idle EXCEPT !.pc = "repair", !.spec = tree.file, !.input = inputs,
                            !.freezing = freezing]
    /\ UNCHANGED <<raw, runs, files, frozen>> /\ BaselineUnchanged

BaselineRepair ==
    /\ experiment = "baseline" /\ proc.pc = "repair"
    /\ raw' = Repaired(raw)
    /\ proc' = [proc EXCEPT !.pc = "repair records"]
    /\ UNCHANGED <<runs, files, frozen>> /\ BaselineUnchanged

\* A row of a planned case from other inputs is an error.
BaselineScan ==
    /\ experiment = "baseline" /\ proc.pc = "repair records"
    /\ files' = [files EXCEPT !.records = Repaired(@)]
    /\ IF \A row \in ToSet(RowsOf(proc.spec)) :
            row.case \in ToSet(BaselinePlan) => row.input = BaselineInput(row.case, proc.input)
       THEN proc' = [proc EXCEPT !.pc = "case"]
       ELSE Stopped
    /\ UNCHANGED <<raw, runs, frozen>> /\ BaselineUnchanged

LocalRecords(row) ==
    SelectSeq(files.records.rows, LAMBDA r : r.case = row.case /\ r.run = row.run)

\* Slip: it is enough that the case has some local records.
RestoredIfNone(row, after) ==
    IF LocalRecords(row) # <<>> \/ RecordsIssued(row.case) = 0
    THEN proc' = after /\ UNCHANGED files
    ELSE /\ files' = [files EXCEPT !.records.rows =
                        SelectSeq(@, LAMBDA r : r.case # row.case)]
         /\ proc' = [after EXCEPT !.pc = "records", !.pending = Records(row.case, row.run)]

\* _restore_records: unless the local records of a row's run are complete, all
\* records of its case are dropped, and those of the run appended again.
Restored(row, after) ==
    IF Len(LocalRecords(row)) = RecordsIssued(row.case)
    THEN proc' = after /\ UNCHANGED files
    ELSE /\ files' = [files EXCEPT !.records.rows =
                        SelectSeq(@, LAMBDA r : r.case # row.case)]
         /\ proc' = [after EXCEPT !.pc = "records", !.pending = Records(row.case, row.run)]

\* A case with a row only needs its records.
BaselineDone ==
    /\ experiment = "baseline" /\ proc.pc = "case" /\ proc.at <= Len(BaselinePlan)
    /\ BaselineCase \in CasesWithRow(proc.spec)
    /\ Restored(Last(RowsOfCase(BaselineCase)), NextCase(proc))
    /\ UNCHANGED <<raw, runs, frozen>> /\ BaselineUnchanged

\* A finished run gives its records first, then its row.
BaselineRecover ==
    /\ experiment = "baseline" /\ proc.pc = "case" /\ proc.at <= Len(BaselinePlan)
    /\ BaselineCase \notin CasesWithRow(proc.spec)
    /\ \E i \in BaselineFound(BaselineCase) :
        LET row == BaselineRow(BaselineCase, proc.spec, i)
        IN  Restored(row, [proc EXCEPT !.pc = "append", !.row = row])
    /\ UNCHANGED <<raw, runs, frozen>> /\ BaselineUnchanged

BaselineOpen ==
    /\ experiment = "baseline" /\ proc.pc = "case" /\ proc.at <= Len(BaselinePlan)
    /\ BaselineCase \notin CasesWithRow(proc.spec) /\ BaselineFound(BaselineCase) = {}
    /\ runs' = Append(runs, OpenedRun(BaselineCase, proc.spec,
                                      BaselineInput(BaselineCase, proc.input)))
    /\ proc' = [proc EXCEPT !.pc = "evaluate", !.run = Len(runs) + 1]
    /\ UNCHANGED <<raw, files, frozen>> /\ BaselineUnchanged

BaselineTag ==
    /\ experiment = "baseline" /\ proc.pc = "evaluate"
    /\ runs' = Tagged(proc.run)
    /\ proc' = [proc EXCEPT !.pc = "record"]
    /\ UNCHANGED <<raw, files, frozen>> /\ BaselineUnchanged

\* The run is finished with its records as an artifact.
BaselineFinish ==
    /\ experiment = "baseline" /\ proc.pc = "record"
    /\ LET row == BaselineRow(BaselineCase, proc.spec, proc.run)
       IN  /\ runs' = FinishedWith(proc.run, row)
           /\ proc' = [proc EXCEPT !.pc = "records", !.row = row,
                                   !.pending = Records(BaselineCase, proc.run)]
    /\ UNCHANGED <<raw, files, frozen>> /\ BaselineUnchanged

\* Records are appended one by one; then the row, unless it is there already.
BaselineRecord ==
    /\ experiment = "baseline" /\ proc.pc = "records"
    /\ IF proc.pending # <<>>
       THEN /\ files' = [files EXCEPT !.records = Appended(@, Head(proc.pending))]
            /\ proc' = [proc EXCEPT !.pending = Tail(@)]
       ELSE /\ proc' = [proc EXCEPT !.pc = IF proc.row = NoRow THEN "case" ELSE "append"]
            /\ UNCHANGED files
    /\ UNCHANGED <<raw, runs, frozen>> /\ BaselineUnchanged

BaselineAppend ==
    /\ experiment = "baseline" /\ proc.pc = "append"
    /\ raw' = Appended(raw, proc.row)
    /\ proc' = NextCase(proc)
    /\ UNCHANGED <<runs, files, frozen>> /\ BaselineUnchanged

-----------------------------------------------------------------------------
(* Summary and the frozen artifact.                                        *)
\* Per workload each controller's metrics and run; nothing is pooled.
BaselineSummary(rows) ==
    [where \in {row.case.where : row \in ToSet(rows)} |->
        {[variant |-> row.case.variant, value |-> row.value, run |-> row.run,
          forecast |-> row.forecast] :
            row \in {r \in ToSet(rows) : r.case.where = where}}]

SeasonalMinusV1(summary) ==
    [where \in DOMAIN summary |->
        LET Value(variant) == (CHOOSE e \in summary[where] : e.variant = variant).value
        IN  Value(Seasonal) - Value("predictive")]

BaselineArtifact(rows) ==
    [experiment |-> "baseline", spec |-> proc.spec, input |-> proc.input, rows |-> rows,
     results |-> BaselineSummary(rows), delta |-> SeasonalMinusV1(BaselineSummary(rows)),
     azure |-> proc.input # Absent, records |-> files.records.rows]

\* The rows of the planned cases must be complete.
BaselineReturn ==
    /\ experiment = "baseline" /\ proc.pc = "case" /\ proc.at > Len(BaselinePlan)
    /\ LET rows == SelectSeq(RowsOf(proc.spec), LAMBDA row : row.case \in ToSet(BaselinePlan))
           complete == /\ Len(rows) = Len(BaselinePlan)
                       /\ {row.case : row \in ToSet(rows)} = ToSet(BaselinePlan)
       IN  frozen' = IF complete /\ proc.freezing THEN BaselineArtifact(rows) ELSE frozen
    /\ Stopped
    /\ UNCHANGED <<raw, runs, files>> /\ BaselineUnchanged

BaselineNext ==
    \/ \E freezing \in BOOLEAN : BaselineLoad(freezing)
    \/ BaselineRepair \/ BaselineScan \/ BaselineDone \/ BaselineRecover \/ BaselineOpen
    \/ BaselineTag \/ BaselineFinish \/ BaselineRecord \/ BaselineAppend \/ BaselineReturn

\* A frozen baseline has one row of a finished run per planned case, all from the
\* inputs the command started from, and beside each row the forecasts of its run,
\* every one once and in order, whatever was interrupted before.
BaselineFrozenWell ==
    /\ {row.case : row \in ToSet(frozen.rows)}
            = ToSet(BaselinePlans[frozen.spec][frozen.input # Absent])
    /\ \A row \in ToSet(frozen.rows) :
        /\ RowBacked(row)
        /\ row.input.profile = IF row.case.profiled THEN frozen.input ELSE 0
        /\ SelectSeq(frozen.records, LAMBDA r : r.case = row.case /\ r.run = row.run)
                = Records(row.case, row.run)
=============================================================================
