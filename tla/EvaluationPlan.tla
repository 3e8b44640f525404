--------------------------- MODULE EvaluationPlan ---------------------------
(***************************************************************************)
(* The multi-seed evaluation run (run_plan): it evaluates every case of a  *)
(* plan once, each as one MLflow run, and appends one row per case to a    *)
(* local file. It may be stopped anywhere and invoked again with resume.   *)
(*                                                                         *)
(* Durable: the output directory (plan file, raw rows, outputs) and the    *)
(* MLflow runs. Volatile: the invocation. The plan file is replaced        *)
(* atomically; the raw file is appended to and, to drop a torn last line,  *)
(* rewritten in place. Cases are numbered in plan order.                   *)
(***************************************************************************)
EXTENDS Naturals, SequencesExt

CONSTANTS
    Plans,              \* the plans the user may ask for
    NumCases,           \* the number of cases of each plan
    NoPlan,
    Removable,          \* the plans whose file the user deletes by hand
    MaxStops            \* bounds the model: crashes, failures and interrupts

ASSUME PlanConfig ==
    /\ NoPlan \notin Plans
    /\ NumCases \in Nat \ {0}
    /\ Removable \subseteq Plans
    /\ MaxStops \in Nat

VARIABLES
    planFile,       \* evaluation-plan.json
    raw,            \* raw-results.jsonl: does it exist, its rows, its last line
    runs,           \* the MLflow runs, in order of creation
    outputs,        \* the rows the summary files were last written from
    proc,           \* the invocation of run_plan
    outcome,        \* how the latest invocation ended
    stops           \* how often an invocation was stopped so far

vars == <<planFile, raw, runs, outputs, proc, outcome, stops>>

Cases == 1 .. NumCases
Row == [plan : Plans, case : Cases, run : Nat]
Run == [plan : Plans, case : Cases, status : {"RUNNING", "FINISHED", "FAILED", "KILLED"}]

\* The last line: "clean" ends with a newline, "unended" is the last of rows
\* without its newline, "partial" is part of a row that is not in rows.
RawFile == [exists : BOOLEAN, rows : Seq(Row), tail : {"clean", "unended", "partial"}]

Idle == [pc |-> "idle", plan |-> NoPlan, resume |-> FALSE, completed |-> {},
         next |-> 1, run |-> 0, kept |-> <<>>]

-----------------------------------------------------------------------------
\* The rows of a plan, in the order of the file.
RowsOf(plan) ==
    LET at == {i \in DOMAIN raw.rows : raw.rows[i].plan = plan}
        nth == CHOOSE f \in [1 .. Cardinality(at) -> at] :
                    \A j, k \in DOMAIN f : j < k => f[j] < f[k]
    IN  [k \in DOMAIN nth |-> raw.rows[nth[k]]]

CompletedOf(plan) ==
    {raw.rows[i].case : i \in {j \in DOMAIN raw.rows : raw.rows[j].plan = plan}}

\* Slip: unfinished runs are recovered too.
RecoverableAnyStatus(plan, case) ==
    {i \in DOMAIN runs : runs[i].plan = plan /\ runs[i].case = case}
\* Slip: nothing is recovered.
RecoverableNone(plan, case) == {}

\* The finished MLflow runs of a case.
Recoverable(plan, case) ==
    {i \in DOMAIN runs :
        runs[i].plan = plan /\ runs[i].case = case /\ runs[i].status = "FINISHED"}

\* The file after a complete append. On an unaligned file the new line joins
\* the last one and neither can be read.
WithRow(file, row) ==
    [exists |-> TRUE, tail |-> "clean",
     rows |-> CASE file.tail = "clean"   -> Append(file.rows, row)
                [] file.tail = "unended" -> Front(file.rows)
                [] file.tail = "partial" -> file.rows]

\* What a stop in the middle of an append may leave.
Interrupted(file, row) ==
    {file, [file EXCEPT !.exists = TRUE],
     [file EXCEPT !.exists = TRUE, !.tail = "partial"],
     [exists |-> TRUE, tail |-> "unended", rows |-> Append(file.rows, row)],
     WithRow(file, row)}

RowToAppend == [plan |-> proc.plan, case |-> proc.next, run |-> proc.run]

\* Slips: rows without a plan are adopted; resume is refused too.
RefusalAdopting(plan, resume) ==
    CASE planFile # NoPlan /\ ~resume -> "exists"
      [] planFile # NoPlan /\ resume /\ planFile # plan -> "differs"
      [] OTHER -> "accepted"
RefusalOfResume(plan, resume) ==
    CASE planFile # NoPlan -> "exists"
      [] planFile = NoPlan /\ raw.exists -> "orphaned"
      [] OTHER -> "accepted"

Refusal(plan, resume) ==
    CASE planFile # NoPlan /\ ~resume -> "exists"
      [] planFile # NoPlan /\ resume /\ planFile # plan -> "differs"
      [] planFile = NoPlan /\ raw.exists -> "orphaned"
      [] OTHER -> "accepted"

-----------------------------------------------------------------------------
Init ==
    /\ planFile = NoPlan
    /\ raw = [exists |-> FALSE, rows |-> <<>>, tail |-> "clean"]
    /\ runs = <<>>
    /\ outputs = <<>>
    /\ proc = Idle
    /\ outcome = "none"
    /\ stops = 0

\* run_plan is called: refused, or the plan is saved before anything runs.
Invoke(plan, resume) ==
    /\ proc.pc = "idle"
    /\ IF Refusal(plan, resume) # "accepted"
       THEN /\ outcome' = Refusal(plan, resume)
            /\ UNCHANGED <<planFile, proc>>
       ELSE /\ planFile' = plan
            /\ proc' = [Idle EXCEPT !.pc = "repair", !.plan = plan, !.resume = resume]
            /\ outcome' = "none"
    /\ UNCHANGED <<raw, runs, outputs, stops>>

\* A torn last line is cut off: the file is truncated, then written again.
Repair ==
    /\ proc.pc = "repair"
    /\ IF raw.tail = "clean"
       THEN proc' = [proc EXCEPT !.pc = "scan"] /\ UNCHANGED raw
       ELSE /\ proc' = [proc EXCEPT
                            !.pc = "rewrite",
                            !.kept = IF raw.tail = "unended" THEN Front(raw.rows)
                                     ELSE raw.rows]
            /\ raw' = [raw EXCEPT !.rows = <<>>, !.tail = "clean"]
    /\ UNCHANGED <<planFile, runs, outputs, outcome, stops>>

Rewrite ==
    /\ proc.pc = "rewrite"
    /\ raw' = [raw EXCEPT !.rows = proc.kept]
    /\ proc' = [proc EXCEPT !.pc = "scan", !.kept = <<>>]
    /\ UNCHANGED <<planFile, runs, outputs, outcome, stops>>

\* Slip: completed rows are not looked at.
ScanNothing ==
    /\ proc.pc = "scan"
    /\ proc' = [proc EXCEPT !.pc = "case"]
    /\ UNCHANGED <<planFile, raw, runs, outputs, outcome, stops>>

Scan ==
    /\ proc.pc = "scan"
    /\ proc' = [proc EXCEPT !.pc = "case", !.completed = CompletedOf(proc.plan)]
    /\ UNCHANGED <<planFile, raw, runs, outputs, outcome, stops>>

\* Slip: one case too many.
RemainingTooMany == proc.next <= NumCases + 1

Remaining == proc.next <= NumCases

Skip ==
    /\ proc.pc = "case" /\ Remaining
    /\ proc.next \in proc.completed
    /\ proc' = [proc EXCEPT !.next = @ + 1]
    /\ UNCHANGED <<planFile, raw, runs, outputs, outcome, stops>>

\* A finished run whose row was lost gives the row back.
Recover ==
    /\ proc.pc = "case" /\ Remaining
    /\ proc.next \notin proc.completed
    /\ proc.resume
    /\ \E i \in Recoverable(proc.plan, proc.next) :
            proc' = [proc EXCEPT !.pc = "append", !.run = i]
    /\ UNCHANGED <<planFile, raw, runs, outputs, outcome, stops>>

Evaluate ==
    /\ proc.pc = "case" /\ Remaining
    /\ proc.next \notin proc.completed
    /\ proc.resume => Recoverable(proc.plan, proc.next) = {}
    /\ runs' = Append(runs, [plan |-> proc.plan, case |-> proc.next, status |-> "RUNNING"])
    /\ proc' = [proc EXCEPT !.pc = "running", !.run = Len(runs')]
    /\ UNCHANGED <<planFile, raw, outputs, outcome, stops>>

Finish ==
    /\ proc.pc = "running"
    /\ runs' = [runs EXCEPT ![proc.run].status = "FINISHED"]
    /\ proc' = [proc EXCEPT !.pc = "append"]
    /\ UNCHANGED <<planFile, raw, outputs, outcome, stops>>

AppendRow ==
    /\ proc.pc = "append"
    /\ raw' = WithRow(raw, RowToAppend)
    /\ proc' = [proc EXCEPT !.pc = "case", !.completed = @ \cup {proc.next},
                            !.next = @ + 1, !.run = 0]
    /\ UNCHANGED <<planFile, runs, outputs, outcome, stops>>

Return ==
    /\ proc.pc = "case" /\ ~Remaining
    /\ outputs' = RowsOf(proc.plan)
    /\ outcome' = "returned"
    /\ proc' = Idle
    /\ UNCHANGED <<planFile, raw, runs, stops>>

\* The invocation is stopped: by an exception or an interrupt, which end its
\* MLflow run, or by a crash, which does not.
Stop(status) ==
    /\ proc.pc # "idle" /\ stops < MaxStops
    /\ stops' = stops + 1
    /\ outcome' = "stopped"
    /\ proc' = Idle
    /\ runs' = IF proc.pc = "running" THEN [runs EXCEPT ![proc.run].status = status] ELSE runs
    /\ raw' \in CASE proc.pc = "append"  -> Interrupted(raw, RowToAppend)
                  [] proc.pc = "rewrite" ->
                        [exists : {TRUE}, tail : {"clean", "partial"},
                         rows : {SubSeq(proc.kept, 1, k) : k \in 0 .. Len(proc.kept)}]
                  [] OTHER -> {raw}
    /\ UNCHANGED <<planFile, outputs>>

\* The summarize command, on whatever rows there are.
Summarize ==
    /\ proc.pc = "idle" /\ planFile # NoPlan
    /\ outputs' = IF RowsOf(planFile) = <<>> THEN outputs ELSE RowsOf(planFile)
    /\ UNCHANGED <<planFile, raw, runs, proc, outcome, stops>>

\* The user deletes the plan file.
RemovePlan ==
    /\ planFile \in Removable /\ proc.pc = "idle"
    /\ planFile' = NoPlan
    /\ UNCHANGED <<raw, runs, outputs, proc, outcome, stops>>

Work == Repair \/ Rewrite \/ Scan \/ Skip \/ Recover \/ Evaluate \/ Finish
            \/ AppendRow \/ Return

Next ==
    \/ \E plan \in Plans, resume \in BOOLEAN : Invoke(plan, resume)
    \/ Work
    \/ \E status \in {"RUNNING", "FAILED", "KILLED"} : Stop(status)
    \/ Summarize
    \/ RemovePlan

Spec == Init /\ [][Next]_vars

\* An invocation makes progress, and whoever started a plan resumes it.
Resumed == \E plan \in Plans : planFile = plan /\ Invoke(plan, TRUE)
FairSpec == Spec /\ WF_vars(Work) /\ WF_vars(Resumed)

-----------------------------------------------------------------------------
Invocation ==
    [pc : {"idle", "repair", "rewrite", "scan", "case", "running", "append"},
     plan : Plans \cup {NoPlan}, resume : BOOLEAN, completed : SUBSET Cases,
     next : 1 .. NumCases + 1, run : Nat, kept : Seq(Row)]

\* Every variable in its type.
TypeOK ==
    /\ planFile \in Plans \cup {NoPlan}
    /\ raw \in RawFile
    /\ runs \in Seq(Run)
    /\ outputs \in Seq(Row)
    /\ proc \in Invocation
    /\ proc.run \in 0 .. Len(runs)
    /\ stops \in 0 .. MaxStops

\* "No case is counted twice", and none is passed over: the rows are the first
\* cases of the plan, in order, wherever the run was stopped.
RowsInPlanOrder == \A i \in DOMAIN raw.rows : raw.rows[i].case = i

\* A row comes from an MLflow run of its case that finished.
RowsFromFinishedRuns ==
    \A i \in DOMAIN raw.rows :
        LET row == raw.rows[i]
        IN  runs[row.run] = [plan |-> row.plan, case |-> row.case, status |-> "FINISHED"]

\* A directory holds the results of one plan, the one its plan file names.
OnePlanPerDirectory ==
    \A i \in DOMAIN raw.rows :
        /\ raw.rows[i].plan = raw.rows[1].plan
        /\ planFile # NoPlan => raw.rows[i].plan = planFile

\* A case whose run finished is recovered, not run again, if nobody deletes its
\* plan, whatever became of other plans in the directory before.
FinishedOnce ==
    \A i, j \in DOMAIN runs :
        (/\ runs[i].status = "FINISHED" /\ runs[j].status = "FINISHED"
         /\ runs[i].plan = runs[j].plan /\ runs[i].case = runs[j].case
         /\ runs[i].plan \notin Removable) => i = j

\* A plan that was begun, and is not deleted, is completed if it is resumed after
\* every stop: what run_plan returns and summarizes is every case once.
EventuallyComplete ==
    \A plan \in Plans \ Removable :
        planFile = plan ~> /\ outcome = "returned"
                           /\ Len(outputs) = NumCases
                           /\ \A i \in DOMAIN outputs : outputs[i].case = i
=============================================================================
