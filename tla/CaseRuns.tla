------------------------------ MODULE CaseRuns ------------------------------
(***************************************************************************)
(* What the frozen experiments share: a definition that is built by the    *)
(* code and committed as a file, external inputs, a raw file of rows, the  *)
(* tracked runs, and the user, who edits, commits, exchanges inputs and    *)
(* stops commands. Each experiment's commands are in a module of its own.  *)
(*                                                                         *)
(* Durable: the checkout and its commits, the files, the tracked runs.     *)
(* Volatile: the commands. A command is stopped by a signal anywhere, and  *)
(* an error of its own ends it in the same way.                            *)
(***************************************************************************)
EXTENDS Integers, FiniteSets, SequencesExt

CONSTANTS
    Experiments,        \* the experiments to run, one per behaviour
    Definitions,        \* what the code may define an experiment to be
    Tried(_),           \* those that the user of an experiment edits the code to
    TraceVersions,      \* versions of the external workload data
    Measured(_, _),     \* what an episode of a case measures on a trace version
    SplitOf,            \* the split of each development workload
    MaxChanges          \* bounds the model: edits, exchanged inputs and stops

ASSUME CaseRunsConfig ==
    /\ Definitions # {} /\ TraceVersions # {}
    /\ MaxChanges \in Nat

VARIABLES
    experiment,     \* the experiment of this behaviour
    tree,           \* the checkout: commit, uncommitted edits, code, frozen spec file
    commits,        \* the commits, each with its code and its frozen spec file
    inputs,         \* the version of what results depend on and no definition fixes:
                    \* the external workload data, or the simulator's own code
    raw,            \* raw-results.jsonl: its rows and its last line
    runs,           \* the tracked runs, in order of creation
    files,          \* the files beside it: forecast records, training evidence,
                    \* selections, temporary files not yet renamed, manifests
    proc,           \* the serial command that evaluates cases
    jobs,           \* the commands that may run in parallel
    frozen,         \* the result artifact
    changes         \* what the user changed so far

vars == <<experiment, tree, commits, inputs, raw, runs, files, proc, jobs, frozen, changes>>

world == <<experiment, tree, commits, inputs>>

EmptyFile == [rows |-> <<>>, tail |-> "clean"]
NoRow == [case |-> [kind |-> "none"]]
NoResult == [experiment |-> "none"]
Idle == [pc |-> "idle", spec |-> 0, sha |-> 0, input |-> 0, run |-> 0, row |-> NoRow,
         at |-> 1, pending |-> <<>>, freezing |-> FALSE, command |-> "", models |-> {}]
NoFiles == [records |-> EmptyFile, evidence |-> {}, chosen |-> <<>>, temps |-> {},
            manifests |-> <<>>]
Stopped == proc' = Idle
Without(f, name) == [x \in DOMAIN f \ {name} |-> f[x]]
Having(f, name, value) ==
    [x \in DOMAIN f \cup {name} |-> IF x = name THEN value ELSE f[x]]

-----------------------------------------------------------------------------
(* The raw file, shared by every runner (multiseed).                       *)
\* A last line that does not end with a newline is dropped.
Repaired(file) ==
    [rows |-> IF file.tail = "unended" THEN Front(file.rows) ELSE file.rows,
     tail |-> "clean"]

\* A stop in the middle of the repair: the file is truncated before it is written.
RepairOutcomes(file) ==
    IF file.tail = "clean" THEN {file} ELSE {file, EmptyFile, Repaired(file)}

Appended(file, row) == [rows |-> Append(file.rows, row), tail |-> "clean"]

\* A stop in the middle of an append.
AppendOutcomes(file, row) ==
    {file, [file EXCEPT !.tail = "partial"],
     [rows |-> Append(file.rows, row), tail |-> "unended"], Appended(file, row)}

\* The rows that can be read; partial lines are skipped.
RowsOf(spec) == SelectSeq(raw.rows, LAMBDA row : row.spec = spec)

\* The cases that have a row of this definition.
CasesWithRow(spec) == {row.case : row \in {r \in ToSet(raw.rows) : r.spec = spec}}

\* Cases are done in the order of the plan: the place of the next one, if any.
NextPlaces(plan, done) ==
    LET missing == {i \in DOMAIN plan : plan[i] \notin done}
    IN  {i \in missing : \A j \in missing : i <= j}
AllDone(plan, done) == NextPlaces(plan, done) = {}
NextOf(plan, done) == plan[CHOOSE i \in NextPlaces(plan, done) : TRUE]

-----------------------------------------------------------------------------
(* Tracked runs. The checkout is recorded by the run itself when it opens. *)
OpenedRun(case, spec, input) ==
    [case |-> case, spec |-> spec, input |-> input, sha |-> tree.sha, dirty |-> tree.dirty,
     tagged |-> FALSE, status |-> "RUNNING", row |-> NoRow]

\* The finished runs tagged as this case of this definition on these inputs.
FinishedRuns(case, spec, input) ==
    {i \in DOMAIN runs : /\ runs[i].tagged /\ runs[i].status = "FINISHED"
                         /\ runs[i].case = case /\ runs[i].spec = spec
                         /\ runs[i].input = input}

Tagged(i) == [runs EXCEPT ![i].tagged = TRUE]
FinishedWith(i, row) == [runs EXCEPT ![i].status = "FINISHED", ![i].row = row]

\* Every row was produced by the finished run it names, which evaluated this
\* case of this definition on the inputs the row records, and no case has two rows.
\* (Rows of the action-contract experiment record no inputs: their field is 0.)
RowBacked(row) ==
    /\ row.run \in DOMAIN runs
    /\ runs[row.run].status = "FINISHED" /\ runs[row.run].tagged
    /\ runs[row.run].case = row.case
    /\ runs[row.run].spec = row.spec
    /\ runs[row.run].input = row.input

RowsTellTheirRuns ==
    /\ \A i \in DOMAIN raw.rows : RowBacked(raw.rows[i])
    /\ \A i, j \in DOMAIN raw.rows :
        i # j => \/ raw.rows[i].case # raw.rows[j].case
                 \/ raw.rows[i].spec # raw.rows[j].spec

-----------------------------------------------------------------------------
(* The user.                                                               *)
Init ==
    /\ experiment \in Experiments
    /\ tree = [sha |-> 1, dirty |-> FALSE, code |-> 1, file |-> 1]
    /\ commits = <<[code |-> 1, file |-> 1]>>
    /\ inputs = 1
    /\ raw = EmptyFile
    /\ runs = <<>>
    /\ files = NoFiles
    /\ proc = Idle
    /\ jobs = <<>>
    /\ frozen = NoResult
    /\ changes = 0

\* Bounds the model: nothing changes any more once a result is frozen.
Change == changes < MaxChanges /\ frozen = NoResult /\ changes' = changes + 1

\* The code is edited, perhaps the experiment's definition in it.
Edit(definition) ==
    /\ ~tree.dirty \/ tree.code # definition
    /\ Change
    /\ tree' = [tree EXCEPT !.dirty = TRUE, !.code = definition]
    /\ UNCHANGED <<experiment, commits, inputs, raw, runs, files, proc, jobs, frozen>>

Commit ==
    /\ tree.dirty
    /\ commits' = Append(commits, [code |-> tree.code, file |-> tree.file])
    /\ tree' = [tree EXCEPT !.sha = Len(commits) + 1, !.dirty = FALSE]
    /\ UNCHANGED <<experiment, inputs, raw, runs, files, proc, jobs, frozen, changes>>

\* Uncommitted edits are dropped, or another commit is checked out.
Checkout(sha) ==
    /\ sha = tree.sha => tree.dirty
    /\ sha # tree.sha => ~tree.dirty
    /\ Change
    /\ tree' = [sha |-> sha, dirty |-> FALSE,
                code |-> commits[sha].code, file |-> commits[sha].file]
    /\ UNCHANGED <<experiment, commits, inputs, raw, runs, files, proc, jobs, frozen>>

\* The "spec" command: the file becomes what this code builds.
WriteSpec ==
    /\ tree.file # tree.code
    /\ tree' = [tree EXCEPT !.file = tree.code, !.dirty = TRUE]
    /\ UNCHANGED <<experiment, commits, inputs, raw, runs, files, proc, jobs, frozen, changes>>

ExchangeInputs(version) ==
    /\ version # inputs
    /\ Change
    /\ inputs' = version
    /\ UNCHANGED <<experiment, tree, commits, raw, runs, files, proc, jobs, frozen>>

\* The serial command is stopped: its run never finishes (whether it stays open or
\* is closed as failed makes no difference), and the write it was in the middle of
\* may be half done.
Kill ==
    /\ proc.pc # "idle"
    /\ Change
    /\ Stopped
    /\ raw' \in CASE proc.pc = "repair" -> RepairOutcomes(raw)
                  [] proc.pc = "append" -> AppendOutcomes(raw, proc.row)
                  [] OTHER -> {raw}
    /\ runs' = [i \in DOMAIN runs |->
                    IF i = proc.run /\ runs[i].status = "RUNNING"
                    THEN [runs[i] EXCEPT !.status = "STOPPED"] ELSE runs[i]]
    /\ files' \in CASE proc.pc = "records" /\ proc.pending # <<>> ->
                        {[files EXCEPT !.records = file] :
                            file \in AppendOutcomes(files.records, Head(proc.pending))}
                    [] proc.pc = "repair records" ->
                        {[files EXCEPT !.records = file] :
                            file \in RepairOutcomes(files.records)}
                    [] OTHER -> {files}
    /\ UNCHANGED <<experiment, tree, commits, inputs, jobs, frozen>>

\* One of the parallel commands is stopped; what it had not saved is lost.
KillJob(name) ==
    /\ Change
    /\ jobs' = Without(jobs, name)
    /\ UNCHANGED <<experiment, tree, commits, inputs, raw, runs, files, proc, frozen>>

\* Between commands the user removes an evidence file, to have it made again.
Discard(evidence) ==
    /\ proc = Idle /\ DOMAIN jobs = {}
    /\ Change
    /\ files' = [files EXCEPT !.evidence = @ \ {evidence}]
    /\ UNCHANGED <<experiment, tree, commits, inputs, raw, runs, proc, jobs, frozen>>

UserChanges ==
    \/ \E definition \in Tried(experiment) : Edit(definition)
    \/ WriteSpec
    \/ \E version \in TraceVersions : ExchangeInputs(version)
    \/ Kill
    \/ \E name \in DOMAIN jobs : KillJob(name)
    \/ \E evidence \in files.evidence : Discard(evidence)

\* Bounds the model: only the held-out evaluation looks at commits.
GitChanges ==
    \/ Commit
    \/ \E sha \in DOMAIN commits : Checkout(sha)
=============================================================================
