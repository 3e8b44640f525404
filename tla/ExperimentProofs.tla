-------------------------- MODULE ExperimentProofs --------------------------
(***************************************************************************)
(* What the frozen experiments keep for every matrix of cases, every code, *)
(* every history of inputs, and wherever their commands are stopped.       *)
(***************************************************************************)
EXTENDS AllExperiments, SequenceTheorems, FiniteSetTheorems, TLAPS

-----------------------------------------------------------------------------
(* The inductive invariant.                                                *)
IsSequence(s) == Len(s) \in Nat /\ s = [k \in 1 .. Len(s) |-> s[k]]
HasFields(r, fields) == r = [f \in fields |-> r[f]]

RunFields == {"case", "spec", "input", "sha", "dirty", "tagged", "status", "row"}
ProcFields == {"pc", "spec", "sha", "input", "run", "row", "at", "pending", "freezing",
               "command", "models"}
FileFields == {"records", "evidence", "chosen", "temps", "manifests"}

Shapes ==
    /\ HasFields(raw, {"rows", "tail"}) /\ IsSequence(raw.rows)
    /\ IsSequence(runs) /\ \A i \in 1 .. Len(runs) : HasFields(runs[i], RunFields)
    /\ HasFields(proc, ProcFields)

\* What the command at work evaluates, and on what, by the experiment.
DueCase ==
    CASE experiment = "heldout" -> HeldoutDue
      [] experiment = "startup" -> StartupDue
      [] experiment = "baseline" -> BaselineCase
      [] OTHER -> ActionCase.case
DueInput ==
    CASE experiment = "heldout" -> InputOf(SpecOf(proc), DueCase)
      [] experiment = "startup" -> StartupInput(DueCase, proc.input)
      [] experiment = "baseline" -> BaselineInput(DueCase, proc.input)
      [] OTHER -> 0

\* The run that is being evaluated is one of the due case, which has no row yet.
RunIsDue ==
    /\ proc.run \in DOMAIN runs
    /\ runs[proc.run].status = "RUNNING"
    /\ runs[proc.run].case = DueCase
    /\ runs[proc.run].spec = proc.spec
    /\ runs[proc.run].input = DueInput
    /\ DueCase \notin CasesWithRow(proc.spec)

\* A row about to be appended is backed by its run, and its case has none.
RowIsNew(row) == RowBacked(row) /\ row.case \notin CasesWithRow(row.spec)

ProcInv ==
    /\ proc.pc = "rename" => proc.command \in {"select", "evaluate", "decide"}
    /\ proc.pc = "open" /\ experiment = "heldout" => ~HeldoutOver
    /\ proc.pc \in {"evaluate", "record"} => RunIsDue
    /\ proc.pc = "record" => runs[proc.run].tagged
    /\ proc.pc = "record" /\ experiment = "heldout" =>
            proc.row = HeldoutRow(SpecOf(proc), DueCase, proc.run)
    /\ proc.pc = "append" \/ (proc.pc = "records" /\ proc.row # NoRow) => RowIsNew(proc.row)

EvidenceInv == Shapes /\ ProcInv /\ RowsTellTheirRuns

\* The temporary file of a command that has not renamed it is there.
LaunchInv ==
    /\ HasFields(files, FileFields)
    /\ experiment = "reward" =>
        /\ jobs = [r \in DOMAIN jobs |-> jobs[r]]
        /\ \A r \in DOMAIN jobs :
            /\ "pc" \in DOMAIN jobs[r] /\ jobs[r] = [f \in DOMAIN jobs[r] |-> jobs[r][f]]
            /\ jobs[r].pc = "rename" => TempFile(r) \in files.temps
-----------------------------------------------------------------------------
(* Sequences of whatever.                                                  *)
LEMMA Enumerated ==
    ASSUME NEW n \in Nat, NEW f, f = [k \in 1 .. n |-> f[k]]
    PROVE  IsSequence(f) /\ Len(f) = n /\ DOMAIN f = 1 .. n /\ \E S : f \in Seq(S)
<1>1. PICK S : S = {f[k] : k \in 1 .. n}
    OBVIOUS
<1>2. \A k \in 1 .. n : f[k] \in S
    BY <1>1
<1>3. f \in Seq(S) /\ Len(f) = n
    <2>1. f \in [1 .. n -> S]
        BY <1>2
    <2> QED BY <2>1
<1> QED BY <1>3 DEF IsSequence

LEMMA Longer ==
    ASSUME NEW s, IsSequence(s), NEW e
    PROVE  /\ IsSequence(Append(s, e)) /\ Len(Append(s, e)) = Len(s) + 1
           /\ Append(s, e)[Len(s) + 1] = e
           /\ \A k \in 1 .. Len(s) : Append(s, e)[k] = s[k]
<1>1. PICK S : s \in Seq(S)
    BY Enumerated DEF IsSequence
<1>2. s \in Seq(S \cup {e}) /\ e \in S \cup {e}
    BY <1>1
<1> DEFINE t == Append(s, e)
<1>3. t \in Seq(S \cup {e}) /\ Len(t) = Len(s) + 1
    BY <1>2
<1>4. t[Len(s) + 1] = e /\ \A k \in 1 .. Len(s) : t[k] = s[k]
    BY <1>2
<1> HIDE DEF t
<1>5. t = [k \in 1 .. Len(t) |-> t[k]] /\ Len(t) \in Nat
    BY <1>3
<1> QED BY <1>3, <1>4, <1>5 DEF IsSequence, t

LEMMA Shorter ==
    ASSUME NEW s, IsSequence(s)
    PROVE  /\ IsSequence(Front(s)) /\ Len(Front(s)) <= Len(s)
           /\ \A k \in 1 .. Len(Front(s)) : Front(s)[k] = s[k]
<1>1. PICK S : s \in Seq(S)
    BY Enumerated DEF IsSequence
<1>2. PICK n \in Nat : n = Len(s)
    BY <1>1
<1>3. Front(s) = [k \in 1 .. n - 1 |-> s[k]]
    BY <1>1, <1>2 DEF Front
<1>4. PICK m \in Nat : 1 .. n - 1 = 1 .. m /\ m <= n
    <2>1. CASE n = 0
        BY <2>1
    <2>2. CASE n # 0
        BY <1>2, <2>2
    <2> QED BY <2>1, <2>2
<1>5. Front(s) = [k \in 1 .. m |-> Front(s)[k]]
    BY <1>3, <1>4
<1>6. IsSequence(Front(s)) /\ Len(Front(s)) = m
    BY <1>5, Enumerated
<1> QED BY <1>2, <1>3, <1>4, <1>6

LEMMA EmptySequence == IsSequence(<<>>) /\ Len(<<>>) = 0 /\ DOMAIN <<>> = 1 .. 0
<1>1. DOMAIN <<>> = 1 .. 0 /\ Len(<<>>) = 0
    OBVIOUS
<1>2. <<>> = [k \in 1 .. 0 |-> <<>>[k]]
    BY <1>1
<1> QED BY <1>1, <1>2 DEF IsSequence

LEMMA Indices == ASSUME NEW s, IsSequence(s) PROVE DOMAIN s = 1 .. Len(s)
BY DEF IsSequence

-----------------------------------------------------------------------------
(* Rows and runs.                                                          *)
LEMMA WithRow ==
    ASSUME NEW spec
    PROVE  \A case : case \in CasesWithRow(spec) <=>
                \E i \in DOMAIN raw.rows : raw.rows[i].spec = spec /\ raw.rows[i].case = case
BY DEF CasesWithRow, ToSet

\* A finished run stays as it is.
FinishedStay ==
    \A i \in DOMAIN runs :
        runs[i].status = "FINISHED" => i \in DOMAIN runs' /\ runs'[i] = runs[i]

BackedIn(row, rs) ==
    /\ row.run \in DOMAIN rs
    /\ rs[row.run].status = "FINISHED" /\ rs[row.run].tagged
    /\ rs[row.run].case = row.case
    /\ rs[row.run].spec = row.spec
    /\ rs[row.run].input = row.input

LEMMA BackedStays ==
    ASSUME FinishedStay
    PROVE  \A row : RowBacked(row) => BackedIn(row, runs')
BY DEF FinishedStay, RowBacked, BackedIn

\* What remains of the rows still tells its runs.
LEMMA RowsRemain ==
    ASSUME RowsTellTheirRuns, IsSequence(raw.rows), FinishedStay, IsSequence(raw.rows)',
           Len(raw.rows') <= Len(raw.rows),
           \A k \in 1 .. Len(raw.rows') : raw.rows'[k] = raw.rows[k]
    PROVE  RowsTellTheirRuns'
<1> DEFINE old == raw.rows
           new == raw.rows'
<1>1. /\ DOMAIN new = 1 .. Len(new) /\ DOMAIN old = 1 .. Len(old)
      /\ Len(new) \in Nat /\ Len(old) \in Nat
    BY DEF IsSequence
<1>2. \A i \in DOMAIN new : i \in DOMAIN old /\ new[i] = old[i]
    BY <1>1
<1>3. \A i \in DOMAIN new : BackedIn(new[i], runs')
    BY <1>2, BackedStays DEF RowsTellTheirRuns
<1>4. \A i, j \in DOMAIN new : i # j => new[i].case # new[j].case \/ new[i].spec # new[j].spec
    BY <1>2 DEF RowsTellTheirRuns
<1> QED BY <1>3, <1>4 DEF RowsTellTheirRuns, RowBacked, BackedIn

\* A new row of a case without one may be added.
LEMMA RowAdded ==
    ASSUME RowsTellTheirRuns, IsSequence(raw.rows), FinishedStay, NEW row, RowIsNew(row),
           raw.rows' = Append(raw.rows, row)
    PROVE  RowsTellTheirRuns' /\ IsSequence(raw.rows')
<1> DEFINE old == raw.rows
           new == raw.rows'
<1>1. PICK n \in Nat : /\ n = Len(old) /\ DOMAIN old = 1 .. n
                       /\ DOMAIN new = 1 .. n + 1 /\ IsSequence(new)
                       /\ new[n + 1] = row /\ \A k \in 1 .. n : new[k] = old[k]
    <2>1. /\ IsSequence(new) /\ Len(new) = Len(old) + 1 /\ Len(old) \in Nat
          /\ new[Len(old) + 1] = row /\ \A k \in 1 .. Len(old) : new[k] = old[k]
        BY Longer DEF IsSequence
    <2> QED BY <2>1, Indices
<1>2. \A i \in DOMAIN new : i # n + 1 => i \in DOMAIN old /\ new[i] = old[i]
    BY <1>1
<1>3. \A i \in DOMAIN new : BackedIn(new[i], runs')
    BY <1>1, <1>2, BackedStays DEF RowsTellTheirRuns, RowIsNew
<1>4. \A i \in DOMAIN old : old[i].case # row.case \/ old[i].spec # row.spec
    BY WithRow DEF RowIsNew
<1>5. \A i, j \in DOMAIN new : i # j => new[i].case # new[j].case \/ new[i].spec # new[j].spec
    <2> SUFFICES ASSUME NEW i \in DOMAIN new, NEW j \in DOMAIN new, i # j
                 PROVE  new[i].case # new[j].case \/ new[i].spec # new[j].spec
        OBVIOUS
    <2>1. CASE i = n + 1
        BY <1>1, <1>2, <1>4, <2>1
    <2>2. CASE j = n + 1
        BY <1>1, <1>2, <1>4, <2>2
    <2>3. CASE i # n + 1 /\ j # n + 1
        BY <1>2, <2>3 DEF RowsTellTheirRuns
    <2> QED BY <2>1, <2>2, <2>3
<1> QED BY <1>1, <1>3, <1>5 DEF RowsTellTheirRuns, RowBacked, BackedIn

-----------------------------------------------------------------------------
(* Steps of a command.                                                     *)
Loud == {"rename", "open", "evaluate", "record", "append", "records"}

RunsShaped == IsSequence(runs) /\ \A i \in 1 .. Len(runs) : HasFields(runs[i], RunFields)

\* The command works on the same case before and after.
SameCase ==
    /\ experiment' = experiment /\ raw' = raw
    /\ proc'.spec = proc.spec /\ proc'.at = proc.at /\ proc'.models = proc.models
    /\ proc'.input = proc.input /\ proc'.sha = proc.sha

LEMMA DueStays ==
    ASSUME SameCase
    PROVE  /\ DueCase' = DueCase /\ DueInput' = DueInput /\ HeldoutOver' = HeldoutOver
           /\ \A spec : CasesWithRow(spec)' = CasesWithRow(spec)
<1>1. \A spec : CasesWithRow(spec)' = CasesWithRow(spec)
    BY DEF SameCase, CasesWithRow
<1>2. CasesDone' = CasesDone /\ StartupDone' = StartupDone
    BY DEF SameCase, CasesDone, StartupDone, CasesWithRow
<1>3. HeldoutOver' = HeldoutOver /\ HeldoutDue' = HeldoutDue
    BY <1>2 DEF SameCase, HeldoutOver, HeldoutDue
<1>4. StartupDue' = StartupDue
    BY <1>2 DEF SameCase, StartupDue
<1>5. BaselineCase' = BaselineCase
    BY DEF SameCase, BaselineCase, BaselinePlan
<1>6. ActionCase' = ActionCase
    BY DEF SameCase, ActionCase, ActionPlanned
<1>7. DueCase' = DueCase
    BY <1>3, <1>4, <1>5, <1>6 DEF SameCase, DueCase
<1>8. DueInput' = DueInput
    BY <1>7 DEF SameCase, DueInput, InputOf, SpecOf
<1> QED BY <1>1, <1>3, <1>7, <1>8

\* Nothing that the invariant is about changes.
LEMMA Frame ==
    ASSUME EvidenceInv, experiment' = experiment, raw' = raw, runs' = runs, proc' = proc
    PROVE  EvidenceInv'
<1>1. /\ DueCase' = DueCase /\ DueInput' = DueInput /\ HeldoutOver' = HeldoutOver
      /\ \A spec : CasesWithRow(spec)' = CasesWithRow(spec)
    BY DueStays DEF SameCase
<1>2. \A row : RowBacked(row) => RowBacked(row)'
    BY DEF RowBacked
<1>3. Shapes'
    BY DEF EvidenceInv, Shapes
<1>4. RunIsDue => RunIsDue'
    BY <1>1 DEF RunIsDue
<1>5. RowIsNew(proc.row) => RowIsNew(proc.row)'
    BY <1>1, <1>2 DEF RowIsNew
<1>6. HeldoutRow(SpecOf(proc), DueCase, proc.run)' = HeldoutRow(SpecOf(proc), DueCase, proc.run)
    BY <1>1 DEF HeldoutRow, SpecOf
<1>7. ProcInv'
    BY <1>1, <1>4, <1>5, <1>6 DEF EvidenceInv, ProcInv
<1>8. RowsTellTheirRuns'
    BY DEF EvidenceInv, RowsTellTheirRuns, RowBacked
<1> QED BY <1>3, <1>7, <1>8 DEF EvidenceInv

\* The raw file after a step that appends nothing.
Trimmed(new, old) ==
    /\ HasFields(new, {"rows", "tail"}) /\ IsSequence(new.rows)
    /\ Len(new.rows) <= Len(old.rows)
    /\ \A k \in 1 .. Len(new.rows) : new.rows[k] = old.rows[k]

LEMMA SameIsTrimmed == ASSUME EvidenceInv PROVE Trimmed(raw, raw)
BY DEF EvidenceInv, Shapes, Trimmed, IsSequence

LEMMA RepairedIsTrimmed == ASSUME EvidenceInv PROVE Trimmed(Repaired(raw), raw)
<1>1. IsSequence(raw.rows)
    BY DEF EvidenceInv, Shapes
<1>2. PICK rows : rows = IF raw.tail = "unended" THEN Front(raw.rows) ELSE raw.rows
    OBVIOUS
<1>3. /\ IsSequence(rows) /\ Len(rows) <= Len(raw.rows)
      /\ \A k \in 1 .. Len(rows) : rows[k] = raw.rows[k]
    BY <1>1, <1>2, Shorter DEF IsSequence
<1> QED BY <1>2, <1>3 DEF Trimmed, Repaired, HasFields

LEMMA EmptyIsTrimmed == ASSUME EvidenceInv PROVE Trimmed(EmptyFile, raw)
<1>1. IsSequence(raw.rows)
    BY DEF EvidenceInv, Shapes
<1>2. EmptyFile.rows = <<>> /\ HasFields(EmptyFile, {"rows", "tail"})
    BY DEF EmptyFile, HasFields
<1> QED BY <1>1, <1>2, EmptySequence DEF Trimmed, IsSequence

\* The runs are as they were.
LEMMA RunsStay ==
    ASSUME EvidenceInv, runs' = runs
    PROVE  FinishedStay /\ RunsShaped'
BY DEF EvidenceInv, Shapes, FinishedStay, RunsShaped

\* A step after which the command is about to do something that needs nothing.
LEMMA Quiet ==
    ASSUME EvidenceInv, Trimmed(raw', raw), FinishedStay, RunsShaped',
           HasFields(proc', ProcFields), proc'.pc \notin Loud
    PROVE  EvidenceInv'
<1>1. Shapes'
    BY DEF Shapes, RunsShaped, Trimmed
<1>2. ProcInv'
    BY DEF ProcInv, Loud
<1>3. RowsTellTheirRuns'
    BY RowsRemain DEF EvidenceInv, Shapes, Trimmed
<1> QED BY <1>1, <1>2, <1>3 DEF EvidenceInv

\* A command ends.
LEMMA IdleIsQuiet == HasFields(Idle, ProcFields) /\ Idle.pc \notin Loud
BY DEF Idle, HasFields, ProcFields, Loud

LEMMA Ends ==
    ASSUME EvidenceInv, Trimmed(raw', raw), runs' = runs, Stopped
    PROVE  EvidenceInv'
BY RunsStay, Quiet, IdleIsQuiet DEF Stopped

\* A run is opened for the due case.
LEMMA RunOpened ==
    ASSUME EvidenceInv, SameCase, DueCase \notin CasesWithRow(proc.spec), proc'.run = Len(runs) + 1,
           HasFields(proc', ProcFields), proc'.pc = "evaluate",
           runs' = Append(runs, OpenedRun(DueCase, proc.spec, DueInput))
    PROVE  EvidenceInv'
<1> DEFINE opened == OpenedRun(DueCase, proc.spec, DueInput)
<1>1. /\ opened.status = "RUNNING" /\ opened.case = DueCase /\ opened.spec = proc.spec
      /\ opened.input = DueInput /\ HasFields(opened, RunFields)
    BY DEF OpenedRun, HasFields, RunFields
<1>2. /\ DueCase' = DueCase /\ DueInput' = DueInput
      /\ CasesWithRow(proc.spec)' = CasesWithRow(proc.spec)
    BY DueStays DEF SameCase, CasesWithRow
<1> HIDE DEF opened
<1>3. PICK n \in Nat : /\ Len(runs) = n /\ DOMAIN runs = 1 .. n
                       /\ IsSequence(runs') /\ Len(runs') = n + 1 /\ DOMAIN runs' = 1 .. n + 1
                       /\ runs'[n + 1] = opened /\ \A i \in 1 .. n : runs'[i] = runs[i]
    <2>1. IsSequence(runs) /\ runs' = Append(runs, opened)
        BY DEF EvidenceInv, Shapes, opened
    <2>2. /\ IsSequence(runs') /\ Len(runs') = Len(runs) + 1 /\ Len(runs) \in Nat
          /\ runs'[Len(runs) + 1] = opened /\ \A i \in 1 .. Len(runs) : runs'[i] = runs[i]
        BY <2>1, Longer DEF IsSequence
    <2> QED BY <2>1, <2>2, Indices
<1>4. FinishedStay
    BY <1>3 DEF FinishedStay
<1>5. RunsShaped'
    BY <1>1, <1>3 DEF RunsShaped, EvidenceInv, Shapes
<1>6. Shapes'
    BY <1>5 DEF Shapes, RunsShaped, SameCase, EvidenceInv
<1>7. RunIsDue'
    BY <1>1, <1>2, <1>3 DEF RunIsDue, SameCase
<1>8. ProcInv'
    BY <1>7 DEF ProcInv
<1>9. RowsTellTheirRuns'
    BY <1>4, SameIsTrimmed, RowsRemain DEF EvidenceInv, Shapes, SameCase, Trimmed
<1> QED BY <1>6, <1>8, <1>9 DEF EvidenceInv

\* The run of the due case is tagged.
LEMMA RunTagged ==
    ASSUME EvidenceInv, SameCase, proc.pc = "evaluate", runs' = Tagged(proc.run),
           HasFields(proc', ProcFields), proc'.pc = "record", proc'.run = proc.run,
           experiment = "heldout" => proc'.row = HeldoutRow(SpecOf(proc), DueCase, proc.run)
    PROVE  EvidenceInv'
<1>1. RunIsDue
    BY DEF EvidenceInv, ProcInv
<1>2. /\ DueCase' = DueCase /\ DueInput' = DueInput
      /\ CasesWithRow(proc.spec)' = CasesWithRow(proc.spec)
    BY DueStays DEF SameCase, CasesWithRow
<1>3. PICK n \in Nat : /\ Len(runs) = n /\ DOMAIN runs = 1 .. n
                       /\ runs = [i \in 1 .. n |-> runs[i]]
                       /\ \A i \in 1 .. n : HasFields(runs[i], RunFields)
    BY DEF EvidenceInv, Shapes, IsSequence
<1>4. PICK run \in 1 .. n : run = proc.run
    BY <1>1, <1>3 DEF RunIsDue
<1>5. PICK tagged : tagged = [runs[run] EXCEPT !.tagged = TRUE]
    OBVIOUS
<1>6. /\ HasFields(tagged, RunFields) /\ tagged.tagged /\ tagged.status = runs[run].status
      /\ tagged.case = runs[run].case /\ tagged.spec = runs[run].spec
      /\ tagged.input = runs[run].input
    <2>1. HasFields(runs[run], RunFields)
        BY <1>3
    <2> QED BY <1>5, <2>1 DEF HasFields, RunFields
<1>7. /\ runs' = [i \in 1 .. n |-> runs'[i]] /\ runs'[run] = tagged
      /\ \A i \in 1 .. n : i # run => runs'[i] = runs[i]
    BY <1>3, <1>4, <1>5 DEF Tagged
<1>8. IsSequence(runs') /\ Len(runs') = n /\ DOMAIN runs' = 1 .. n
    BY <1>7, Enumerated
<1>9. FinishedStay
    BY <1>1, <1>3, <1>4, <1>7, <1>8 DEF FinishedStay, RunIsDue
<1>10. Shapes'
    BY <1>3, <1>6, <1>7, <1>8 DEF Shapes, SameCase, EvidenceInv
<1>11. RunIsDue'
    BY <1>1, <1>2, <1>4, <1>6, <1>7, <1>8 DEF RunIsDue, SameCase
<1>12. (proc.row = HeldoutRow(SpecOf(proc), DueCase, proc.run))' <=> proc'.row = HeldoutRow(SpecOf(proc), DueCase, proc.run)
    BY <1>2 DEF SameCase, HeldoutRow, SpecOf
<1>13. ProcInv'
    BY <1>4, <1>6, <1>7, <1>11, <1>12 DEF ProcInv, SameCase
<1>14. RowsTellTheirRuns'
    BY <1>9, SameIsTrimmed, RowsRemain DEF EvidenceInv, Shapes, SameCase, Trimmed
<1> QED BY <1>10, <1>13, <1>14 DEF EvidenceInv

\* The run of the due case is finished with its row.
LEMMA RunFinished ==
    ASSUME EvidenceInv, SameCase, proc.pc = "record", NEW row,
           row.run = proc.run, row.case = DueCase, row.spec = proc.spec, row.input = DueInput,
           runs' = FinishedWith(proc.run, row),
           HasFields(proc', ProcFields), proc'.pc \in {"append", "records"}, proc'.row = row
    PROVE  EvidenceInv'
<1>1. RunIsDue /\ runs[proc.run].tagged
    BY DEF EvidenceInv, ProcInv
<1>2. \A spec : CasesWithRow(spec)' = CasesWithRow(spec)
    BY DueStays
<1>3. PICK n \in Nat : /\ Len(runs) = n /\ DOMAIN runs = 1 .. n
                       /\ runs = [i \in 1 .. n |-> runs[i]]
                       /\ \A i \in 1 .. n : HasFields(runs[i], RunFields)
    BY DEF EvidenceInv, Shapes, IsSequence
<1>4. PICK run \in 1 .. n : run = proc.run
    BY <1>1, <1>3 DEF RunIsDue
<1>5. PICK done : done = [runs[run] EXCEPT !.status = "FINISHED", !.row = row]
    OBVIOUS
<1>6. /\ HasFields(done, RunFields) /\ done.tagged = runs[run].tagged
      /\ done.status = "FINISHED"
      /\ done.case = runs[run].case /\ done.spec = runs[run].spec
      /\ done.input = runs[run].input
    <2>1. HasFields(runs[run], RunFields)
        BY <1>3
    <2> QED BY <1>5, <2>1 DEF HasFields, RunFields
<1>7. /\ runs' = [i \in 1 .. n |-> runs'[i]] /\ runs'[run] = done
      /\ \A i \in 1 .. n : i # run => runs'[i] = runs[i]
    BY <1>3, <1>4, <1>5 DEF FinishedWith
<1>8. IsSequence(runs') /\ Len(runs') = n /\ DOMAIN runs' = 1 .. n
    BY <1>7, Enumerated
<1>9. FinishedStay
    BY <1>1, <1>3, <1>4, <1>7, <1>8 DEF FinishedStay, RunIsDue
<1>10. Shapes'
    BY <1>3, <1>6, <1>7, <1>8 DEF Shapes, SameCase, EvidenceInv
<1>11. BackedIn(row, runs')
    BY <1>1, <1>4, <1>6, <1>7, <1>8 DEF RunIsDue, BackedIn
<1>12. RowIsNew(proc.row)'
    BY <1>1, <1>2, <1>11 DEF RunIsDue, RowIsNew, BackedIn, RowBacked
<1>13. ProcInv'
    BY <1>12 DEF ProcInv
<1>14. RowsTellTheirRuns'
    BY <1>9, SameIsTrimmed, RowsRemain DEF EvidenceInv, Shapes, SameCase, Trimmed
<1> QED BY <1>10, <1>13, <1>14 DEF EvidenceInv

\* A row is at hand for a case without one.
LEMMA RowAtHand ==
    ASSUME EvidenceInv, raw' = raw, runs' = runs, NEW row, RowIsNew(row),
           HasFields(proc', ProcFields), proc'.pc \in {"append", "records"}, proc'.row = row
    PROVE  EvidenceInv'
<1>1. RowIsNew(proc.row)'
    BY DEF RowIsNew, RowBacked, CasesWithRow
<1>2. Shapes'
    BY DEF EvidenceInv, Shapes
<1>3. ProcInv'
    BY <1>1 DEF ProcInv
<1>4. RowsTellTheirRuns'
    BY DEF EvidenceInv, RowsTellTheirRuns, RowBacked
<1> QED BY <1>2, <1>3, <1>4 DEF EvidenceInv

\* The row at hand is appended, by a step that leaves the finished runs alone.
LEMMA RowAppended ==
    ASSUME EvidenceInv, proc.pc = "append", FinishedStay, RunsShaped',
           HasFields(raw', {"rows", "tail"}), raw'.rows = Append(raw.rows, proc.row),
           HasFields(proc', ProcFields), proc'.pc \notin Loud
    PROVE  EvidenceInv'
<1>1. RowIsNew(proc.row)
    BY DEF EvidenceInv, ProcInv
<1>2. RowsTellTheirRuns' /\ IsSequence(raw.rows')
    BY <1>1, RowAdded DEF EvidenceInv, Shapes
<1>3. Shapes'
    BY <1>2 DEF Shapes, RunsShaped
<1>4. ProcInv'
    BY DEF ProcInv, Loud
<1> QED BY <1>2, <1>3, <1>4 DEF EvidenceInv

-----------------------------------------------------------------------------
(* The user.                                                               *)
\* A stop closes the run at work and may leave half a write.
LEMMA KillStep == ASSUME EvidenceInv, Kill PROVE EvidenceInv'
<1>1. HasFields(proc', ProcFields) /\ proc'.pc \notin Loud
    BY IdleIsQuiet DEF Kill, Stopped
<1>2. PICK n \in Nat : /\ Len(runs) = n /\ DOMAIN runs = 1 .. n
                       /\ \A i \in 1 .. n : HasFields(runs[i], RunFields)
    BY DEF EvidenceInv, Shapes, IsSequence
<1>3. runs' = [i \in 1 .. n |-> IF i = proc.run /\ runs[i].status = "RUNNING"
                                THEN [runs[i] EXCEPT !.status = "STOPPED"] ELSE runs[i]]
    BY <1>2 DEF Kill
<1>4. runs' = [i \in 1 .. n |-> runs'[i]]
    BY <1>3
<1>5. IsSequence(runs') /\ Len(runs') = n /\ DOMAIN runs' = 1 .. n
    BY <1>4, Enumerated
<1>6. \A i \in 1 .. n : HasFields(runs'[i], RunFields)
    BY <1>2, <1>3 DEF HasFields, RunFields
<1>7. RunsShaped'
    BY <1>5, <1>6 DEF RunsShaped
<1>8. FinishedStay
    BY <1>2, <1>3, <1>5 DEF FinishedStay
<1>9. ASSUME Trimmed(raw', raw) PROVE EvidenceInv'
    BY <1>1, <1>7, <1>8, <1>9, Quiet
<1>10. CASE proc.pc = "repair"
    <2>1. raw' \in {raw, EmptyFile, Repaired(raw)}
        BY <1>10 DEF Kill, RepairOutcomes
    <2> QED BY <2>1, <1>9, SameIsTrimmed, EmptyIsTrimmed, RepairedIsTrimmed
<1>11. CASE proc.pc = "append"
    <2>1. raw' \in AppendOutcomes(raw, proc.row)
        BY <1>11 DEF Kill
    <2>2. CASE raw' = raw
        BY <2>2, <1>9, SameIsTrimmed
    <2>3. CASE raw' = [raw EXCEPT !.tail = "partial"]
        <3>1. HasFields(raw, {"rows", "tail"})
            BY DEF EvidenceInv, Shapes
        <3>2. HasFields(raw', {"rows", "tail"}) /\ raw'.rows = raw.rows
            BY <2>3, <3>1 DEF HasFields
        <3> QED BY <3>2, <1>9, SameIsTrimmed DEF Trimmed
    <2>4. CASE \E tail : raw' = [rows |-> Append(raw.rows, proc.row), tail |-> tail]
        <3> PICK tail : raw' = [rows |-> Append(raw.rows, proc.row), tail |-> tail]
            BY <2>4
        <3>1. HasFields(raw', {"rows", "tail"}) /\ raw'.rows = Append(raw.rows, proc.row)
            BY DEF HasFields
        <3> QED BY <3>1, <1>1, <1>7, <1>8, <1>11, RowAppended
    <2> QED BY <2>1, <2>2, <2>3, <2>4 DEF AppendOutcomes, Appended
<1>12. CASE proc.pc \notin {"repair", "append"}
    <2>1. raw' = raw
        BY <1>12 DEF Kill
    <2> QED BY <2>1, <1>9, SameIsTrimmed
<1> QED BY <1>10, <1>11, <1>12

LEMMA UserStep == ASSUME EvidenceInv, UserChanges \/ GitChanges PROVE EvidenceInv'
<1>1. ASSUME NEW definition, Edit(definition) PROVE EvidenceInv'
    BY <1>1, Frame DEF Edit
<1>2. ASSUME WriteSpec \/ Commit PROVE EvidenceInv'
    BY <1>2, Frame DEF WriteSpec, Commit
<1>3. ASSUME NEW version, ExchangeInputs(version) PROVE EvidenceInv'
    BY <1>3, Frame DEF ExchangeInputs
<1>4. ASSUME NEW name, KillJob(name) PROVE EvidenceInv'
    BY <1>4, Frame DEF KillJob
<1>5. ASSUME NEW evidence, Discard(evidence) PROVE EvidenceInv'
    BY <1>5, Frame DEF Discard
<1>6. ASSUME NEW sha, Checkout(sha) PROVE EvidenceInv'
    BY <1>6, Frame DEF Checkout
<1> QED BY <1>1, <1>2, <1>3, <1>4, <1>5, <1>6, KillStep DEF UserChanges, GitChanges

-----------------------------------------------------------------------------
(* The serial commands.                                                    *)
LEMMA NextIsOpen ==
    ASSUME NEW plan, NEW done, ~AllDone(plan, done)
    PROVE  NextOf(plan, done) \notin done
BY DEF AllDone, NextOf, NextPlaces

LEMMA ShapesKnown ==
    ASSUME EvidenceInv
    PROVE  /\ proc = [f \in ProcFields |-> proc[f]]
           /\ Trimmed(raw, raw) /\ Trimmed(Repaired(raw), raw)
BY SameIsTrimmed, RepairedIsTrimmed DEF EvidenceInv, Shapes, HasFields

LEMMA HeldoutStep == ASSUME EvidenceInv, HeldoutNext PROVE EvidenceInv'
<1> USE DEF ProcFields
<1>0. /\ proc = [f \in ProcFields |-> proc[f]]
      /\ Trimmed(raw, raw) /\ Trimmed(Repaired(raw), raw)
    BY ShapesKnown
<1>1. CASE experiment = "heldout" /\ GitChanges
    BY <1>1, UserStep
<1>2. CASE HeldoutLoad
    <2>1. HasFields(proc', ProcFields) /\ proc'.pc \notin Loud
        BY <1>2 DEF HeldoutLoad, Idle, HasFields, Loud
    <2> QED BY <1>0, <1>2, <2>1, RunsStay, Quiet DEF HeldoutLoad
<1>3. CASE HeldoutBegin
    <2>1. CASE Stopped
        BY <1>0, <1>3, <2>1, Ends DEF HeldoutBegin
    <2>2. CASE proc' = [proc EXCEPT !.pc = "repair", !.sha = tree.sha]
        <3>1. HasFields(proc', ProcFields) /\ proc'.pc \notin Loud
            BY <1>0, <2>2 DEF HasFields, Loud
        <3> QED BY <1>0, <1>3, <3>1, RunsStay, Quiet DEF HeldoutBegin
    <2> QED BY <1>3, <2>1, <2>2 DEF HeldoutBegin
<1>4. CASE HeldoutScan
    <2>1. Trimmed(raw', raw) /\ runs' = runs
        BY <1>0, <1>4 DEF HeldoutScan
    <2>2. CASE Stopped
        BY <2>1, <2>2, Ends
    <2>3. CASE proc' = [proc EXCEPT !.pc = "case"]
        <3>1. HasFields(proc', ProcFields) /\ proc'.pc \notin Loud
            BY <1>0, <2>3 DEF HasFields, Loud
        <3> QED BY <2>1, <3>1, RunsStay, Quiet
    <2>4. Stopped \/ proc' = [proc EXCEPT !.pc = "case"]
        BY <1>4 DEF HeldoutScan
    <2> QED BY <2>2, <2>3, <2>4
<1>5. CASE HeldoutRecover
    <2> DEFINE case == HeldoutDue
               found == FinishedRuns(case, proc.spec, InputOf(SpecOf(proc), case))
               i == CHOOSE i \in found : TRUE
    <2>1. CASE Stopped
        BY <1>0, <1>5, <2>1, Ends DEF HeldoutRecover
    <2>2. CASE ~Stopped
        <3>1. /\ found # {} /\ ~HeldoutOver /\ raw' = raw /\ runs' = runs
              /\ \A k \in found : runs[k].row.case = case /\ ~ProvenanceProblems(runs[k].row, k, {})
              /\ proc' = [proc EXCEPT !.pc = "append", !.row = runs[i].row]
            BY <1>5, <2>2 DEF HeldoutRecover
        <3>2. i \in found
            BY <3>1
        <3> HIDE DEF i
        <3>3. /\ i \in DOMAIN runs /\ runs[i].tagged /\ runs[i].status = "FINISHED"
              /\ runs[i].case = case /\ runs[i].spec = proc.spec
            BY <3>2 DEF FinishedRuns
        <3>4. runs[i].row.case = case /\ ~ProvenanceProblems(runs[i].row, i, {})
            BY <3>1, <3>2
        <3>5. case \notin CasesWithRow(proc.spec)
            BY <3>1, NextIsOpen DEF HeldoutOver, HeldoutDue, CasesDone
        <3>6. RowIsNew(runs[i].row)
            BY <3>3, <3>4, <3>5 DEF ProvenanceProblems, RowIsNew, RowBacked
        <3>7. /\ HasFields(proc', ProcFields) /\ proc'.pc \in {"append", "records"}
              /\ proc'.row = runs[i].row
            BY <1>0, <3>1 DEF HasFields
        <3> QED BY <3>1, <3>6, <3>7, RowAtHand
    <2> QED BY <2>1, <2>2
<1>6. CASE HeldoutCheck
    <2>1. CASE Stopped
        BY <1>0, <1>6, <2>1, Ends DEF HeldoutCheck
    <2>2. CASE ~Stopped
        <3>1. /\ ~HeldoutOver /\ raw' = raw /\ runs' = runs /\ experiment' = experiment
              /\ proc' = [proc EXCEPT !.pc = "open"]
            BY <1>6, <2>2 DEF HeldoutCheck, HeldoutUnchanged
        <3>2. SameCase /\ HasFields(proc', ProcFields) /\ proc'.pc = "open"
            BY <1>0, <3>1 DEF SameCase, HasFields
        <3>3. ~HeldoutOver'
            BY <3>1, <3>2, DueStays
        <3>4. ProcInv'
            BY <3>2, <3>3 DEF ProcInv
        <3>5. Shapes' /\ RowsTellTheirRuns'
            BY <3>1, <3>2 DEF EvidenceInv, Shapes, RowsTellTheirRuns, RowBacked
        <3> QED BY <3>4, <3>5 DEF EvidenceInv
    <2> QED BY <2>1, <2>2
<1>7. CASE HeldoutOpen
    <2>1. /\ DueCase = HeldoutDue /\ DueInput = InputOf(SpecOf(proc), HeldoutDue)
          /\ ~HeldoutOver
        BY <1>7 DEF HeldoutOpen, DueCase, DueInput, EvidenceInv, ProcInv
    <2>2. DueCase \notin CasesWithRow(proc.spec)
        BY <2>1, NextIsOpen DEF HeldoutOver, HeldoutDue, CasesDone
    <2>3. runs' = Append(runs, OpenedRun(DueCase, proc.spec, DueInput))
        BY <1>7, <2>1 DEF HeldoutOpen
    <2>4. /\ SameCase /\ HasFields(proc', ProcFields) /\ proc'.pc = "evaluate"
          /\ proc'.run = Len(runs) + 1
        BY <1>0, <1>7 DEF HeldoutOpen, HeldoutUnchanged, SameCase, HasFields
    <2> QED BY <2>2, <2>3, <2>4, RunOpened
<1>8. CASE HeldoutTag
    <2>1. DueCase = HeldoutDue
        BY <1>8 DEF HeldoutTag, DueCase
    <2>2. /\ SameCase /\ HasFields(proc', ProcFields) /\ proc'.pc = "record"
          /\ proc'.run = proc.run /\ proc'.row = HeldoutRow(SpecOf(proc), DueCase, proc.run)
        BY <1>0, <1>8, <2>1 DEF HeldoutTag, HeldoutUnchanged, SameCase, HasFields
    <2>3. proc.pc = "evaluate" /\ runs' = Tagged(proc.run)
        BY <1>8 DEF HeldoutTag
    <2> QED BY <2>2, <2>3, RunTagged
<1>9. CASE HeldoutFinish
    <2>1. /\ DueCase = HeldoutDue /\ DueInput = InputOf(SpecOf(proc), DueCase)
          /\ proc.row = HeldoutRow(SpecOf(proc), DueCase, proc.run)
        BY <1>9 DEF HeldoutFinish, DueCase, DueInput, EvidenceInv, ProcInv
    <2>2. SpecOf(proc).id = proc.spec
        BY DEF SpecOf, HeldoutSpec
    <2>3. /\ proc.row.run = proc.run /\ proc.row.case = DueCase /\ proc.row.spec = proc.spec
          /\ proc.row.input = DueInput
        BY <2>1, <2>2 DEF HeldoutRow, InputOf
    <2>4. /\ SameCase /\ HasFields(proc', ProcFields) /\ proc'.pc \in {"append", "records"}
          /\ proc'.row = proc.row
        BY <1>0, <1>9 DEF HeldoutFinish, HeldoutUnchanged, SameCase, HasFields
    <2>5. proc.pc = "record" /\ runs' = FinishedWith(proc.run, proc.row)
        BY <1>9 DEF HeldoutFinish
    <2> QED BY <2>3, <2>4, <2>5, RunFinished
<1>10. CASE HeldoutAppend
    <2>1. HasFields(proc', ProcFields) /\ proc'.pc \notin Loud
        BY <1>0, <1>10 DEF HeldoutAppend, HasFields, Loud
    <2>2. HasFields(raw', {"rows", "tail"}) /\ raw'.rows = Append(raw.rows, proc.row)
        BY <1>10 DEF HeldoutAppend, Appended, HasFields
    <2> QED BY <1>10, <2>1, <2>2, RunsStay, RowAppended DEF HeldoutAppend
<1>11. CASE HeldoutReturn
    BY <1>0, <1>11, Ends DEF HeldoutReturn
<1>12. CASE HeldoutFreeze
    BY <1>12, Frame DEF HeldoutFreeze
<1> QED BY <1>1, <1>2, <1>3, <1>4, <1>5, <1>6, <1>7, <1>8, <1>9, <1>10, <1>11, <1>12
        DEF HeldoutNext

LEMMA StartupStep == ASSUME EvidenceInv, StartupNext PROVE EvidenceInv'
<1> USE DEF ProcFields
<1>0. /\ proc = [f \in ProcFields |-> proc[f]]
      /\ Trimmed(raw, raw) /\ Trimmed(Repaired(raw), raw)
    BY ShapesKnown
<1>1. ASSUME NEW freezing, StartupLoad(freezing) PROVE EvidenceInv'
    <2>1. HasFields(proc', ProcFields) /\ proc'.pc \notin Loud
        BY <1>1 DEF StartupLoad, Idle, HasFields, Loud
    <2> QED BY <1>0, <1>1, <2>1, RunsStay, Quiet DEF StartupLoad
<1>2. CASE StartupScan
    <2>1. Trimmed(raw', raw) /\ runs' = runs
        BY <1>0, <1>2 DEF StartupScan
    <2>2. CASE Stopped
        BY <2>1, <2>2, Ends
    <2>3. CASE proc' = [proc EXCEPT !.pc = "case"]
        <3>1. HasFields(proc', ProcFields) /\ proc'.pc \notin Loud
            BY <1>0, <2>3 DEF HasFields, Loud
        <3> QED BY <2>1, <3>1, RunsStay, Quiet
    <2> QED BY <1>2, <2>2, <2>3 DEF StartupScan
<1>3. CASE StartupRecover
    <2>1. PICK i \in StartupFound(StartupDue) :
            proc' = [proc EXCEPT !.pc = "append", !.row = StartupRow(StartupDue, proc.spec, i)]
        BY <1>3 DEF StartupRecover
    <2>2. /\ i \in DOMAIN runs /\ runs[i].tagged /\ runs[i].status = "FINISHED"
          /\ runs[i].case = StartupDue /\ runs[i].spec = proc.spec
          /\ runs[i].input = StartupInput(StartupDue, proc.input)
        BY DEF StartupFound, FinishedRuns
    <2>3. StartupDue \notin CasesWithRow(proc.spec)
        BY <1>3, NextIsOpen DEF StartupRecover, StartupOver, StartupDue, StartupDone
    <2>4. PICK row : row = StartupRow(StartupDue, proc.spec, i)
        OBVIOUS
    <2>5. /\ row.run = i /\ row.case = StartupDue /\ row.spec = proc.spec
          /\ row.input = StartupInput(StartupDue, runs[i].input.trace)
        BY <2>4 DEF StartupRow
    <2>6. row.input = runs[i].input
        BY <2>2, <2>5 DEF StartupInput
    <2>7. RowIsNew(row)
        BY <2>2, <2>3, <2>5, <2>6 DEF RowIsNew, RowBacked
    <2>8. /\ HasFields(proc', ProcFields) /\ proc'.pc \in {"append", "records"}
          /\ proc'.row = row
        BY <1>0, <2>1, <2>4 DEF HasFields
    <2> QED BY <1>3, <2>7, <2>8, RowAtHand DEF StartupRecover
<1>4. CASE StartupOpen
    <2>1. DueCase = StartupDue /\ DueInput = StartupInput(StartupDue, proc.input)
        BY <1>4 DEF StartupOpen, DueCase, DueInput
    <2>2. DueCase \notin CasesWithRow(proc.spec)
        BY <1>4, <2>1, NextIsOpen DEF StartupOpen, StartupOver, StartupDue, StartupDone
    <2>3. runs' = Append(runs, OpenedRun(DueCase, proc.spec, DueInput))
        BY <1>4, <2>1 DEF StartupOpen
    <2>4. /\ SameCase /\ HasFields(proc', ProcFields) /\ proc'.pc = "evaluate"
          /\ proc'.run = Len(runs) + 1
        BY <1>0, <1>4 DEF StartupOpen, StartupUnchanged, SameCase, HasFields
    <2> QED BY <2>2, <2>3, <2>4, RunOpened
<1>5. CASE StartupTag
    <2>1. /\ SameCase /\ HasFields(proc', ProcFields) /\ proc'.pc = "record"
          /\ proc'.run = proc.run /\ experiment # "heldout"
        BY <1>0, <1>5 DEF StartupTag, StartupUnchanged, SameCase, HasFields
    <2>2. proc.pc = "evaluate" /\ runs' = Tagged(proc.run)
        BY <1>5 DEF StartupTag
    <2> QED BY <2>1, <2>2, RunTagged
<1>6. CASE StartupFinish
    <2>1. PICK row : row = StartupRow(StartupDue, proc.spec, proc.run)
        OBVIOUS
    <2>2. DueCase = StartupDue /\ DueInput = StartupInput(StartupDue, proc.input)
        BY <1>6 DEF StartupFinish, DueCase, DueInput
    <2>3. proc.pc = "record" /\ RunIsDue
        BY <1>6 DEF StartupFinish, EvidenceInv, ProcInv
    <2>4. /\ row.run = proc.run /\ row.case = DueCase /\ row.spec = proc.spec
          /\ row.input = DueInput
        BY <2>1, <2>2, <2>3 DEF StartupRow, StartupInput, RunIsDue
    <2>5. /\ SameCase /\ HasFields(proc', ProcFields) /\ proc'.pc \in {"append", "records"}
          /\ proc'.row = row
        BY <1>0, <1>6, <2>1 DEF StartupFinish, StartupUnchanged, SameCase, HasFields
    <2>6. runs' = FinishedWith(proc.run, row)
        BY <1>6, <2>1 DEF StartupFinish
    <2> QED BY <2>3, <2>4, <2>5, <2>6, RunFinished
<1>7. CASE StartupAppend
    <2>1. HasFields(proc', ProcFields) /\ proc'.pc \notin Loud
        BY <1>0, <1>7 DEF StartupAppend, HasFields, Loud
    <2>2. HasFields(raw', {"rows", "tail"}) /\ raw'.rows = Append(raw.rows, proc.row)
        BY <1>7 DEF StartupAppend, Appended, HasFields
    <2> QED BY <1>7, <2>1, <2>2, RunsStay, RowAppended DEF StartupAppend
<1>8. CASE StartupReturn
    BY <1>0, <1>8, Ends DEF StartupReturn
<1> QED BY <1>1, <1>2, <1>3, <1>4, <1>5, <1>6, <1>7, <1>8 DEF StartupNext

\* The row of a case without one is at hand, or its records are restored first.
LEMMA RestoredFirst ==
    ASSUME EvidenceInv, raw' = raw, runs' = runs, NEW row, NEW after, Restored(row, after),
           HasFields(after, ProcFields)
    PROVE  /\ after.pc = "append" /\ after.row = row /\ RowIsNew(row) => EvidenceInv'
           /\ after.pc \notin Loud /\ after.row = NoRow => EvidenceInv'
<1> USE DEF ProcFields
<1>0. after = [f \in ProcFields |-> after[f]]
    BY DEF HasFields
<1>1. /\ HasFields(proc', ProcFields) /\ proc'.row = after.row
      /\ proc'.pc \in {after.pc, "records"}
    BY <1>0 DEF Restored, HasFields
<1>2. CASE after.pc = "append" /\ after.row = row /\ RowIsNew(row)
    BY <1>1, <1>2, RowAtHand
<1>3. CASE after.pc \notin Loud /\ after.row = NoRow
    <2>1. Shapes' /\ RowsTellTheirRuns'
        BY <1>1 DEF EvidenceInv, Shapes, RowsTellTheirRuns, RowBacked
    <2>2. ProcInv'
        BY <1>1, <1>3 DEF ProcInv, Loud
    <2> QED BY <2>1, <2>2 DEF EvidenceInv
<1> QED BY <1>2, <1>3

LEMMA BaselineStep == ASSUME EvidenceInv, BaselineNext PROVE EvidenceInv'
<1> USE DEF ProcFields
<1>0. /\ proc = [f \in ProcFields |-> proc[f]]
      /\ Trimmed(raw, raw) /\ Trimmed(Repaired(raw), raw)
    BY ShapesKnown
<1>1. ASSUME NEW freezing, BaselineLoad(freezing) PROVE EvidenceInv'
    <2>1. HasFields(proc', ProcFields) /\ proc'.pc \notin Loud
        BY <1>1 DEF BaselineLoad, Idle, HasFields, Loud
    <2> QED BY <1>0, <1>1, <2>1, RunsStay, Quiet DEF BaselineLoad
<1>2. CASE BaselineRepair
    <2>1. HasFields(proc', ProcFields) /\ proc'.pc \notin Loud
        BY <1>0, <1>2 DEF BaselineRepair, HasFields, Loud
    <2> QED BY <1>0, <1>2, <2>1, RunsStay, Quiet DEF BaselineRepair
<1>3. CASE BaselineScan
    <2>1. Trimmed(raw', raw) /\ runs' = runs
        BY <1>0, <1>3 DEF BaselineScan
    <2>2. CASE Stopped
        BY <2>1, <2>2, Ends
    <2>3. CASE proc' = [proc EXCEPT !.pc = "case"]
        <3>1. HasFields(proc', ProcFields) /\ proc'.pc \notin Loud
            BY <1>0, <2>3 DEF HasFields, Loud
        <3> QED BY <2>1, <3>1, RunsStay, Quiet
    <2> QED BY <1>3, <2>2, <2>3 DEF BaselineScan
<1>4. CASE BaselineDone
    <2>1. HasFields(NextCase(proc), ProcFields)
        BY <1>0 DEF NextCase, HasFields
    <2>2. NextCase(proc).pc = "case" /\ NextCase(proc).row = NoRow /\ "case" \notin Loud
        BY <1>0 DEF NextCase, Loud
    <2> QED BY <1>4, <2>1, <2>2, RestoredFirst DEF BaselineDone
<1>5. CASE BaselineRecover
    <2>1. PICK i \in BaselineFound(BaselineCase) :
            LET row == BaselineRow(BaselineCase, proc.spec, i)
            IN  Restored(row, [proc EXCEPT !.pc = "append", !.row = row])
        BY <1>5 DEF BaselineRecover
    <2>2. /\ i \in DOMAIN runs /\ runs[i].tagged /\ runs[i].status = "FINISHED"
          /\ runs[i].case = BaselineCase /\ runs[i].spec = proc.spec
        BY DEF BaselineFound, FinishedRuns
    <2>3. PICK row : row = BaselineRow(BaselineCase, proc.spec, i)
        OBVIOUS
    <2>4. RowIsNew(row)
        BY <1>5, <2>2, <2>3 DEF BaselineRecover, BaselineRow, RowIsNew, RowBacked
    <2>5. PICK after : after = [proc EXCEPT !.pc = "append", !.row = row]
        OBVIOUS
    <2>6. HasFields(after, ProcFields) /\ after.pc = "append" /\ after.row = row
        BY <1>0, <2>5 DEF HasFields
    <2>7. Restored(row, after)
        BY <2>1, <2>3, <2>5
    <2> QED BY <1>5, <2>4, <2>6, <2>7, RestoredFirst DEF BaselineRecover
<1>6. CASE BaselineOpen
    <2>1. DueCase = BaselineCase /\ DueInput = BaselineInput(BaselineCase, proc.input)
        BY <1>6 DEF BaselineOpen, DueCase, DueInput
    <2>2. /\ DueCase \notin CasesWithRow(proc.spec)
          /\ runs' = Append(runs, OpenedRun(DueCase, proc.spec, DueInput))
        BY <1>6, <2>1 DEF BaselineOpen
    <2>3. /\ SameCase /\ HasFields(proc', ProcFields) /\ proc'.pc = "evaluate"
          /\ proc'.run = Len(runs) + 1
        BY <1>0, <1>6 DEF BaselineOpen, BaselineUnchanged, SameCase, HasFields
    <2> QED BY <2>2, <2>3, RunOpened
<1>7. CASE BaselineTag
    <2>1. /\ SameCase /\ HasFields(proc', ProcFields) /\ proc'.pc = "record"
          /\ proc'.run = proc.run /\ experiment # "heldout"
        BY <1>0, <1>7 DEF BaselineTag, BaselineUnchanged, SameCase, HasFields
    <2>2. proc.pc = "evaluate" /\ runs' = Tagged(proc.run)
        BY <1>7 DEF BaselineTag
    <2> QED BY <2>1, <2>2, RunTagged
<1>8. CASE BaselineFinish
    <2>1. PICK row : row = BaselineRow(BaselineCase, proc.spec, proc.run)
        OBVIOUS
    <2>2. DueCase = BaselineCase /\ DueInput = BaselineInput(BaselineCase, proc.input)
        BY <1>8 DEF BaselineFinish, DueCase, DueInput
    <2>3. proc.pc = "record" /\ RunIsDue
        BY <1>8 DEF BaselineFinish, EvidenceInv, ProcInv
    <2>4. /\ row.run = proc.run /\ row.case = DueCase /\ row.spec = proc.spec
          /\ row.input = DueInput
        BY <2>1, <2>2, <2>3 DEF BaselineRow, RunIsDue
    <2>5. /\ SameCase /\ HasFields(proc', ProcFields) /\ proc'.pc \in {"append", "records"}
          /\ proc'.row = row
        BY <1>0, <1>8, <2>1 DEF BaselineFinish, BaselineUnchanged, SameCase, HasFields
    <2>6. runs' = FinishedWith(proc.run, row)
        BY <1>8, <2>1 DEF BaselineFinish
    <2> QED BY <2>3, <2>4, <2>5, <2>6, RunFinished
<1>9. CASE BaselineRecord
    <2>1. /\ HasFields(proc', ProcFields) /\ proc'.row = proc.row
          /\ proc'.pc \in {"records", IF proc.row = NoRow THEN "case" ELSE "append"}
        BY <1>0, <1>9 DEF BaselineRecord, HasFields
    <2>2. proc.row # NoRow => RowIsNew(proc.row)
        BY <1>9 DEF BaselineRecord, EvidenceInv, ProcInv
    <2>3. raw' = raw /\ runs' = runs
        BY <1>9 DEF BaselineRecord
    <2>4. CASE proc.row # NoRow
        <3>1. proc'.pc \in {"append", "records"}
            BY <2>1, <2>4
        <3> QED BY <2>1, <2>2, <2>3, <2>4, <3>1, RowAtHand
    <2>5. CASE proc.row = NoRow
        <3>1. Shapes' /\ RowsTellTheirRuns'
            BY <2>1, <2>3 DEF EvidenceInv, Shapes, RowsTellTheirRuns, RowBacked
        <3>2. ProcInv'
            BY <2>1, <2>5 DEF ProcInv
        <3> QED BY <3>1, <3>2 DEF EvidenceInv
    <2> QED BY <2>4, <2>5
<1>10. CASE BaselineAppend
    <2>1. HasFields(proc', ProcFields) /\ proc'.pc \notin Loud
        BY <1>0, <1>10 DEF BaselineAppend, NextCase, HasFields, Loud
    <2>2. HasFields(raw', {"rows", "tail"}) /\ raw'.rows = Append(raw.rows, proc.row)
        BY <1>10 DEF BaselineAppend, Appended, HasFields
    <2> QED BY <1>10, <2>1, <2>2, RunsStay, RowAppended DEF BaselineAppend
<1>11. CASE BaselineReturn
    BY <1>0, <1>11, Ends DEF BaselineReturn
<1> QED BY <1>1, <1>2, <1>3, <1>4, <1>5, <1>6, <1>7, <1>8, <1>9, <1>10, <1>11
        DEF BaselineNext

LEMMA ActionCommandStep ==
    ASSUME EvidenceInv,
           \/ \E command \in {"select", "evaluate", "decide"} : ActionBegin(command)
           \/ ActionBegun \/ ActionSelect \/ ActionRepair \/ ActionScan \/ ActionOpen \/ ActionTag
           \/ ActionFinish \/ ActionAppend \/ ActionReturn \/ ActionDecide \/ ActionFreeze
    PROVE  EvidenceInv'
<1> USE DEF ProcFields
<1>0. /\ proc = [f \in ProcFields |-> proc[f]]
      /\ Trimmed(raw, raw) /\ Trimmed(Repaired(raw), raw)
    BY ShapesKnown
<1>1. ASSUME NEW command \in {"select", "evaluate", "decide"}, ActionBegin(command)
      PROVE  EvidenceInv'
    <2>1. HasFields(proc', ProcFields) /\ proc'.pc = "rename" /\ proc'.command = command
        BY <1>1 DEF ActionBegin, Idle, HasFields
    <2>2. raw' = raw /\ runs' = runs
        BY <1>1 DEF ActionBegin
    <2>3. Shapes' /\ RowsTellTheirRuns'
        BY <2>1, <2>2 DEF EvidenceInv, Shapes, RowsTellTheirRuns, RowBacked
    <2>4. ProcInv'
        BY <2>1 DEF ProcInv
    <2> QED BY <2>3, <2>4 DEF EvidenceInv
<1>2. CASE ActionBegun
    <2>1. proc.command \in {"select", "evaluate", "decide"}
        BY <1>2 DEF ActionBegun, EvidenceInv, ProcInv
    <2>2. \/ proc' = Idle
          \/ proc' = [proc EXCEPT !.pc = "repair", !.models = RetrainedModels]
          \/ proc.command # "evaluate" /\ proc' = [proc EXCEPT !.pc = proc.command]
        BY <1>2 DEF ActionBegun
    <2>3. HasFields(proc', ProcFields) /\ proc'.pc \notin Loud
        BY <1>0, <2>1, <2>2, IdleIsQuiet DEF HasFields, Loud
    <2> QED BY <1>0, <1>2, <2>3, RunsStay, Quiet DEF ActionBegun
<1>3. CASE ActionSelect
    <2>1. HasFields(proc', ProcFields) /\ proc'.pc \notin Loud
        BY <1>0, <1>3, IdleIsQuiet DEF ActionSelect, Stopped, HasFields, Loud
    <2> QED BY <1>0, <1>3, <2>1, RunsStay, Quiet DEF ActionSelect
<1>4. CASE ActionRepair
    <2>1. HasFields(proc', ProcFields) /\ proc'.pc \notin Loud
        BY <1>0, <1>4 DEF ActionRepair, HasFields, Loud
    <2> QED BY <1>0, <1>4, <2>1, RunsStay, Quiet DEF ActionRepair
<1>5. CASE ActionScan
    <2>1. CASE proc' = [proc EXCEPT !.at = @ + 1]
        <3>1. HasFields(proc', ProcFields) /\ proc'.pc \notin Loud
            BY <1>0, <1>5, <2>1 DEF ActionScan, HasFields, Loud
        <3> QED BY <1>0, <1>5, <3>1, RunsStay, Quiet DEF ActionScan
    <2>2. CASE /\ ActionCase.case \notin CasesWithRow(proc.spec)
               /\ \E i \in FinishedRuns(ActionCase.case, proc.spec, 0) :
                    proc' = [proc EXCEPT !.pc = "append",
                                !.row = ActionRow(ActionCase, i, runs[i].row.value)]
        <3>1. PICK i \in FinishedRuns(ActionCase.case, proc.spec, 0) :
                proc' = [proc EXCEPT !.pc = "append",
                            !.row = ActionRow(ActionCase, i, runs[i].row.value)]
            BY <2>2
        <3>2. /\ i \in DOMAIN runs /\ runs[i].tagged /\ runs[i].status = "FINISHED"
              /\ runs[i].case = ActionCase.case /\ runs[i].spec = proc.spec
              /\ runs[i].input = 0
            BY DEF FinishedRuns
        <3>3. PICK row : row = ActionRow(ActionCase, i, runs[i].row.value)
            OBVIOUS
        <3>4. RowIsNew(row)
            BY <2>2, <3>2, <3>3 DEF ActionRow, RowIsNew, RowBacked
        <3>5. /\ HasFields(proc', ProcFields) /\ proc'.pc \in {"append", "records"}
              /\ proc'.row = row
            BY <1>0, <3>1, <3>3 DEF HasFields
        <3> QED BY <1>5, <3>4, <3>5, RowAtHand DEF ActionScan
    <2> QED BY <1>5, <2>1, <2>2 DEF ActionScan
<1>6. CASE ActionOpen
    <2>1. DueCase = ActionCase.case /\ DueInput = 0
        BY <1>6 DEF ActionOpen, DueCase, DueInput
    <2>2. /\ DueCase \notin CasesWithRow(proc.spec)
          /\ runs' = Append(runs, OpenedRun(DueCase, proc.spec, DueInput))
        BY <1>6, <2>1 DEF ActionOpen
    <2>3. /\ SameCase /\ HasFields(proc', ProcFields) /\ proc'.pc = "evaluate"
          /\ proc'.run = Len(runs) + 1
        BY <1>0, <1>6 DEF ActionOpen, ActionUnchanged, SameCase, HasFields
    <2> QED BY <2>2, <2>3, RunOpened
<1>7. CASE ActionTag
    <2>1. /\ SameCase /\ HasFields(proc', ProcFields) /\ proc'.pc = "record"
          /\ proc'.run = proc.run /\ experiment # "heldout"
        BY <1>0, <1>7 DEF ActionTag, ActionUnchanged, SameCase, HasFields
    <2>2. proc.pc = "evaluate" /\ runs' = Tagged(proc.run)
        BY <1>7 DEF ActionTag
    <2> QED BY <2>1, <2>2, RunTagged
<1>8. CASE ActionFinish
    <2>1. PICK row : row = ActionRow(ActionCase, proc.run, ActionValue(ActionCase))
        OBVIOUS
    <2>2. DueCase = ActionCase.case /\ DueInput = 0
        BY <1>8 DEF ActionFinish, DueCase, DueInput
    <2>3. /\ row.run = proc.run /\ row.case = DueCase /\ row.spec = proc.spec
          /\ row.input = DueInput
        BY <2>1, <2>2 DEF ActionRow
    <2>4. /\ SameCase /\ HasFields(proc', ProcFields) /\ proc'.pc \in {"append", "records"}
          /\ proc'.row = row
        BY <1>0, <1>8, <2>1 DEF ActionFinish, ActionUnchanged, SameCase, HasFields
    <2>5. proc.pc = "record" /\ runs' = FinishedWith(proc.run, row)
        BY <1>8, <2>1 DEF ActionFinish
    <2> QED BY <2>3, <2>4, <2>5, RunFinished
<1>9. CASE ActionAppend
    <2>1. HasFields(proc', ProcFields) /\ proc'.pc \notin Loud
        BY <1>0, <1>9 DEF ActionAppend, HasFields, Loud
    <2>2. HasFields(raw', {"rows", "tail"}) /\ raw'.rows = Append(raw.rows, proc.row)
        BY <1>9 DEF ActionAppend, Appended, HasFields
    <2> QED BY <1>9, <2>1, <2>2, RunsStay, RowAppended DEF ActionAppend
<1>10. CASE ActionDecide
    <2>1. HasFields(proc', ProcFields) /\ proc'.pc \notin Loud
        BY <1>0, <1>10, IdleIsQuiet DEF ActionDecide, Stopped, HasFields, Loud
    <2> QED BY <1>0, <1>10, <2>1, RunsStay, Quiet DEF ActionDecide
<1>11. CASE ActionReturn \/ ActionFreeze
    BY <1>0, <1>11, Ends DEF ActionReturn, ActionFreeze
<1> QED BY <1>1, <1>2, <1>3, <1>4, <1>5, <1>6, <1>7, <1>8, <1>9, <1>10, <1>11

\* The training commands write neither rows nor runs.
LEMMA TrainingStep == ASSUME EvidenceInv, ActionNextStep \/ RewardNext PROVE EvidenceInv'
<1>1. ASSUME NEW family, NEW phase, ActionLaunch(family, phase) PROVE EvidenceInv'
    BY <1>1, Frame DEF ActionLaunch, ActionUnchanged
<1>2. ASSUME NEW family, ActionRenamed(family) \/ ActionTrain(family) PROVE EvidenceInv'
    BY <1>2, Frame DEF ActionRenamed, ActionTrain, ActionUnchanged
<1>3. CASE ActionNextStep
    BY <1>1, <1>2, <1>3, ActionCommandStep DEF ActionNextStep
<1>4. ASSUME NEW reward, RewardLaunch(reward) PROVE EvidenceInv'
    BY <1>4, Frame DEF RewardLaunch, RewardUnchanged
<1>5. ASSUME NEW reward, RewardRenamed(reward) \/ RewardTrain(reward) \/ RewardSelect(reward)
      PROVE  EvidenceInv'
    BY <1>5, Frame DEF RewardRenamed, RewardTrain, RewardSelect, RewardUnchanged
<1>6. CASE RewardFreeze
    BY <1>6, Frame DEF RewardFreeze, RewardUnchanged
<1>7. CASE RewardNext
    BY <1>4, <1>5, <1>6, <1>7 DEF RewardNext
<1> QED BY <1>3, <1>7

\* The check of the protocol writes nothing.
LEMMA CheckReads == ASSUME SimCheckNext PROVE experiment = "sim-to-real" /\ CheckUnchanged
<1>1. ASSUME NEW extract, SimCheck(extract)
      PROVE  experiment = "sim-to-real" /\ CheckUnchanged
    BY <1>1 DEF SimCheck
<1>2. SimCheckManifest => experiment = "sim-to-real" /\ CheckUnchanged
    BY DEF SimCheckManifest, Checking
<1>3. SimCheckSchedule => experiment = "sim-to-real" /\ CheckUnchanged
    BY DEF SimCheckSchedule, Checking
<1>4. SimCheckListed => experiment = "sim-to-real" /\ CheckUnchanged
    BY DEF SimCheckListed, Checking
<1>5. SimCheckAgain => experiment = "sim-to-real" /\ CheckUnchanged
    BY DEF SimCheckAgain, Checking
<1> QED BY <1>1, <1>2, <1>3, <1>4, <1>5 DEF SimCheckNext

\* The protocol and the selection commands write neither rows nor runs.
LEMMA FileStep == ASSUME EvidenceInv, SimNext \/ SelectionNext PROVE EvidenceInv'
<1> USE DEF ProcFields
<1>0. /\ proc = [f \in ProcFields |-> proc[f]]
      /\ Trimmed(raw, raw) /\ Trimmed(Repaired(raw), raw)
    BY ShapesKnown
<1>1. CASE SimFreeze
    <2>1. HasFields(proc', ProcFields) /\ proc'.pc \notin Loud
        BY <1>1 DEF SimFreeze, Idle, HasFields, Loud
    <2> QED BY <1>0, <1>1, <2>1, RunsStay, Quiet DEF SimFreeze, SimUnchanged
<1>2. CASE SimWrite
    <2>1. HasFields(proc', ProcFields) /\ proc'.pc \notin Loud
        BY <1>0, <1>2, IdleIsQuiet DEF SimWrite, Stopped, HasFields, Loud
    <2> QED BY <1>0, <1>2, <2>1, RunsStay, Quiet DEF SimWrite, SimUnchanged
<1>3. CASE SimInterrupted
    BY <1>0, <1>3, Ends DEF SimInterrupted
<1>4. CASE SimCheckNext
    BY <1>4, Frame, CheckReads DEF CheckUnchanged
<1>5. ASSUME NEW version, NEW length, SelectionEvidence(version, length) PROVE EvidenceInv'
    BY <1>5, Frame DEF SelectionEvidence, SelectionUnchanged
<1>6. CASE SelectionFreeze
    BY <1>6, Frame DEF SelectionFreeze, SelectionUnchanged
<1>7. CASE SelectionDiagnose
    <2>1. \E version, pending :
            proc' = [Idle EXCEPT !.pc = "diagnose", !.input = version, !.pending = pending]
        BY <1>7 DEF SelectionDiagnose
    <2>2. HasFields(proc', ProcFields) /\ proc'.pc \notin Loud
        BY <2>1 DEF Idle, HasFields, Loud
    <2>3. raw' = raw /\ runs' = runs
        BY <1>7 DEF SelectionDiagnose, SelectionUnchanged
    <2> QED BY <1>0, <2>2, <2>3, RunsStay, Quiet
<1>8. CASE SelectionSave
    <2>1. HasFields(proc', ProcFields) /\ proc'.pc \notin Loud
        BY <1>0, <1>8 DEF SelectionSave, HasFields, Loud
    <2> QED BY <1>0, <1>8, <2>1, RunsStay, Quiet DEF SelectionSave, SelectionUnchanged
<1>9. CASE SelectionTable
    BY <1>0, <1>9, Ends DEF SelectionTable, SelectionUnchanged
<1> QED BY <1>1, <1>2, <1>3, <1>4, <1>5, <1>6, <1>7, <1>8, <1>9 DEF SimNext, SelectionNext

-----------------------------------------------------------------------------
LEMMA EvidenceInit == Init => EvidenceInv
<1> SUFFICES ASSUME Init PROVE EvidenceInv
    OBVIOUS
<1>1. HasFields(raw, {"rows", "tail"}) /\ raw.rows = <<>>
    BY DEF Init, EmptyFile, HasFields
<1>2. HasFields(proc, ProcFields) /\ proc.pc \notin Loud
    BY IdleIsQuiet DEF Init
<1>3. Shapes
    BY <1>1, <1>2, EmptySequence DEF Init, Shapes
<1>4. ProcInv
    BY <1>2 DEF ProcInv, Loud
<1>5. RowsTellTheirRuns
    BY <1>1, EmptySequence DEF RowsTellTheirRuns
<1> QED BY <1>3, <1>4, <1>5 DEF EvidenceInv

LEMMA EvidenceStep == EvidenceInv /\ [Next]_vars => EvidenceInv'
<1> SUFFICES ASSUME EvidenceInv, [Next]_vars PROVE EvidenceInv'
    OBVIOUS
<1>1. CASE UNCHANGED vars
    BY <1>1, Frame DEF vars
<1>2. CASE Next
    BY <1>2, UserStep, HeldoutStep, StartupStep, BaselineStep, TrainingStep, FileStep DEF Next
<1> QED BY <1>1, <1>2

\* Wherever a command is stopped, in a run, between a run and its row, in the middle
\* of an append or of a repair, and whatever is edited, checked out or exchanged
\* meanwhile: every row of the raw file names a finished run of its case, definition
\* and inputs, and no case gets a second row (multiseed, heldout and the others).
THEOREM RowsAlwaysTellTheirRuns == Spec => []RowsTellTheirRuns
<1>1. EvidenceInv => RowsTellTheirRuns
    BY DEF EvidenceInv
<1> QED BY <1>1, EvidenceInit, EvidenceStep, PTL DEF Spec

-----------------------------------------------------------------------------
(* The first file of a parallel command.                                   *)
Files == files = [f \in FileFields |-> files[f]]

\* A step that takes no reward command's temporary file and starts none.
LeavesRewards ==
    experiment = "reward" =>
        files'.temps = files.temps /\ (jobs' = jobs \/ \E name : jobs' = Without(jobs, name))

LEMMA UserFiles ==
    ASSUME Files, UserChanges \/ GitChanges
    PROVE  Files' /\ LeavesRewards /\ experiment' = experiment
<1> USE DEF Files, FileFields, LeavesRewards
<1>1. ASSUME NEW definition, Edit(definition)
      PROVE  Files' /\ LeavesRewards /\ experiment' = experiment
    BY <1>1 DEF Edit
<1>2. CASE WriteSpec \/ Commit
    BY <1>2 DEF WriteSpec, Commit
<1>3. ASSUME NEW version, ExchangeInputs(version)
      PROVE  Files' /\ LeavesRewards /\ experiment' = experiment
    BY <1>3 DEF ExchangeInputs
<1>4. ASSUME NEW name, KillJob(name)
      PROVE  Files' /\ LeavesRewards /\ experiment' = experiment
    BY <1>4 DEF KillJob
<1>5. ASSUME NEW evidence, Discard(evidence)
      PROVE  Files' /\ LeavesRewards /\ experiment' = experiment
    <2>1. /\ files' = [files EXCEPT !.evidence = @ \ {evidence}] /\ jobs' = jobs
          /\ experiment' = experiment
        BY <1>5 DEF Discard
    <2> QED BY <2>1
<1>6. ASSUME NEW sha, Checkout(sha)
      PROVE  Files' /\ LeavesRewards /\ experiment' = experiment
    BY <1>6 DEF Checkout
<1>7. CASE Kill
    <2>1. /\ jobs' = jobs /\ experiment' = experiment
          /\ files' = files \/ \E file : files' = [files EXCEPT !.records = file]
        BY <1>7 DEF Kill
    <2> QED BY <2>1
<1> QED BY <1>1, <1>2, <1>3, <1>4, <1>5, <1>6, <1>7 DEF UserChanges, GitChanges

LEMMA CommandFiles ==
    ASSUME Files,
           HeldoutNext \/ StartupNext \/ BaselineNext \/ ActionNextStep \/ SimNext \/ SelectionNext
    PROVE  Files' /\ LeavesRewards /\ experiment' = experiment
<1> USE DEF Files, FileFields, LeavesRewards
<1>1. CASE HeldoutNext
    <2>1. CASE experiment = "heldout" /\ GitChanges
        BY <2>1, UserFiles
    <2>2. CASE ~(experiment = "heldout" /\ GitChanges)
        BY <1>1, <2>2
           DEF HeldoutNext, HeldoutLoad, HeldoutBegin, HeldoutScan, HeldoutRecover,
               HeldoutCheck, HeldoutOpen, HeldoutTag, HeldoutFinish, HeldoutAppend,
               HeldoutReturn, HeldoutFreeze, HeldoutUnchanged
    <2> QED BY <2>1, <2>2
<1>2. CASE StartupNext
    BY <1>2 DEF StartupNext, StartupLoad, StartupScan, StartupRecover, StartupOpen, StartupTag,
                StartupFinish, StartupAppend, StartupReturn, StartupUnchanged
<1>3. CASE BaselineNext
    <2>1. \/ files' = files
          \/ \E file : files' = [files EXCEPT !.records = file]
          \/ \E rows : files' = [files EXCEPT !.records.rows = rows]
        BY <1>3 DEF BaselineNext, BaselineLoad, BaselineRepair, BaselineScan, BaselineDone,
                    BaselineRecover, BaselineOpen, BaselineTag, BaselineFinish, BaselineRecord,
                    BaselineAppend, BaselineReturn, Restored
    <2>2. experiment = "baseline" /\ experiment' = experiment
        BY <1>3 DEF BaselineNext, BaselineLoad, BaselineRepair, BaselineScan, BaselineDone,
                    BaselineRecover, BaselineOpen, BaselineTag, BaselineFinish, BaselineRecord,
                    BaselineAppend, BaselineReturn, BaselineUnchanged
    <2> QED BY <2>1, <2>2
<1>4. CASE ActionNextStep
    <2>1. \/ files' = files
          \/ \E temps : files' = [files EXCEPT !.temps = temps]
          \/ \E evidence : files' = [files EXCEPT !.evidence = evidence]
          \/ \E chosen : files' = [files EXCEPT !.chosen = chosen]
        BY <1>4 DEF ActionNextStep, ActionLaunch, ActionRenamed, ActionTrain, ActionBegin,
                    ActionBegun, ActionSelect, ActionRepair, ActionScan, ActionOpen, ActionTag,
                    ActionFinish, ActionAppend, ActionReturn, ActionDecide, ActionFreeze
    <2>2. experiment = "action" /\ experiment' = experiment
        BY <1>4 DEF ActionNextStep, ActionLaunch, ActionRenamed, ActionTrain, ActionBegin,
                    ActionBegun, ActionSelect, ActionRepair, ActionScan, ActionOpen, ActionTag,
                    ActionFinish, ActionAppend, ActionReturn, ActionDecide, ActionFreeze,
                    ActionUnchanged
    <2> QED BY <2>1, <2>2
<1>5. CASE SimNext
    <2>1. files' = files \/ \E manifests : files' = [files EXCEPT !.manifests = manifests]
        BY <1>5, CheckReads
           DEF SimNext, SimFreeze, SimWrite, SimInterrupted, CheckUnchanged, Written
    <2>2. experiment = "sim-to-real" /\ experiment' = experiment
        BY <1>5, CheckReads
           DEF SimNext, SimFreeze, SimWrite, SimInterrupted, CheckUnchanged, SimUnchanged
    <2> QED BY <2>1, <2>2
<1>6. CASE SelectionNext
    <2>1. \/ files' = files
          \/ \E rows : files' = [files EXCEPT !.records.rows = rows]
          \/ \E manifests : files' = [files EXCEPT !.manifests = manifests]
          \/ \E chosen : files' = [files EXCEPT !.chosen = chosen]
        BY <1>6 DEF SelectionNext, SelectionEvidence, SelectionFreeze, SelectionDiagnose,
                    SelectionSave, SelectionTable
    <2>2. experiment = "selection" /\ experiment' = experiment
        BY <1>6 DEF SelectionNext, SelectionEvidence, SelectionFreeze, SelectionDiagnose,
                    SelectionSave, SelectionTable, SelectionUnchanged
    <2> QED BY <2>1, <2>2
<1> QED BY <1>1, <1>2, <1>3, <1>4, <1>5, <1>6

\* A reward command that has not renamed its temporary file has it.
Ready(job, reward, temps) ==
    /\ "pc" \in DOMAIN job /\ job = [f \in DOMAIN job |-> job[f]]
    /\ job.pc = "rename" => TempFile(reward) \in temps

LEMMA RewardFiles ==
    ASSUME LaunchInv, RewardNext
    PROVE  LaunchInv'
<1> USE DEF FileFields
<1>1. experiment = "reward" /\ experiment' = experiment
    BY DEF RewardNext, RewardLaunch, RewardRenamed, RewardTrain, RewardSelect, RewardFreeze,
           RewardUnchanged
<1>2. /\ files = [f \in FileFields |-> files[f]]
      /\ jobs = [r \in DOMAIN jobs |-> jobs[r]]
      /\ \A r \in DOMAIN jobs : Ready(jobs[r], r, files.temps)
    BY <1>1 DEF LaunchInv, HasFields, Ready
<1>3. \/ files' = files
      \/ \E temps : files' = [files EXCEPT !.temps = temps]
      \/ \E evidence : files' = [files EXCEPT !.evidence = evidence]
      \/ \E chosen : files' = [files EXCEPT !.chosen = chosen]
    BY DEF RewardNext, RewardLaunch, RewardRenamed, RewardTrain, RewardSelect, RewardFreeze
<1>4. HasFields(files', FileFields)
    BY <1>2, <1>3 DEF HasFields
<1>5. ASSUME jobs' = [r \in DOMAIN jobs' |-> jobs'[r]],
             \A r \in DOMAIN jobs' : Ready(jobs'[r], r, files'.temps)
      PROVE  LaunchInv'
    BY <1>4, <1>5 DEF LaunchInv, Ready, TempFile
<1>6. ASSUME NEW r, jobs' = Without(jobs, r), files'.temps = files.temps \/ files'.temps = files.temps \ {TempFile(r)}
      PROVE  LaunchInv'
    <2>1. jobs' = [q \in DOMAIN jobs \ {r} |-> jobs[q]]
        BY <1>6 DEF Without
    <2>2. ASSUME NEW q \in DOMAIN jobs' PROVE Ready(jobs'[q], q, files'.temps)
        <3>1. q \in DOMAIN jobs /\ q # r /\ jobs'[q] = jobs[q]
            BY <2>1
        <3> QED BY <1>2, <1>6, <3>1 DEF Ready, TempFile
    <2> QED BY <1>5, <2>1, <2>2
<1>7. ASSUME NEW r \in DOMAIN jobs, NEW job, jobs' = [jobs EXCEPT ![r] = job],
             Ready(job, r, files'.temps),
             files'.temps = files.temps \/ files'.temps = files.temps \ {TempFile(r)}
      PROVE  LaunchInv'
    <2>1. ASSUME NEW q \in DOMAIN jobs' PROVE Ready(jobs'[q], q, files'.temps)
        <3>1. CASE q = r
            BY <1>2, <1>7, <3>1
        <3>2. CASE q # r
            <4>1. q \in DOMAIN jobs /\ jobs'[q] = jobs[q]
                BY <1>7, <3>2
            <4> QED BY <1>2, <1>7, <3>2, <4>1 DEF Ready, TempFile
        <3> QED BY <3>1, <3>2
    <2> QED BY <1>5, <1>7, <2>1
<1>8. ASSUME NEW r, RewardLaunch(r) PROVE LaunchInv'
    <2>1. PICK job : job = [pc |-> "rename", spec |-> tree.file, version |-> inputs,
                            at |-> 1, candidate |-> Nothing.index]
        OBVIOUS
    <2>2. /\ jobs' = [q \in DOMAIN jobs \cup {r} |-> IF q = r THEN job ELSE jobs[q]]
          /\ files'.temps = files.temps \cup {TempFile(r)}
        BY <1>2, <1>8, <2>1 DEF RewardLaunch, Having
    <2>3. Ready(job, r, files'.temps)
        BY <2>1, <2>2 DEF Ready
    <2>4. ASSUME NEW q \in DOMAIN jobs' PROVE Ready(jobs'[q], q, files'.temps)
        <3>1. CASE q = r
            BY <2>2, <2>3, <3>1
        <3>2. CASE q # r
            <4>1. q \in DOMAIN jobs /\ jobs'[q] = jobs[q]
                BY <2>2, <3>2
            <4> QED BY <1>2, <2>2, <4>1 DEF Ready
        <3> QED BY <3>1, <3>2
    <2> QED BY <1>5, <2>2, <2>4
<1>9. ASSUME NEW r \in DOMAIN jobs, RewardRenamed(r) PROVE LaunchInv'
    <2>1. files'.temps = files.temps \ {TempFile(r)}
        BY <1>2, <1>9 DEF RewardRenamed
    <2>2. CASE jobs' = Without(jobs, r)
        BY <1>6, <2>1, <2>2
    <2>3. CASE jobs' = [jobs EXCEPT ![r].pc = DqnScreening]
        <3>1. PICK job : job = [jobs[r] EXCEPT !.pc = DqnScreening]
            OBVIOUS
        <3>2. Ready(job, r, files'.temps)
            BY <1>2, <3>1 DEF Ready, DqnScreening
        <3>3. jobs' = [jobs EXCEPT ![r] = job]
            BY <2>3, <3>1
        <3> QED BY <1>7, <2>1, <3>2, <3>3
    <2> QED BY <1>9, <2>2, <2>3 DEF RewardRenamed
<1>10. ASSUME NEW r \in DOMAIN jobs, RewardTrain(r) PROVE LaunchInv'
    <2>1. files'.temps = files.temps
        BY <1>2, <1>10 DEF RewardTrain
    <2>2. /\ jobs[r].pc \in {DqnScreening, DqnRetraining, PpoTraining}
          /\ \/ jobs' = Without(jobs, r)
             \/ jobs' = [jobs EXCEPT ![r] = After(jobs[r])]
             \/ jobs' = [jobs EXCEPT ![r] = [jobs[r] EXCEPT !.at = @ + 1]]
        BY <1>10 DEF RewardTrain
    <2>3. CASE jobs' = Without(jobs, r)
        BY <1>6, <2>1, <2>3
    <2>4. CASE jobs' = [jobs EXCEPT ![r] = After(jobs[r])]
        <3>1. Ready(After(jobs[r]), r, files'.temps)
            BY <1>2, <2>2 DEF Ready, After, DqnScreening, DqnRetraining, PpoTraining
        <3> QED BY <1>7, <2>1, <2>4, <3>1
    <2>5. CASE jobs' = [jobs EXCEPT ![r] = [jobs[r] EXCEPT !.at = @ + 1]]
        <3>1. PICK job : job = [jobs[r] EXCEPT !.at = @ + 1]
            OBVIOUS
        <3>2. Ready(job, r, files'.temps)
            BY <1>2, <2>2, <3>1 DEF Ready, DqnScreening, DqnRetraining, PpoTraining
        <3> QED BY <1>7, <2>1, <2>5, <3>1, <3>2
    <2> QED BY <2>2, <2>3, <2>4, <2>5
<1>11. ASSUME NEW r \in DOMAIN jobs, RewardSelect(r) PROVE LaunchInv'
    <2>1. files'.temps = files.temps
        BY <1>2, <1>11 DEF RewardSelect
    <2>2. PICK pc \in {DqnRetraining, PpoTraining} :
            \E candidate :
                jobs' = [jobs EXCEPT ![r].pc = pc, ![r].candidate = candidate]
        BY <1>11 DEF RewardSelect
    <2>3. PICK candidate :
            jobs' = [jobs EXCEPT ![r].pc = pc, ![r].candidate = candidate]
        BY <2>2
    <2>4. PICK job : job = [jobs[r] EXCEPT !.pc = pc, !.candidate = candidate]
        OBVIOUS
    <2>5. Ready(job, r, files'.temps)
        BY <1>2, <2>4 DEF Ready, DqnRetraining, PpoTraining
    <2>6. jobs' = [jobs EXCEPT ![r] = job]
        BY <1>2, <2>3, <2>4
    <2> QED BY <1>7, <2>1, <2>5, <2>6
<1>12. CASE RewardFreeze
    BY <1>2, <1>5, <1>12 DEF RewardFreeze
<1> QED BY <1>8, <1>9, <1>10, <1>11, <1>12 DEF RewardNext

LEMMA LaunchStep == LaunchInv /\ [Next]_vars => LaunchInv'
<1> SUFFICES ASSUME LaunchInv, [Next]_vars PROVE LaunchInv'
    OBVIOUS
<1>1. Files
    BY DEF LaunchInv, Files, HasFields
<1>2. ASSUME Files', LeavesRewards, experiment' = experiment PROVE LaunchInv'
    <2>1. CASE experiment # "reward"
        BY <1>2, <2>1 DEF LaunchInv, Files, HasFields
    <2>2. CASE experiment = "reward"
        <3>1. \A r \in DOMAIN jobs' : r \in DOMAIN jobs /\ jobs'[r] = jobs[r]
            BY <1>2, <2>2 DEF LeavesRewards, Without
        <3>2. jobs' = [r \in DOMAIN jobs' |-> jobs'[r]]
            BY <1>2, <2>2 DEF LeavesRewards, Without, LaunchInv
        <3>3. files'.temps = files.temps
            BY <1>2, <2>2 DEF LeavesRewards
        <3> QED BY <1>2, <2>2, <3>1, <3>2, <3>3 DEF LaunchInv, Files, HasFields, TempFile
    <2> QED BY <2>1, <2>2
<1>3. CASE UNCHANGED vars
    BY <1>3 DEF vars, LaunchInv, TempFile
<1>4. CASE Next
    BY <1>1, <1>2, <1>4, UserFiles, CommandFiles, RewardFiles DEF Next
<1> QED BY <1>3, <1>4

\* The commands of the reward variants run in parallel, are stopped and started again
\* anywhere, and none finds its first temporary file renamed away by another
\* (reward_ablation, where each process has a name of its own).
THEOREM LaunchesAlwaysSurvive == Spec => []LaunchesSurvive
<1>1. Init => LaunchInv
    <2> SUFFICES ASSUME Init PROVE LaunchInv
        OBVIOUS
    <2>1. jobs = <<>> /\ files = NoFiles
        BY DEF Init
    <2>2. DOMAIN jobs = {} /\ jobs = [r \in DOMAIN jobs |-> jobs[r]]
        BY <2>1
    <2> QED BY <2>1, <2>2 DEF LaunchInv, NoFiles, HasFields, FileFields
<1>2. LaunchInv => LaunchesSurvive
    BY DEF LaunchInv, LaunchesSurvive
<1> QED BY <1>1, <1>2, LaunchStep, PTL DEF Spec
=============================================================================
