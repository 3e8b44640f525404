------------------------ MODULE EvaluationPlanProofs ------------------------
(***************************************************************************)
(* What an output directory holds, whatever plans are asked for, however   *)
(* many cases they have and wherever invocations stop.                     *)
(***************************************************************************)
EXTENDS EvaluationPlan, SequenceTheorems, FiniteSetTheorems, TLAPS

\* Rows that can stand in the file: the first cases in order, each from its
\* finished run, all of the plan that the plan file names.
Good(rows) ==
    /\ rows \in Seq(Row)
    /\ \A i \in DOMAIN rows :
        /\ rows[i].case = i
        /\ rows[i].run \in DOMAIN runs
        /\ runs[rows[i].run] = [plan |-> rows[i].plan, case |-> i, status |-> "FINISHED"]
        /\ rows[i].plan = rows[1].plan
        /\ planFile # NoPlan => rows[i].plan = planFile

\* The rows the directory stands for: while the file is rewritten, those kept
\* in memory.
Held == IF proc.pc = "rewrite" THEN proc.kept ELSE raw.rows

Types ==
    /\ planFile \in Plans \cup {NoPlan}
    /\ raw \in RawFile
    /\ runs \in Seq(Run)
    /\ proc \in Invocation

\* The file: what is not there holds nothing, an unended line is a row, and
\* from the scan on there is no torn line.
FileInv ==
    /\ raw.rows # <<>> \/ raw.tail # "clean" => raw.exists
    /\ raw.tail = "unended" => raw.rows # <<>>
    /\ proc.pc = "rewrite" => raw.exists /\ raw.rows = <<>> /\ raw.tail = "clean"
    /\ proc.pc \in {"scan", "case", "running", "append"} => raw.tail = "clean"

\* The invocation: it works on the plan in the file, knows the cases that have
\* rows, and is at the first without one when it runs or appends.
AtFirstMissing(status) ==
    /\ proc.next = Len(raw.rows) + 1 /\ proc.next <= NumCases
    /\ proc.run \in DOMAIN runs
    /\ runs[proc.run] = [plan |-> proc.plan, case |-> proc.next, status |-> status]
ProcInv ==
    /\ proc.pc # "idle" => proc.plan = planFile /\ planFile # NoPlan
    /\ proc.pc \in {"repair", "rewrite", "scan"} => proc.next = 1
    /\ proc.pc \in {"case", "running", "append"} =>
            proc.completed = 1 .. Len(raw.rows) /\ proc.next <= Len(raw.rows) + 1
    /\ proc.pc = "running" => AtFirstMissing("RUNNING")
    /\ proc.pc = "append" => AtFirstMissing("FINISHED")

PlanInv == Types /\ Good(Held) /\ FileInv /\ ProcInv

-----------------------------------------------------------------------------
\* A prefix of good rows is good.
LEMMA GoodPrefix ==
    ASSUME NEW rows, Good(rows), NEW k \in 0 .. Len(rows)
    PROVE  Good(SubSeq(rows, 1, k)) /\ Len(SubSeq(rows, 1, k)) = k
<1>1. rows \in Seq(Row)
    BY DEF Good
<1>2. /\ SubSeq(rows, 1, k) \in Seq(Row) /\ Len(SubSeq(rows, 1, k)) = k
      /\ \A i \in 1 .. k : SubSeq(rows, 1, k)[i] = rows[i]
    BY <1>1
<1>3. DOMAIN SubSeq(rows, 1, k) = 1 .. k /\ 1 .. k \subseteq DOMAIN rows
    BY <1>1, <1>2
<1> QED BY <1>2, <1>3 DEF Good

\* The row of the next case, from its finished run, extends good rows.
LEMMA GoodAppend ==
    ASSUME NEW rows, Good(rows), planFile # NoPlan, NEW row \in Row,
           row.case = Len(rows) + 1, row.plan = planFile, row.run \in DOMAIN runs,
           runs[row.run] = [plan |-> row.plan, case |-> row.case, status |-> "FINISHED"]
    PROVE  Good(Append(rows, row)) /\ Len(Append(rows, row)) = Len(rows) + 1
<1>1. rows \in Seq(Row)
    BY DEF Good
<1>2. /\ Append(rows, row) \in Seq(Row) /\ Len(Append(rows, row)) = Len(rows) + 1
      /\ \A i \in DOMAIN rows : Append(rows, row)[i] = rows[i]
      /\ Append(rows, row)[Len(rows) + 1] = row
      /\ DOMAIN Append(rows, row) = DOMAIN rows \cup {Len(rows) + 1}
    BY <1>1
<1> DEFINE longer == Append(rows, row)
<1>3. ASSUME NEW i \in DOMAIN longer
      PROVE  /\ longer[i].case = i
             /\ longer[i].run \in DOMAIN runs
             /\ runs[longer[i].run] = [plan |-> longer[i].plan, case |-> i, status |-> "FINISHED"]
             /\ longer[i].plan = planFile
    <2>1. CASE i \in DOMAIN rows
        <3>1. longer[i] = rows[i]
            BY <1>2, <2>1
        <3> HIDE DEF longer
        <3> QED BY <2>1, <3>1 DEF Good
    <2>2. CASE i = Len(rows) + 1
        <3>1. longer[i] = row
            BY <1>2, <2>2
        <3> HIDE DEF longer
        <3> QED BY <2>2, <3>1
    <2> QED BY <1>2, <2>1, <2>2
<1>4. 1 \in DOMAIN longer
    BY <1>1, <1>2
<1>5. longer \in Seq(Row) /\ Len(longer) = Len(rows) + 1
    BY <1>2
<1> HIDE DEF longer
<1>6. Good(longer)
    BY <1>3, <1>4, <1>5 DEF Good
<1> QED BY <1>5, <1>6 DEF longer

\* Rows stay good while finished runs stay and the plan file does not change to
\* another plan.
LEMMA GoodStays ==
    ASSUME NEW rows, Good(rows), Types,
           \A r \in DOMAIN runs :
                runs[r].status = "FINISHED" => r \in DOMAIN runs' /\ runs'[r] = runs[r],
           planFile' \in {planFile, NoPlan}
    PROVE  Good(rows)'
    BY DEF Good

\* There are never more rows than cases.
LEMMA GoodLength ==
    ASSUME NEW rows, Good(rows)
    PROVE  Len(rows) \in 0 .. NumCases
<1>1. rows \in Seq(Row) /\ Len(rows) \in Nat
    BY DEF Good
<1>2. CASE Len(rows) = 0
    BY <1>2, PlanConfig
<1>3. CASE Len(rows) # 0
    <2>1. Len(rows) \in DOMAIN rows
        BY <1>1, <1>3
    <2>2. rows[Len(rows)].case = Len(rows)
        BY <2>1 DEF Good
    <2>3. rows[Len(rows)] \in Row
        BY <1>1, <2>1
    <2> QED BY <1>1, <2>2, <2>3, PlanConfig DEF Row, Cases
<1> QED BY <1>2, <1>3

\* The cases that have rows of the plan, once every row is of that plan.
LEMMA CompletedIs ==
    ASSUME Good(raw.rows), planFile # NoPlan
    PROVE  CompletedOf(planFile) = 1 .. Len(raw.rows)
<1>1. DOMAIN raw.rows = 1 .. Len(raw.rows)
    BY DEF Good
<1> QED BY <1>1 DEF Good, CompletedOf

\* Whatever an interrupted append or rewrite leaves is good.
LEMMA InterruptedGood ==
    ASSUME NEW file \in Interrupted(raw, RowToAppend),
           raw \in RawFile, raw.tail = "clean", Good(raw.rows),
           Good(Append(raw.rows, RowToAppend)),
           raw.rows # <<>> => raw.exists
    PROVE  /\ file \in RawFile /\ Good(file.rows)
           /\ file.rows # <<>> \/ file.tail # "clean" => file.exists
           /\ file.tail = "unended" => file.rows # <<>>
<1>1. raw.rows \in Seq(Row) /\ Append(raw.rows, RowToAppend) \in Seq(Row)
    BY DEF Good
<1>2. Append(raw.rows, RowToAppend) # <<>>
    <2> DEFINE longer == Append(raw.rows, RowToAppend)
    <2>1. Len(longer) = Len(raw.rows) + 1 /\ Len(raw.rows) \in Nat
        BY <1>1
    <2> QED BY <2>1
<1> DEFINE longer == Append(raw.rows, RowToAppend)
<1> HIDE DEF longer
<1>3. WithRow(raw, RowToAppend) = [exists |-> TRUE, tail |-> "clean", rows |-> longer]
    BY DEF WithRow, longer
<1>4. longer \in Seq(Row) /\ Good(longer) /\ longer # <<>>
    BY <1>1, <1>2 DEF longer
<1>5. file \in {raw, [raw EXCEPT !.exists = TRUE],
                [raw EXCEPT !.exists = TRUE, !.tail = "partial"],
                [exists |-> TRUE, tail |-> "unended", rows |-> longer],
                [exists |-> TRUE, tail |-> "clean", rows |-> longer]}
    BY <1>3 DEF Interrupted, longer
<1>6. CASE file = raw
    BY <1>6
<1>7. CASE file = [raw EXCEPT !.exists = TRUE] \/ file = [raw EXCEPT !.exists = TRUE, !.tail = "partial"]
    <2>1. file.exists = TRUE /\ file.rows = raw.rows /\ file.tail \in {"clean", "partial"} /\ file \in RawFile
        BY <1>7 DEF RawFile
    <2> QED BY <2>1
<1>8. ASSUME NEW tail \in {"unended", "clean"},
             file = [exists |-> TRUE, tail |-> tail, rows |-> longer]
      PROVE  file \in RawFile /\ file.exists = TRUE /\ file.rows = longer
    <2>1. longer \in Seq(Row) /\ TRUE \in BOOLEAN
        BY <1>4
    <2> QED BY <1>8, <2>1 DEF RawFile
<1> QED BY <1>4, <1>5, <1>6, <1>7, <1>8

-----------------------------------------------------------------------------
\* Every step of the code keeps the invariant.
LEMMA PlanStep == ASSUME PlanInv, [Next]_vars PROVE PlanInv'
<1>1. /\ Types /\ Good(Held) /\ FileInv /\ ProcInv
      /\ proc \in Invocation /\ raw \in RawFile /\ runs \in Seq(Run)
      /\ planFile \in Plans \cup {NoPlan}
    BY DEF PlanInv, Types
<1>2. /\ raw.rows \in Seq(Row) /\ Len(raw.rows) \in Nat
      /\ DOMAIN raw.rows = 1 .. Len(raw.rows)
    BY <1>1 DEF RawFile
<1>3. proc.pc # "rewrite" => Good(raw.rows)
    BY <1>1 DEF Held
\* Steps that touch neither the rows that count nor a run.
<1>4. ASSUME UNCHANGED <<planFile, raw, runs>>, Held' = Held,
             proc' \in Invocation, FileInv', ProcInv'
      PROVE  PlanInv'
    <2>1. Types'
        BY <1>1, <1>4 DEF Types
    <2>2. Good(Held)'
        BY <1>1, <1>4 DEF Good
    <2> QED BY <1>4, <2>1, <2>2 DEF PlanInv
<1>5. /\ Idle \in Invocation /\ Idle.pc = "idle" /\ Idle.next = 1
       /\ <<>> \in Seq(Row)
    BY PlanConfig DEF Idle, Invocation
<1>6. ASSUME NEW plan \in Plans, NEW resume \in BOOLEAN, Invoke(plan, resume) PROVE PlanInv'
    <2>1. proc.pc = "idle" /\ UNCHANGED <<raw, runs>>
        BY <1>6 DEF Invoke
    <2>2. CASE Refusal(plan, resume) # "accepted"
        <3>1. UNCHANGED <<planFile, proc>>
            BY <1>6, <2>2 DEF Invoke
        <3> QED BY <1>1, <2>1, <3>1 DEF PlanInv, Types, Held, Good, FileInv, ProcInv, AtFirstMissing
    <2>3. CASE Refusal(plan, resume) = "accepted"
        <3>1. /\ planFile' = plan
              /\ proc' = [Idle EXCEPT !.pc = "repair", !.plan = plan, !.resume = resume]
            BY <1>6, <2>3 DEF Invoke
        <3>2. /\ proc' \in Invocation /\ proc'.pc = "repair" /\ proc'.plan = plan /\ proc'.next = 1
            BY <1>5, <3>1 DEF Invocation
        <3>3. planFile = plan \/ (planFile = NoPlan /\ ~raw.exists)
            BY <1>1, <2>3 DEF Refusal, RawFile
        <3>4. raw.rows = <<>> \/ planFile = plan
            BY <1>1, <3>3 DEF FileInv
        <3>5. Good(raw.rows)'
            <4>1. CASE planFile = plan
                BY <1>3, <2>1, <3>1, <4>1 DEF Good
            <4>2. CASE raw.rows = <<>>
                <5>1. raw'.rows = <<>> /\ DOMAIN raw'.rows = {}
                    BY <2>1, <4>2
                <5>2. raw'.rows \in Seq(Row)
                    BY <1>2, <2>1
                <5> QED BY <5>1, <5>2 DEF Good
            <4> QED BY <3>4, <4>1, <4>2
        <3>6. Types'
            BY <1>1, <2>1, <3>1, <3>2 DEF Types
        <3>7. FileInv' /\ ProcInv'
            BY <1>1, <2>1, <3>1, <3>2, PlanConfig DEF FileInv, ProcInv
        <3> QED BY <3>2, <3>5, <3>6, <3>7 DEF PlanInv, Held
    <2> QED BY <2>2, <2>3
<1>7. CASE Repair
    <2>1. proc.pc = "repair" /\ UNCHANGED <<planFile, runs>>
        BY <1>7 DEF Repair
    <2>2. CASE raw.tail = "clean"
        <3>1. proc' = [proc EXCEPT !.pc = "scan"] /\ raw' = raw
            BY <1>7, <2>2 DEF Repair
        <3>2. /\ proc' \in Invocation /\ proc'.pc = "scan" /\ proc'.plan = proc.plan
              /\ proc'.next = proc.next
            BY <1>1, <3>1 DEF Invocation
        <3>3. Held' = Held
            BY <2>1, <3>1, <3>2 DEF Held
        <3>4. FileInv' /\ ProcInv'
            BY <1>1, <2>1, <2>2, <3>1, <3>2 DEF FileInv, ProcInv
        <3> QED BY <1>4, <2>1, <3>1, <3>2, <3>3, <3>4
    <2>3. CASE raw.tail # "clean"
        <3> DEFINE kept == IF raw.tail = "unended" THEN Front(raw.rows) ELSE raw.rows
        <3>1. /\ proc' = [proc EXCEPT !.pc = "rewrite", !.kept = kept]
              /\ raw' = [raw EXCEPT !.rows = <<>>, !.tail = "clean"]
            BY <1>7, <2>3 DEF Repair
        <3>2. raw.tail = "unended" => Len(raw.rows) - 1 \in 0 .. Len(raw.rows)
            BY <1>1, <1>2 DEF FileInv
        <3>3. Good(kept)
            BY <1>3, <2>1, <3>2, GoodPrefix DEF Front
        <3> HIDE DEF kept
        <3>4. kept \in Seq(Row)
            BY <3>3 DEF Good
        <3>5. /\ proc' \in Invocation /\ proc'.pc = "rewrite" /\ proc'.kept = kept
              /\ proc'.plan = proc.plan /\ proc'.next = proc.next
            BY <1>1, <3>1, <3>4 DEF Invocation
        <3>6. raw' \in RawFile /\ raw'.rows = <<>> /\ raw'.tail = "clean" /\ raw'.exists = raw.exists
            BY <1>1, <1>5, <3>1 DEF RawFile
        <3>7. Types'
            BY <1>1, <2>1, <3>5, <3>6 DEF Types
        <3>8. Good(Held)'
            BY <2>1, <3>3, <3>5 DEF Held, Good
        <3>9. FileInv' /\ ProcInv'
            BY <1>1, <2>1, <2>3, <3>5, <3>6 DEF FileInv, ProcInv
        <3> QED BY <3>7, <3>8, <3>9 DEF PlanInv
    <2> QED BY <2>2, <2>3
<1>8. CASE Rewrite
    <2>1. /\ proc.pc = "rewrite" /\ UNCHANGED <<planFile, runs>>
          /\ raw' = [raw EXCEPT !.rows = proc.kept]
          /\ proc' = [proc EXCEPT !.pc = "scan", !.kept = <<>>]
        BY <1>8 DEF Rewrite
    <2>2. /\ proc' \in Invocation /\ proc'.pc = "scan" /\ proc'.plan = proc.plan
          /\ proc'.next = proc.next
        BY <1>1, <1>5, <2>1 DEF Invocation
    <2>3. /\ raw' \in RawFile /\ raw'.rows = proc.kept /\ raw'.tail = raw.tail
          /\ raw'.exists = raw.exists
        BY <1>1, <2>1 DEF RawFile, Invocation
    <2>4. Types'
        BY <1>1, <2>1, <2>2, <2>3 DEF Types
    <2>5. Good(Held)'
        BY <1>1, <2>1, <2>2, <2>3 DEF Held, Good
    <2>6. FileInv' /\ ProcInv'
        BY <1>1, <2>1, <2>2, <2>3 DEF FileInv, ProcInv
    <2> QED BY <2>4, <2>5, <2>6 DEF PlanInv
<1>9. CASE Scan
    <2>1. /\ proc.pc = "scan" /\ UNCHANGED <<planFile, raw, runs>>
          /\ proc' = [proc EXCEPT !.pc = "case", !.completed = CompletedOf(proc.plan)]
        BY <1>9 DEF Scan
    <2>2. CompletedOf(proc.plan) = 1 .. Len(raw.rows)
        BY <1>1, <1>3, <2>1, CompletedIs DEF ProcInv
    <2>3. 1 .. Len(raw.rows) \subseteq Cases
        BY <1>3, <2>1, GoodLength, PlanConfig DEF Cases
    <2>4. /\ proc' \in Invocation /\ proc'.pc = "case" /\ proc'.plan = proc.plan
          /\ proc'.completed = 1 .. Len(raw.rows) /\ proc'.next = proc.next
        BY <1>1, <2>1, <2>2, <2>3 DEF Invocation
    <2>5. Held' = Held
        BY <2>1, <2>4 DEF Held
    <2>6. FileInv' /\ ProcInv'
        BY <1>1, <1>2, <2>1, <2>4 DEF FileInv, ProcInv
    <2> QED BY <1>4, <2>1, <2>4, <2>5, <2>6
\* Within the cases, the next one has a row or is the first without.
<1>10. ASSUME proc.pc = "case" PROVE
        /\ Good(raw.rows) /\ proc.plan = planFile /\ planFile \in Plans
        /\ proc.completed = 1 .. Len(raw.rows) /\ proc.next <= Len(raw.rows) + 1
        /\ proc.next \in Nat \ {0}
        /\ proc.next \notin proc.completed => proc.next = Len(raw.rows) + 1
    <2>1. /\ Good(raw.rows) /\ proc.plan = planFile /\ planFile \in Plans
          /\ proc.completed = 1 .. Len(raw.rows) /\ proc.next <= Len(raw.rows) + 1
        BY <1>1, <1>3, <1>10 DEF ProcInv
    <2>2. proc.next \in Nat \ {0}
        BY <1>1, PlanConfig DEF Invocation
    <2> QED BY <1>2, <2>1, <2>2
<1>11. CASE Skip
    <2>1. /\ proc.pc = "case" /\ proc.next <= NumCases /\ proc.next \in proc.completed
          /\ proc' = [proc EXCEPT !.next = @ + 1] /\ UNCHANGED <<planFile, raw, runs>>
        BY <1>11 DEF Skip, Remaining
    <2>2. /\ proc' \in Invocation /\ proc'.pc = "case" /\ proc'.plan = proc.plan
          /\ proc'.next = proc.next + 1 /\ proc'.completed = proc.completed
        <3>1. NumCases \in Nat /\ proc \in Invocation
            BY <1>1, PlanConfig
        <3>2. proc.next \in 1 .. NumCases + 1
            BY <3>1 DEF Invocation
        <3>3. proc.next + 1 \in 1 .. NumCases + 1
            BY <2>1, <3>1, <3>2
        <3>4. proc' = [proc EXCEPT !.next = @ + 1]
            BY <2>1
        <3>5. proc' \in Invocation
            BY <3>1, <3>3, <3>4 DEF Invocation
        <3>6. /\ proc'.pc = proc.pc /\ proc'.plan = proc.plan
              /\ proc'.next = proc.next + 1 /\ proc'.completed = proc.completed
            BY <3>1, <3>4 DEF Invocation
        <3> QED BY <2>1, <3>5, <3>6
    <2>3. proc.next + 1 <= Len(raw.rows) + 1
        BY <1>2, <1>10, <2>1
    <2>4. Held' = Held
        BY <2>1, <2>2 DEF Held
    <2>5. FileInv' /\ ProcInv'
        BY <1>1, <1>10, <2>1, <2>2, <2>3 DEF FileInv, ProcInv
    <2> QED BY <1>4, <2>1, <2>2, <2>4, <2>5
<1>12. CASE Recover
    <2>1. PICK i \in Recoverable(proc.plan, proc.next) :
            proc' = [proc EXCEPT !.pc = "append", !.run = i]
        BY <1>12 DEF Recover
    <2>2. /\ proc.pc = "case" /\ proc.next <= NumCases /\ proc.next \notin proc.completed
          /\ UNCHANGED <<planFile, raw, runs>>
        BY <1>12 DEF Recover, Remaining
    <2>3. /\ i \in DOMAIN runs /\ i \in Nat
          /\ runs[i] = [plan |-> proc.plan, case |-> proc.next, status |-> "FINISHED"]
        <3>1. /\ i \in DOMAIN runs /\ runs[i].plan = proc.plan /\ runs[i].case = proc.next
              /\ runs[i].status = "FINISHED"
            BY <2>1 DEF Recoverable
        <3>2. i \in Nat /\ runs[i] \in Run
            BY <1>1, <3>1
        <3> QED BY <3>1, <3>2 DEF Run
    <2>4. /\ proc' \in Invocation /\ proc'.pc = "append" /\ proc'.plan = proc.plan /\ proc'.run = i
          /\ proc'.next = proc.next /\ proc'.completed = proc.completed
        BY <1>1, <2>1, <2>3 DEF Invocation
    <2>5. Held' = Held
        BY <2>2, <2>4 DEF Held
    <2>6. FileInv'
        BY <1>1, <2>2, <2>4 DEF FileInv
    <2>7. ProcInv'
        BY <1>1, <1>10, <2>2, <2>3, <2>4 DEF ProcInv, AtFirstMissing
    <2> QED BY <1>4, <2>2, <2>4, <2>5, <2>6, <2>7
<1>13. CASE Evaluate
    <2> DEFINE run == [plan |-> proc.plan, case |-> proc.next, status |-> "RUNNING"]
    <2>1. /\ proc.pc = "case" /\ proc.next <= NumCases /\ proc.next \notin proc.completed
          /\ runs' = Append(runs, run) /\ UNCHANGED <<planFile, raw>>
          /\ proc' = [proc EXCEPT !.pc = "running", !.run = Len(runs')]
        BY <1>13 DEF Evaluate, Remaining
    <2>2. run \in Run
        BY <1>10, <2>1, PlanConfig DEF Run, Cases
    <2> HIDE DEF run
    <2>3. /\ runs' \in Seq(Run) /\ Len(runs') \in DOMAIN runs' /\ runs'[Len(runs')] = run
          /\ Len(runs') \in Nat
          /\ \A r \in DOMAIN runs : r \in DOMAIN runs' /\ runs'[r] = runs[r]
        BY <1>1, <2>1, <2>2
    <2>4. /\ proc' \in Invocation /\ proc'.pc = "running" /\ proc'.plan = proc.plan
          /\ proc'.run = Len(runs')
          /\ proc'.next = proc.next /\ proc'.completed = proc.completed
        BY <1>1, <2>1, <2>3 DEF Invocation
    <2>5. Types'
        BY <1>1, <2>1, <2>3, <2>4 DEF Types
    <2>6. Good(Held)'
        <3>1. Good(raw.rows)'
            <4>1. raw'.rows = raw.rows
                BY <2>1
            <4> QED BY <1>1, <1>10, <2>1, <2>3, <4>1 DEF Good
        <3> QED BY <2>4, <3>1 DEF Held
    <2>7. FileInv'
        BY <1>1, <2>1, <2>4 DEF FileInv
    <2>8. ProcInv'
        BY <1>1, <1>10, <2>1, <2>3, <2>4 DEF ProcInv, AtFirstMissing, run
    <2> QED BY <2>5, <2>6, <2>7, <2>8 DEF PlanInv
\* Ending the run under way leaves the rows good.
<1>14. ASSUME NEW status \in {"RUNNING", "FINISHED", "FAILED", "KILLED"}, proc.pc = "running",
              runs' = [runs EXCEPT ![proc.run].status = status],
              UNCHANGED <<planFile, raw>>
       PROVE  /\ runs' \in Seq(Run) /\ Good(raw.rows)' /\ proc.run \in DOMAIN runs'
              /\ runs'[proc.run] = [plan |-> proc.plan, case |-> proc.next, status |-> status]
    <2>1. /\ proc.run \in DOMAIN runs
          /\ runs[proc.run] = [plan |-> proc.plan, case |-> proc.next, status |-> "RUNNING"]
        BY <1>1, <1>14 DEF ProcInv, AtFirstMissing
    <2>2. runs[proc.run] \in Run
        BY <1>1, <2>1
    <2>3. [runs[proc.run] EXCEPT !.status = status]
            = [plan |-> proc.plan, case |-> proc.next, status |-> status]
        BY <2>1
    <2>4. [runs[proc.run] EXCEPT !.status = status] \in Run
        BY <2>2, <1>14 DEF Run
    <2>5. /\ runs' \in Seq(Run) /\ DOMAIN runs' = DOMAIN runs
          /\ runs'[proc.run] = [runs[proc.run] EXCEPT !.status = status]
          /\ \A r \in DOMAIN runs : r # proc.run => runs'[r] = runs[r]
        BY <1>1, <1>14, <2>1, <2>4
    <2>6. \A r \in DOMAIN runs : runs[r].status = "FINISHED" =>
                r \in DOMAIN runs' /\ runs'[r] = runs[r]
        BY <2>1, <2>5
    <2>7. Good(raw.rows)'
        <3>1. raw'.rows = raw.rows /\ Good(raw.rows)
            BY <1>3, <1>14
        <3> QED BY <1>14, <2>6, <3>1 DEF Good
    <2> QED BY <2>1, <2>3, <2>5, <2>7
<1>15. CASE Finish
    <2>1. /\ proc.pc = "running" /\ runs' = [runs EXCEPT ![proc.run].status = "FINISHED"]
          /\ proc' = [proc EXCEPT !.pc = "append"] /\ UNCHANGED <<planFile, raw>>
        BY <1>15 DEF Finish
    <2>2. /\ proc' \in Invocation /\ proc'.pc = "append" /\ proc'.plan = proc.plan
          /\ proc'.run = proc.run
          /\ proc'.next = proc.next /\ proc'.completed = proc.completed
        BY <1>1, <2>1 DEF Invocation
    <2>3. /\ runs' \in Seq(Run) /\ Good(raw.rows)' /\ proc.run \in DOMAIN runs'
          /\ runs'[proc.run] = [plan |-> proc.plan, case |-> proc.next, status |-> "FINISHED"]
        BY <1>14, <2>1
    <2>4. Types'
        BY <1>1, <2>1, <2>2, <2>3 DEF Types
    <2>5. Good(Held)'
        BY <2>2, <2>3 DEF Held
    <2>6. FileInv'
        BY <1>1, <2>1, <2>2 DEF FileInv
    <2>7. ProcInv'
        BY <1>1, <2>1, <2>2, <2>3 DEF ProcInv, AtFirstMissing
    <2> QED BY <2>4, <2>5, <2>6, <2>7 DEF PlanInv
\* The row an append adds is the next one.
<1>16. ASSUME proc.pc = "append"
       PROVE  /\ Good(raw.rows) /\ raw.tail = "clean" /\ RowToAppend \in Row
              /\ Good(Append(raw.rows, RowToAppend))
              /\ Len(Append(raw.rows, RowToAppend)) = Len(raw.rows) + 1
              /\ proc.next = Len(raw.rows) + 1 /\ proc.next <= NumCases
              /\ proc.plan = planFile /\ planFile # NoPlan
              /\ proc.completed = 1 .. Len(raw.rows)
    <2>1. /\ Good(raw.rows) /\ raw.tail = "clean" /\ proc.plan = planFile /\ planFile # NoPlan
          /\ AtFirstMissing("FINISHED") /\ proc.completed = 1 .. Len(raw.rows)
        BY <1>1, <1>3, <1>16 DEF FileInv, ProcInv
    <2>2. RowToAppend \in Row
        BY <1>1, <1>2, <2>1, PlanConfig DEF RowToAppend, Row, Cases, AtFirstMissing
    <2>3. /\ RowToAppend.case = Len(raw.rows) + 1 /\ RowToAppend.plan = planFile
          /\ RowToAppend.run \in DOMAIN runs
          /\ runs[RowToAppend.run] = [plan |-> RowToAppend.plan, case |-> RowToAppend.case,
                                      status |-> "FINISHED"]
        BY <2>1 DEF RowToAppend, AtFirstMissing
    <2> QED BY <2>1, <2>2, <2>3, GoodAppend DEF AtFirstMissing
<1>17. CASE AppendRow
    <2> DEFINE rows == Append(raw.rows, RowToAppend)
    <2>1. /\ proc.pc = "append" /\ raw' = WithRow(raw, RowToAppend)
          /\ proc' = [proc EXCEPT !.pc = "case", !.completed = @ \cup {proc.next},
                                  !.next = @ + 1, !.run = 0]
          /\ UNCHANGED <<planFile, runs>>
        BY <1>17 DEF AppendRow
    <2>2. raw' = [exists |-> TRUE, tail |-> "clean", rows |-> rows]
        BY <1>16, <2>1 DEF WithRow
    <2>3. Good(rows) /\ Len(rows) = Len(raw.rows) + 1
        BY <1>16, <2>1
    <2> HIDE DEF rows
    <2>4. rows \in Seq(Row)
        BY <2>3 DEF Good
    <2>5. raw' \in RawFile /\ raw'.exists /\ raw'.tail = "clean" /\ raw'.rows = rows
        BY <2>2, <2>4 DEF RawFile
    <2>6. /\ proc' \in Invocation /\ proc'.pc = "case" /\ proc'.plan = proc.plan
          /\ proc'.next = Len(raw.rows) + 2
          /\ proc'.completed = 1 .. Len(raw.rows) + 1
        <3>1. proc.next \in Cases
            BY <1>2, <1>16, <2>1, PlanConfig DEF Cases
        <3>2. proc.completed \cup {proc.next} = 1 .. Len(raw.rows) + 1
            BY <1>2, <1>16, <2>1
        <3>3. /\ proc.completed \cup {proc.next} \in SUBSET Cases
              /\ proc.next + 1 \in 1 .. NumCases + 1 /\ proc.next + 1 = Len(raw.rows) + 2
            BY <1>1, <1>2, <1>16, <2>1, <3>1, PlanConfig DEF Cases, Invocation
        <3> QED BY <1>1, <2>1, <3>2, <3>3 DEF Invocation
    <2>7. Types'
        BY <1>1, <2>1, <2>5, <2>6 DEF Types
    <2>8. Good(Held)'
        BY <2>1, <2>3, <2>5, <2>6 DEF Held, Good
    <2>9. FileInv'
        BY <2>5, <2>6 DEF FileInv
    <2>10. ProcInv'
        BY <1>2, <1>16, <2>1, <2>3, <2>5, <2>6 DEF ProcInv
    <2> QED BY <2>7, <2>8, <2>9, <2>10 DEF PlanInv
<1>18. CASE Return
    <2>1. proc.pc = "case" /\ proc' = Idle /\ UNCHANGED <<planFile, raw, runs>>
        BY <1>18 DEF Return
    <2>2. Held' = Held
        BY <1>5, <2>1 DEF Held
    <2>3. FileInv' /\ ProcInv'
        BY <1>1, <1>5, <2>1 DEF FileInv, ProcInv
    <2> QED BY <1>4, <1>5, <2>1, <2>2, <2>3
<1>19. ASSUME NEW status \in {"RUNNING", "FAILED", "KILLED"}, Stop(status) PROVE PlanInv'
    <2>1. /\ proc.pc # "idle" /\ proc' = Idle /\ planFile' = planFile
          /\ runs' = IF proc.pc = "running" THEN [runs EXCEPT ![proc.run].status = status] ELSE runs
        BY <1>19 DEF Stop
    <2>2. ProcInv'
        BY <1>5, <2>1 DEF ProcInv
    \* It suffices that the file that is left is good.
    <2>3. ASSUME runs' \in Seq(Run), raw' \in RawFile, Good(raw.rows)',
                 raw'.rows # <<>> \/ raw'.tail # "clean" => raw'.exists,
                 raw'.tail = "unended" => raw'.rows # <<>>
          PROVE  PlanInv'
        <3>1. Types'
            BY <1>1, <1>5, <2>1, <2>3 DEF Types
        <3>2. Good(Held)'
            BY <1>5, <2>1, <2>3 DEF Held
        <3>3. FileInv'
            BY <1>5, <2>1, <2>3 DEF FileInv
        <3> QED BY <2>2, <3>1, <3>2, <3>3 DEF PlanInv
    <2>4. CASE proc.pc = "append"
        <3>1. raw' \in Interrupted(raw, RowToAppend) /\ runs' = runs
            BY <1>19, <2>1, <2>4 DEF Stop
        <3>2. raw.rows # <<>> => raw.exists
            BY <1>1 DEF FileInv
        <3>3. /\ raw' \in RawFile /\ Good(raw'.rows)
              /\ raw'.rows # <<>> \/ raw'.tail # "clean" => raw'.exists
              /\ raw'.tail = "unended" => raw'.rows # <<>>
            BY <1>1, <1>16, <2>4, <3>1, <3>2, InterruptedGood
        <3>4. Good(raw.rows)'
            BY <2>1, <3>1, <3>3 DEF Good
        <3> QED BY <1>1, <2>3, <3>1, <3>3, <3>4
    <2>5. CASE proc.pc = "rewrite"
        <3>1. /\ raw' \in [exists : {TRUE}, tail : {"clean", "partial"},
                           rows : {SubSeq(proc.kept, 1, k) : k \in 0 .. Len(proc.kept)}]
              /\ runs' = runs
            BY <1>19, <2>1, <2>5 DEF Stop
        <3>2. PICK k \in 0 .. Len(proc.kept) : raw'.rows = SubSeq(proc.kept, 1, k)
            BY <3>1
        <3>3. Good(proc.kept)
            BY <1>1, <2>5 DEF Held
        <3>4. Good(raw'.rows)
            BY <3>2, <3>3, GoodPrefix
        <3>5. Good(raw.rows)'
            BY <2>1, <3>1, <3>4 DEF Good
        <3>6. /\ raw' \in RawFile /\ raw'.exists /\ raw'.tail \in {"clean", "partial"}
            <4>1. raw'.rows \in Seq(Row)
                BY <3>4 DEF Good
            <4> QED BY <3>1, <4>1 DEF RawFile
        <3> QED BY <1>1, <2>3, <3>1, <3>5, <3>6
    <2>6. CASE proc.pc \notin {"append", "rewrite"}
        <3>1. raw' = raw
            BY <1>19, <2>6 DEF Stop
        <3>2. runs' \in Seq(Run) /\ Good(raw.rows)'
            <4>1. CASE proc.pc = "running"
                BY <1>14, <2>1, <3>1, <4>1
            <4>2. CASE proc.pc # "running"
                BY <1>1, <1>3, <2>1, <2>6, <3>1, <4>2 DEF Good
            <4> QED BY <4>1, <4>2
        <3> QED BY <1>1, <2>3, <3>1, <3>2 DEF FileInv
    <2> QED BY <2>4, <2>5, <2>6
<1>20. CASE Summarize
    <2>1. UNCHANGED <<planFile, raw, runs, proc>>
        BY <1>20 DEF Summarize
    <2> QED BY <1>1, <2>1 DEF PlanInv, Types, Held, Good, FileInv, ProcInv, AtFirstMissing
<1>21. CASE RemovePlan
    <2>1. /\ proc.pc = "idle" /\ planFile' = NoPlan /\ UNCHANGED <<raw, runs, proc>>
        BY <1>21 DEF RemovePlan
    <2> QED BY <1>1, <2>1 DEF PlanInv, Types, Held, Good, FileInv, ProcInv
<1>22. CASE UNCHANGED vars
    <2>1. UNCHANGED <<planFile, raw, runs, proc>>
        BY <1>22 DEF vars
    <2> QED BY <1>1, <2>1 DEF PlanInv, Types, Held, Good, FileInv, ProcInv, AtFirstMissing
<1> QED
    BY <1>6, <1>7, <1>8, <1>9, <1>11, <1>12, <1>13, <1>15, <1>17, <1>18, <1>19, <1>20,
       <1>21, <1>22
    DEF Next, Work

\* An output directory is in order whatever is invoked and wherever it stops.
THEOREM PlanInvariant == Spec => []PlanInv
<1>1. Init => PlanInv
    <2> SUFFICES ASSUME Init PROVE PlanInv
        OBVIOUS
    <2>1. raw.rows = <<>> /\ raw.rows \in Seq(Row) /\ DOMAIN raw.rows = {} /\ runs \in Seq(Run)
        BY DEF Init
    <2>2. proc.pc = "idle" /\ proc \in Invocation
        BY PlanConfig DEF Init, Idle, Invocation
    <2>3. Types
        BY <2>1, <2>2 DEF Init, Types, RawFile
    <2>4. Good(Held)
        BY <2>1, <2>2 DEF Held, Good
    <2>5. FileInv /\ ProcInv
        BY <2>1, <2>2 DEF Init, FileInv, ProcInv
    <2> QED BY <2>3, <2>4, <2>5 DEF PlanInv
<1> QED BY <1>1, PlanStep, PTL DEF Spec

\* Good rows in memory or in the file: while the file is rewritten it is empty.
LEMMA FileIsGood == PlanInv => Good(raw.rows)
<1> SUFFICES ASSUME PlanInv PROVE Good(raw.rows)
    OBVIOUS
<1>1. CASE proc.pc = "rewrite"
    <2>1. raw.rows = <<>> /\ raw.rows \in Seq(Row)
        BY <1>1 DEF PlanInv, FileInv, Types, RawFile
    <2> QED BY <2>1 DEF Good
<1>2. CASE proc.pc # "rewrite"
    BY <1>2 DEF PlanInv, Held
<1> QED BY <1>1, <1>2

\* No case is counted twice and none is passed over.
THEOREM RowsComeInOrder == Spec => []RowsInPlanOrder
<1>1. PlanInv => RowsInPlanOrder
    BY FileIsGood DEF Good, RowsInPlanOrder
<1> QED BY <1>1, PlanInvariant, PTL

\* Every row is that of a finished run of its case.
THEOREM RowsHaveFinishedRuns == Spec => []RowsFromFinishedRuns
<1>1. PlanInv => RowsFromFinishedRuns
    BY FileIsGood DEF Good, RowsFromFinishedRuns
<1> QED BY <1>1, PlanInvariant, PTL

\* A directory never mixes plans, deleted plan files included.
THEOREM DirectoryOfOnePlan == Spec => []OnePlanPerDirectory
<1>1. PlanInv => OnePlanPerDirectory
    BY FileIsGood DEF Good, OnePlanPerDirectory
<1> QED BY <1>1, PlanInvariant, PTL

-----------------------------------------------------------------------------
\* The run belongs to a plan whose file nobody deletes.
Lasting(i) == runs[i].plan \notin Removable

\* Such a run belongs to the plan of the directory, an invocation that recovers
\* nothing meets no such run of a case it has before it, and a case under way of
\* such a plan has no finished run.
OnceInv ==
    /\ FinishedOnce
    /\ \A i \in DOMAIN runs : Lasting(i) => planFile = runs[i].plan
    /\ proc.pc # "idle" /\ ~proc.resume =>
        \A i \in DOMAIN runs : Lasting(i) =>
            \/ runs[i].case < proc.next
            \/ proc.pc \in {"running", "append"} /\ runs[i].case = proc.next
    /\ proc.pc = "running" /\ proc.plan \notin Removable =>
            Recoverable(proc.plan, proc.next) = {}

\* Every step of the code keeps that, too.
LEMMA OnceStep == ASSUME PlanInv, OnceInv, [Next]_vars PROVE OnceInv'
<1> USE DEF Lasting
<1>1. /\ proc \in Invocation /\ runs \in Seq(Run)
      /\ proc.next \in Nat /\ NumCases \in Nat
      /\ \A i \in DOMAIN runs : runs[i].case \in Nat /\ runs[i].plan \in Plans
    <2>1. /\ proc \in Invocation /\ runs \in Seq(Run) /\ NumCases \in Nat
        BY PlanConfig DEF PlanInv, Types
    <2>2. \A i \in DOMAIN runs : runs[i] \in Run
        BY <2>1
    <2> QED BY <2>1, <2>2 DEF Invocation, Run, Cases
<1>2. /\ \A i, j \in DOMAIN runs :
            (/\ runs[i].status = "FINISHED" /\ runs[j].status = "FINISHED"
             /\ runs[i].plan = runs[j].plan /\ runs[i].case = runs[j].case
             /\ runs[i].plan \notin Removable) => i = j
      /\ \A i \in DOMAIN runs : Lasting(i) => planFile = runs[i].plan
      /\ proc.pc # "idle" /\ ~proc.resume =>
            \A i \in DOMAIN runs : Lasting(i) =>
                \/ runs[i].case < proc.next
                \/ proc.pc \in {"running", "append"} /\ runs[i].case = proc.next
      /\ proc.pc = "running" /\ proc.plan \notin Removable =>
            Recoverable(proc.plan, proc.next) = {}
    BY DEF OnceInv, FinishedOnce
\* Steps that touch no run and do not bring an earlier case before the invocation.
<1>3. ASSUME runs' = runs, proc'.pc # "running",
             planFile' = planFile \/ \A i \in DOMAIN runs : ~Lasting(i),
             proc'.pc # "idle" /\ ~proc'.resume =>
                \A i \in DOMAIN runs : Lasting(i) =>
                    \/ runs[i].case < proc'.next
                    \/ proc'.pc \in {"running", "append"} /\ runs[i].case = proc'.next
      PROVE  OnceInv'
    BY <1>2, <1>3 DEF OnceInv, FinishedOnce
<1>4. ASSUME NEW plan \in Plans, NEW resume \in BOOLEAN, Invoke(plan, resume) PROVE OnceInv'
    <2>1. CASE Refusal(plan, resume) # "accepted"
        BY <1>3, <1>4, <2>1 DEF Invoke
    <2>2. CASE Refusal(plan, resume) = "accepted"
        <3>1. /\ planFile' = plan /\ runs' = runs
              /\ proc' = [Idle EXCEPT !.pc = "repair", !.plan = plan, !.resume = resume]
            BY <1>4, <2>2 DEF Invoke
        <3>2. proc'.pc = "repair" /\ proc'.resume = resume
            BY <3>1 DEF Idle
        <3>3. ~resume => planFile = NoPlan
            BY <2>2 DEF Refusal
        <3>4. planFile = NoPlan => \A i \in DOMAIN runs : ~Lasting(i)
            BY <1>1, <1>2, PlanConfig
        <3>5. planFile' = planFile \/ planFile = NoPlan
            BY <2>2, <3>1 DEF Refusal
        <3> QED BY <1>3, <3>1, <3>2, <3>3, <3>4, <3>5
    <2> QED BY <2>1, <2>2
<1>5. CASE Repair
    BY <1>1, <1>2, <1>3, <1>5 DEF Repair, Invocation
<1>6. CASE Rewrite
    BY <1>1, <1>2, <1>3, <1>6 DEF Rewrite, Invocation
<1>7. CASE Scan
    BY <1>1, <1>2, <1>3, <1>7 DEF Scan, Invocation
<1>8. CASE Skip
    BY <1>1, <1>2, <1>3, <1>8 DEF Skip, Invocation
<1>9. CASE Recover
    <2>1. PICK i : proc' = [proc EXCEPT !.pc = "append", !.run = i]
        BY <1>9 DEF Recover
    <2>2. proc'.pc = "append" /\ proc'.resume
        BY <1>1, <1>9, <2>1 DEF Recover, Invocation
    <2> QED BY <1>3, <1>9, <2>2 DEF Recover
<1>10. CASE Evaluate
    <2> DEFINE run == [plan |-> proc.plan, case |-> proc.next, status |-> "RUNNING"]
    <2>1. /\ proc.pc = "case" /\ runs' = Append(runs, run) /\ planFile' = planFile
          /\ proc' = [proc EXCEPT !.pc = "running", !.run = Len(runs')]
          /\ proc.resume => Recoverable(proc.plan, proc.next) = {}
        BY <1>10 DEF Evaluate
    <2>2. /\ proc'.pc = "running" /\ proc'.plan = proc.plan /\ proc'.next = proc.next
          /\ proc'.resume = proc.resume
        BY <1>1, <2>1 DEF Invocation
    <2>3. proc.plan \notin Removable => Recoverable(proc.plan, proc.next) = {}
        <3>1. CASE proc.resume
            BY <2>1, <3>1
        <3>2. CASE ~proc.resume
            <4>1. proc.pc # "idle" /\ proc.pc \notin {"running", "append"}
                BY <2>1
            <4>2. \A i \in DOMAIN runs : Lasting(i) => runs[i].case < proc.next
                BY <1>2, <3>2, <4>1
            <4>3. \A i \in DOMAIN runs : Lasting(i) => runs[i].case # proc.next
                BY <1>1, <4>2
            <4> QED BY <4>3 DEF Recoverable
        <3> QED BY <3>1, <3>2
    <2>4. planFile = proc.plan
        BY <2>1 DEF PlanInv, ProcInv
    <2>5. run.status = "RUNNING" /\ run.case = proc.next /\ run.plan = proc.plan
        OBVIOUS
    <2> HIDE DEF run
    <2>6. /\ DOMAIN runs' = DOMAIN runs \cup {Len(runs) + 1}
          /\ runs'[Len(runs) + 1] = run
          /\ \A r \in DOMAIN runs : runs'[r] = runs[r]
        BY <1>1, <2>1
    <2>7. \A r \in DOMAIN runs' : runs'[r].status = "FINISHED" => r \in DOMAIN runs
        BY <2>5, <2>6
    <2>8. proc.plan \notin Removable => Recoverable(proc.plan, proc.next)' = {}
        BY <2>2, <2>3, <2>6, <2>7 DEF Recoverable
    <2>9. FinishedOnce'
        BY <1>2, <2>6, <2>7 DEF FinishedOnce
    <2>10. ~proc.resume => \A r \in DOMAIN runs' : Lasting(r)' =>
                runs'[r].case < proc.next \/ runs'[r].case = proc.next
        BY <1>2, <2>1, <2>5, <2>6
    <2>11. \A r \in DOMAIN runs' : Lasting(r)' => planFile' = runs'[r].plan
        BY <1>2, <2>1, <2>4, <2>5, <2>6
    <2> QED BY <2>1, <2>2, <2>4, <2>8, <2>9, <2>10, <2>11 DEF OnceInv
\* Ending the run under way changes that run only.
<1>11. ASSUME NEW status \in {"RUNNING", "FINISHED", "FAILED", "KILLED"}, proc.pc = "running",
              runs' = [runs EXCEPT ![proc.run].status = status]
       PROVE  /\ FinishedOnce'
              /\ DOMAIN runs' = DOMAIN runs
              /\ \A r \in DOMAIN runs :
                    runs'[r].case = runs[r].case /\ runs'[r].plan = runs[r].plan
    <2>1. /\ proc.run \in DOMAIN runs
          /\ runs[proc.run] = [plan |-> proc.plan, case |-> proc.next, status |-> "RUNNING"]
        BY <1>11 DEF PlanInv, ProcInv, AtFirstMissing
    <2>2. [runs[proc.run] EXCEPT !.status = status]
            = [plan |-> proc.plan, case |-> proc.next, status |-> status]
        BY <2>1
    <2>3. /\ DOMAIN runs' = DOMAIN runs
          /\ runs'[proc.run] = [plan |-> proc.plan, case |-> proc.next, status |-> status]
          /\ \A r \in DOMAIN runs : r # proc.run => runs'[r] = runs[r]
        BY <1>1, <1>11, <2>1, <2>2
    <2>4. \A r \in DOMAIN runs : runs'[r].case = runs[r].case /\ runs'[r].plan = runs[r].plan
        BY <2>1, <2>3
    <2>5. proc.plan \notin Removable => \A r \in DOMAIN runs :
            ~(runs[r].plan = proc.plan /\ runs[r].case = proc.next /\ runs[r].status = "FINISHED")
        BY <1>2, <1>11 DEF Recoverable
    <2>6. ASSUME NEW i \in DOMAIN runs', NEW j \in DOMAIN runs',
                 runs'[i].status = "FINISHED", runs'[j].status = "FINISHED",
                 runs'[i].plan = runs'[j].plan, runs'[i].case = runs'[j].case,
                 runs'[i].plan \notin Removable
          PROVE  i = j
        <3>1. CASE i # proc.run /\ j # proc.run
            BY <1>2, <2>3, <2>6, <3>1
        <3>2. CASE i = proc.run \/ j = proc.run
            BY <2>3, <2>5, <2>6, <3>2
        <3> QED BY <3>1, <3>2
    <2> QED BY <2>1, <2>3, <2>4, <2>6 DEF FinishedOnce
<1>12. CASE Finish
    <2>1. /\ proc.pc = "running" /\ runs' = [runs EXCEPT ![proc.run].status = "FINISHED"]
          /\ proc' = [proc EXCEPT !.pc = "append"] /\ planFile' = planFile
        BY <1>12 DEF Finish
    <2>2. proc'.pc = "append" /\ proc'.next = proc.next /\ proc'.resume = proc.resume
        BY <1>1, <2>1 DEF Invocation
    <2> QED BY <1>2, <1>11, <2>1, <2>2 DEF OnceInv
<1>13. CASE AppendRow
    BY <1>1, <1>2, <1>3, <1>13 DEF AppendRow, Invocation
<1>14. CASE Return
    BY <1>3, <1>14 DEF Return, Idle
<1>15. ASSUME NEW status \in {"RUNNING", "FAILED", "KILLED"}, Stop(status) PROVE OnceInv'
    <2>1. /\ proc' = Idle /\ planFile' = planFile
          /\ runs' = IF proc.pc = "running" THEN [runs EXCEPT ![proc.run].status = status] ELSE runs
        BY <1>15 DEF Stop
    <2>2. proc'.pc = "idle"
        BY <2>1 DEF Idle
    <2>3. CASE proc.pc = "running"
        BY <1>11, <2>1, <2>2, <2>3 DEF OnceInv
    <2>4. CASE proc.pc # "running"
        BY <1>3, <2>1, <2>2, <2>4
    <2> QED BY <2>3, <2>4
<1>16. CASE Summarize
    BY <1>2, <1>16 DEF Summarize, OnceInv, FinishedOnce, Recoverable
<1>17. CASE RemovePlan
    <2>1. planFile \in Removable /\ proc.pc = "idle" /\ UNCHANGED <<runs, proc>>
        BY <1>17 DEF RemovePlan
    <2>2. \A i \in DOMAIN runs : ~Lasting(i)
        BY <1>2, <2>1
    <2> QED BY <1>3, <2>1, <2>2
<1>18. CASE UNCHANGED vars
    BY <1>2, <1>18 DEF vars, OnceInv, FinishedOnce, Recoverable
<1> QED
    BY <1>4, <1>5, <1>6, <1>7, <1>8, <1>9, <1>10, <1>12, <1>13, <1>14, <1>15, <1>16,
       <1>17, <1>18
    DEF Next, Work

\* No case of a plan that nobody deletes finishes twice.
THEOREM NothingFinishesTwice == Spec => []FinishedOnce
<1>1. Init => OnceInv
    <2> SUFFICES ASSUME Init PROVE OnceInv
        OBVIOUS
    <2>1. runs = <<>> /\ DOMAIN runs = {} /\ proc.pc = "idle"
        BY DEF Init, Idle
    <2> QED BY <2>1 DEF OnceInv, FinishedOnce
<1>2. OnceInv => FinishedOnce
    BY DEF OnceInv
<1> QED BY <1>1, <1>2, OnceStep, PlanInvariant, PTL DEF Spec

-----------------------------------------------------------------------------
\* What the summary files were written from, and the MLflow run an invocation
\* holds: one only while a case runs or its row is appended. A run_plan that
\* returned left a file with every case, and nothing changes it until the next
\* invocation is accepted.
ResultInv ==
    /\ outputs \in Seq(Row)
    /\ stops \in 0 .. MaxStops
    /\ proc.pc \notin {"running", "append"} => proc.run = 0
    /\ outcome = "returned" => proc.pc = "idle" /\ Len(raw.rows) = NumCases

\* In good rows every row is of the plan in the file, so that the rows of the
\* plan are all of them, as many and in the same order.
LEMMA RowsOfPlan ==
    ASSUME Good(raw.rows), planFile # NoPlan
    PROVE  RowsOf(planFile) \in Seq(Row) /\ Len(RowsOf(planFile)) = Len(raw.rows)
<1> DEFINE n == Len(raw.rows)
           at == {i \in DOMAIN raw.rows : raw.rows[i].plan = planFile}
           Ordered(f) == \A j, k \in DOMAIN f : j < k => f[j] < f[k]
           nth == CHOOSE f \in [1 .. Cardinality(at) -> at] : Ordered(f)
<1>1. raw.rows \in Seq(Row) /\ n \in Nat /\ DOMAIN raw.rows = 1 .. n
    BY DEF Good
<1>2. at = 1 .. n
    BY <1>1 DEF Good
<1>3. Cardinality(at) = n
    <2> HIDE DEF n, at
    <2>1. 1 \in Int /\ n \in Int
        BY <1>1
    <2>2. Cardinality(1 .. n) = IF 1 > n THEN 0 ELSE n - 1 + 1
        BY <2>1, FS_Interval
    <2> QED BY <1>1, <1>2, <2>2
<1>4. nth \in [1 .. n -> 1 .. n]
    <2> DEFINE id == [k \in 1 .. n |-> k]
    <2>1. id \in [1 .. n -> 1 .. n] /\ Ordered(id)
        BY <1>1
    <2> HIDE DEF id, Ordered
    <2>2. \E f \in [1 .. Cardinality(at) -> at] : Ordered(f)
        BY <1>2, <1>3, <2>1
    <2> HIDE DEF at
    <2>3. nth \in [1 .. Cardinality(at) -> at]
        BY <2>2
    <2> QED BY <1>2, <1>3, <2>3
<1>5. RowsOf(planFile) = [k \in DOMAIN nth |-> raw.rows[nth[k]]]
    BY DEF RowsOf
<1> HIDE DEF nth, at
<1>6. RowsOf(planFile) = [k \in 1 .. n |-> raw.rows[nth[k]]]
    BY <1>4, <1>5
<1>7. \A k \in 1 .. n : raw.rows[nth[k]] \in Row
    BY <1>1, <1>4
<1> QED BY <1>1, <1>6, <1>7

\* Every step of the code keeps it.
LEMMA ResultStep == ASSUME PlanInv, ResultInv, [Next]_vars PROVE ResultInv'
<1>1. /\ proc \in Invocation /\ Idle.run = 0 /\ Idle.pc = "idle"
      /\ outputs \in Seq(Row) /\ stops \in 0 .. MaxStops /\ MaxStops \in Nat
      /\ proc.pc \notin {"running", "append"} => proc.run = 0
      /\ outcome = "returned" => proc.pc = "idle" /\ Len(raw.rows) = NumCases
    BY PlanConfig DEF PlanInv, Types, ResultInv, Idle
\* While an invocation works, nothing has returned.
<1>2. proc.pc # "idle" => outcome # "returned"
    BY <1>1
<1>3. ASSUME NEW plan \in Plans, NEW resume \in BOOLEAN, Invoke(plan, resume) PROVE ResultInv'
    <2>1. CASE Refusal(plan, resume) # "accepted"
        <3>1. outcome' \in {"exists", "differs", "orphaned", "accepted"}
            BY <1>3, <2>1 DEF Invoke, Refusal
        <3> QED BY <1>1, <1>3, <2>1, <3>1 DEF Invoke, ResultInv
    <2>2. CASE Refusal(plan, resume) = "accepted"
        <3>1. proc' = [Idle EXCEPT !.pc = "repair", !.plan = plan, !.resume = resume]
            BY <1>3, <2>2 DEF Invoke
        <3>2. proc'.run = 0
            BY <3>1 DEF Idle
        <3> QED BY <1>1, <1>3, <2>2, <3>2 DEF Invoke, ResultInv
    <2> QED BY <2>1, <2>2
<1>4. CASE Repair
    BY <1>1, <1>2, <1>4 DEF Repair, ResultInv, Invocation
<1>5. CASE Rewrite
    BY <1>1, <1>2, <1>5 DEF Rewrite, ResultInv, Invocation
<1>6. CASE Scan
    BY <1>1, <1>2, <1>6 DEF Scan, ResultInv, Invocation
<1>7. CASE Skip
    BY <1>1, <1>2, <1>7 DEF Skip, ResultInv, Invocation
<1>8. CASE Recover
    <2>1. PICK i : proc' = [proc EXCEPT !.pc = "append", !.run = i]
        BY <1>8 DEF Recover
    <2>2. proc'.pc = "append"
        BY <1>1, <2>1 DEF Invocation
    <2> QED BY <1>1, <1>2, <1>8, <2>2 DEF Recover, ResultInv
<1>9. CASE Evaluate
    BY <1>1, <1>2, <1>9 DEF Evaluate, ResultInv, Invocation
<1>10. CASE Finish
    BY <1>1, <1>2, <1>10 DEF Finish, ResultInv, Invocation
<1>11. CASE AppendRow
    BY <1>1, <1>2, <1>11 DEF AppendRow, ResultInv, Invocation
<1>12. CASE Return
    <2>1. /\ proc.pc = "case" /\ proc.next > NumCases /\ UNCHANGED <<planFile, raw, stops>>
          /\ outputs' = RowsOf(proc.plan) /\ proc' = Idle
        BY <1>1, <1>12, PlanConfig DEF Return, Remaining, Invocation
    <2>2. /\ Good(raw.rows) /\ proc.plan = planFile /\ planFile # NoPlan
          /\ proc.next \in Nat /\ proc.next <= Len(raw.rows) + 1
        BY <1>1, <2>1, PlanConfig DEF PlanInv, ProcInv, Held, Invocation
    <2>3. Len(raw.rows) = NumCases
        BY <2>1, <2>2, GoodLength, PlanConfig
    <2>4. outputs' \in Seq(Row)
        BY <2>1, <2>2, RowsOfPlan
    <2> QED BY <1>1, <2>1, <2>3, <2>4 DEF ResultInv
<1>13. ASSUME NEW status \in {"RUNNING", "FAILED", "KILLED"}, Stop(status) PROVE ResultInv'
    <2>1. /\ stops' = stops + 1 /\ stops < MaxStops /\ outcome' = "stopped"
          /\ proc' = Idle /\ outputs' = outputs
        BY <1>13 DEF Stop
    <2> QED BY <1>1, <2>1 DEF ResultInv
<1>14. CASE Summarize
    <2>1. /\ proc.pc = "idle" /\ planFile # NoPlan /\ UNCHANGED <<raw, proc, outcome, stops>>
          /\ outputs' \in {outputs, RowsOf(planFile)}
        BY <1>14 DEF Summarize
    <2>2. Good(raw.rows)
        BY <2>1 DEF PlanInv, Held
    <2>3. outputs' \in Seq(Row)
        BY <1>1, <2>1, <2>2, RowsOfPlan
    <2> QED BY <1>1, <2>1, <2>3 DEF ResultInv
<1>15. CASE RemovePlan
    BY <1>1, <1>15 DEF RemovePlan, ResultInv
<1>16. CASE UNCHANGED vars
    BY <1>1, <1>16 DEF vars, ResultInv
<1> QED
    BY <1>3, <1>4, <1>5, <1>6, <1>7, <1>8, <1>9, <1>10, <1>11, <1>12, <1>13, <1>14,
       <1>15, <1>16
    DEF Next, Work

THEOREM ResultInvariant == Spec => []ResultInv
<1>1. Init => ResultInv
    BY PlanConfig DEF Init, ResultInv, Idle
<1> QED BY <1>1, ResultStep, PlanInvariant, PTL DEF Spec

\* Every variable stays in its type, what the summaries are written from and
\* the run an invocation holds included.
THEOREM PlanTypes == Spec => []TypeOK
<1>1. PlanInv /\ ResultInv => TypeOK
    <2> SUFFICES ASSUME PlanInv, ResultInv PROVE TypeOK
        OBVIOUS
    <2>1. /\ planFile \in Plans \cup {NoPlan} /\ raw \in RawFile /\ runs \in Seq(Run)
          /\ proc \in Invocation /\ outputs \in Seq(Row) /\ stops \in 0 .. MaxStops
        BY DEF PlanInv, Types, ResultInv
    <2>2. proc.pc \in {"running", "append"} => proc.run \in DOMAIN runs
        BY DEF PlanInv, ProcInv, AtFirstMissing
    <2>3. proc.run \in 0 .. Len(runs)
        BY <2>1, <2>2 DEF ResultInv
    <2> QED BY <2>1, <2>3 DEF TypeOK
<1> QED BY <1>1, PlanInvariant, ResultInvariant, PTL

\* What run_plan returned from: the file holds every case of the plan once, in
\* order, however often the plan was stopped and resumed before.
ReturnedComplete ==
    outcome = "returned" =>
        /\ Len(raw.rows) = NumCases
        /\ \A i \in DOMAIN raw.rows : raw.rows[i].case = i

THEOREM ReturnsComplete == Spec => []ReturnedComplete
<1>1. ResultInv /\ RowsInPlanOrder => ReturnedComplete
    BY DEF ResultInv, RowsInPlanOrder, ReturnedComplete
<1> QED BY <1>1, ResultInvariant, RowsComeInOrder, PTL
=============================================================================
