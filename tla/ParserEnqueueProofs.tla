-------------------------- MODULE ParserEnqueueProofs --------------------------
(***************************************************************************)
(* Theorems about ParserEnqueue, for every set of submissions, of parsed   *)
(* legacy rows and of reconciliation processes, every clock bound and      *)
(* every set of faults.                                                    *)
(***************************************************************************)
EXTENDS ParserEnqueue, TLAPS

USE EnqueueAssumption DEF EnqueueAssumption

-----------------------------------------------------------------------------
(* What a step does to the queue *)

\* The same rows in the same order, by the same authors; statuses may differ.
SameRows(rows, before) ==
    /\ DOMAIN rows = DOMAIN before
    /\ Len(rows) = Len(before)
    /\ \A i \in DOMAIN before : rows[i].by = before[i].by

\* Appending a row keeps the rows before it.
LEMMA AppendedRows ==
  ASSUME NEW rows \in Seq(JobRow), NEW a \in {Intake} \cup Reconcilers,
         NEW t \in Time
  PROVE  /\ Append(rows, NewRow(a, t)) \in Seq(JobRow)
         /\ Len(Append(rows, NewRow(a, t))) = Len(rows) + 1
         /\ DOMAIN Append(rows, NewRow(a, t)) = 1..(Len(rows) + 1)
         /\ \A i \in DOMAIN rows : Append(rows, NewRow(a, t))[i] = rows[i]
         /\ Append(rows, NewRow(a, t))[Len(rows) + 1].by = a
         /\ Append(rows, NewRow(a, t)) # <<>>
<1>1. NewRow(a, t) \in JobRow /\ NewRow(a, t).by = a
  BY DEF NewRow, JobRow
<1> DEFINE row == NewRow(a, t)
<1> HIDE DEF row
<1>2. QED
  BY <1>1 DEF row

\* Updating the status of a row, wherever it is, keeps its author.
LEMMA RestatedRows ==
  ASSUME NEW rows \in Seq(JobRow), NEW i,
         NEW st \in {"queued", "running", "succeeded", "failed"}
  PROVE  /\ [rows EXCEPT ![i].status = st] \in Seq(JobRow)
         /\ SameRows([rows EXCEPT ![i].status = st], rows)
<1> DEFINE new == [rows EXCEPT ![i].status = st]
<1>1. /\ DOMAIN new = 1..Len(rows) /\ Len(rows) \in Nat
      /\ \A k \in 1..Len(rows) :
            /\ rows[k] \in JobRow
            /\ new[k] = IF k = i THEN [rows[k] EXCEPT !.status = st] ELSE rows[k]
      /\ new = [k \in 1..Len(rows) |->
                  IF k = i THEN [rows[k] EXCEPT !.status = st] ELSE rows[k]]
  OBVIOUS
<1>2. \A k \in 1..Len(rows) : new[k] \in JobRow /\ new[k].by = rows[k].by
  BY <1>1 DEF JobRow
<1> HIDE DEF new
<1>3. new \in Seq(JobRow) /\ Len(new) = Len(rows)
  BY <1>1, <1>2
<1>4. QED
  BY <1>1, <1>2, <1>3 DEF SameRows, new

\* A step of the worker changes statuses only.
SameQueue ==
    /\ queue' \in [All -> Seq(JobRow)]
    /\ \A s \in All : SameRows(queue'[s], queue[s])

\* Author a adds one row to submission s, and no other submission changes.
AddsRow(s, a) ==
    /\ queue' \in [All -> Seq(JobRow)]
    /\ \A q \in All \ {s} : queue'[q] = queue[q]
    /\ Len(queue'[s]) = Len(queue[s]) + 1
    /\ \A i \in DOMAIN queue[s] : queue'[s][i] = queue[s][i]
    /\ queue'[s][Len(queue[s]) + 1].by = a

LEMMA SameAuthors ==
  ASSUME queue \in [All -> Seq(JobRow)], UNCHANGED queue
  PROVE  SameQueue
  BY DEF SameQueue, SameRows

LEMMA AppendAdds ==
  ASSUME queue \in [All -> Seq(JobRow)], NEW s \in All,
         NEW a \in {Intake} \cup Reconcilers, NEW t \in Time,
         AppendRow(s, a, t)
  PROVE  AddsRow(s, a)
<1> DEFINE new == Append(queue[s], NewRow(a, t))
<1>1. /\ new \in Seq(JobRow)
      /\ Len(new) = Len(queue[s]) + 1
      /\ \A i \in DOMAIN queue[s] : new[i] = queue[s][i]
      /\ new[Len(queue[s]) + 1].by = a
  BY AppendedRows
<1>2. /\ queue' = [queue EXCEPT ![s] = new]
  BY DEF AppendRow
<1> HIDE DEF new
<1>3. QED
  BY <1>1, <1>2 DEF AddsRow

LEMMA RestateKeeps ==
  ASSUME queue \in [All -> Seq(JobRow)], NEW s \in All, NEW i,
         NEW st \in {"queued", "running", "succeeded", "failed"},
         queue' = [queue EXCEPT ![s][i].status = st]
  PROVE  SameQueue
<1> DEFINE new == [queue[s] EXCEPT ![i].status = st]
<1>1. new \in Seq(JobRow) /\ SameRows(new, queue[s])
  BY RestatedRows
<1>2. queue' = [queue EXCEPT ![s] = new]
  OBVIOUS
<1> HIDE DEF new
<1>3. QED
  BY <1>1, <1>2 DEF SameQueue, SameRows

LEMMA TakeKeeps ==
  ASSUME TypeOK, NEW s \in All, Take(s)
  PROVE  SameQueue
<1> DEFINE i == Canonical(queue[s])
<1>1. queue' = [queue EXCEPT ![s][i].status = "running"]
  BY DEF Take
<1> HIDE DEF i
<1>2. QED
  BY <1>1, RestateKeeps DEF TypeOK

LEMMA FinishKeeps ==
  ASSUME TypeOK, NEW s \in All, Finish(s)
  PROVE  /\ SameQueue
         /\ parsed' = parsed \/ (parsed' = parsed \cup {s} /\ HasJob(s))
<1>1. PICK i \in DOMAIN queue[s] :
        \/ /\ queue' = [queue EXCEPT ![s][i].status = "succeeded"]
           /\ parsed' = parsed \cup {s}
        \/ /\ queue' = [queue EXCEPT ![s][i].status = "failed"]
           /\ UNCHANGED parsed
  BY DEF Finish
<1>2. SameQueue
  BY <1>1, RestateKeeps DEF TypeOK
<1>3. HasJob(s)
  BY <1>1 DEF HasJob, TypeOK
<1>4. QED
  BY <1>1, <1>2, <1>3

LEMMA AppendJobEffect ==
  ASSUME TypeOK, NEW s \in Subs, AppendJob(s)
  PROVE  AddsRow(s, Intake) \/ UNCHANGED queue
<1>1. intake[s].stamp \in Time
  BY DEF TypeOK, Requests
<1>2. AppendRow(s, Intake, intake[s].stamp) \/ UNCHANGED queue
  BY DEF AppendJob
<1>3. QED
  BY <1>1, <1>2, AppendAdds DEF TypeOK, All

LEMMA RecoverEffect ==
  ASSUME TypeOK, NEW r \in Reconcilers, Recover(r) \/ RecoverFails(r)
  PROVE  \/ /\ recon[r].pc = "append"
            /\ recon[r].sub \in All => AddsRow(recon[r].sub, r)
            /\ recon[r].sub \notin All => UNCHANGED queue
         \/ UNCHANGED queue
<1>1. recon[r].stamp \in Time /\ queue \in [All -> Seq(JobRow)]
  BY DEF TypeOK, Scans
<1>2. \/ recon[r].pc = "append" /\ AppendRow(recon[r].sub, r, recon[r].stamp)
      \/ UNCHANGED queue
  BY DEF Recover, RecoverFails, Scan
<1>3. CASE AppendRow(recon[r].sub, r, recon[r].stamp) /\ recon[r].sub \notin All
  BY <1>1, <1>2, <1>3 DEF AppendRow
<1>4. CASE AppendRow(recon[r].sub, r, recon[r].stamp) /\ recon[r].sub \in All
  BY <1>1, <1>2, <1>4, AppendAdds
<1>5. QED
  BY <1>2, <1>3, <1>4

\* All a step can do to the queue.
QueueStep ==
    SameQueue \/ \E s \in All, a \in {Intake} \cup Reconcilers : AddsRow(s, a)

\* Rows are never removed.
LEMMA JobsKept ==
  ASSUME queue \in [All -> Seq(JobRow)], QueueStep, NEW s \in All, HasJob(s)
  PROVE  HasJob(s)'
<1>1. Len(queue[s]) > 0 /\ Len(queue[s]) \in Nat
  BY DEF HasJob
<1>2. CASE SameQueue
  <2>1. queue'[s] \in Seq(JobRow) /\ SameRows(queue'[s], queue[s])
    BY <1>2 DEF SameQueue
  <2>2. Len(queue'[s]) > 0
    BY <1>1, <2>1 DEF SameRows
  <2>3. QED
    BY <2>1, <2>2 DEF HasJob
<1>3. ASSUME NEW q \in All, NEW a, AddsRow(q, a)
      PROVE  HasJob(s)'
  <2>1. queue'[s] \in Seq(JobRow)
    BY <1>3 DEF AddsRow
  <2>2. Len(queue'[s]) = Len(queue[s]) \/ Len(queue'[s]) = Len(queue[s]) + 1
    BY <1>3 DEF AddsRow
  <2>3. Len(queue'[s]) > 0
    BY <1>1, <2>2
  <2>4. QED
    BY <2>1, <2>3 DEF HasJob
<1>4. QED
  BY <1>2, <1>3 DEF QueueStep

-----------------------------------------------------------------------------
(* Type correctness *)

LEMMA TypeOKInit == Init => TypeOK
<1> SUFFICES ASSUME Init PROVE TypeOK
  OBVIOUS
<1>1. queue \in [All -> Seq(JobRow)]
  BY DEF Init
<1>2. submissions \in [All -> {"none", "missing", "failed", "uploaded"}]
  BY DEF Init
<1>3. intake \in [Subs -> Requests]
  BY DEF Init, Requests, Time
<1>4. recon \in [Reconcilers -> Scans]
  BY DEF Init, Scans, IdleScan, Time
<1>5. QED
  BY <1>1, <1>2, <1>3, <1>4 DEF Init, TypeOK, All, Time

\* The parts of TypeOK a request can disturb besides the queue.
SheetsOK ==
    /\ drive \subseteq All /\ parsed \subseteq All
    /\ submissions \in [All -> {"none", "missing", "failed", "uploaded"}]
    /\ events \subseteq All \X {"DRIVE_UPLOAD_FAILED", "PARSER_ENQUEUE_FAILED"}

LEMMA GoType ==
  ASSUME intake \in [Subs -> Requests], NEW s \in Subs,
         NEW p \in {"new", "writeMissing", "upload", "writeFailed",
                    "writeUploaded", "lookup", "append", "logUpload",
                    "logEnqueue", "done"},
         Go(s, p)
  PROVE  intake' \in [Subs -> Requests]
  BY DEF Go, Requests

LEMMA AnswerType ==
  ASSUME intake \in [Subs -> Requests], NEW s \in Subs,
         NEW a \in {"none", "lost", "error", "not_applicable", "queued",
                    "enqueue_failed"},
         Answer(s, a)
  PROVE  intake' \in [Subs -> Requests]
  BY DEF Answer, Requests

LEMMA RequestType ==
  ASSUME TypeOK, NEW s \in Subs, Request(s) \/ CrashIntake(s)
  PROVE  /\ SheetsOK' /\ intake' \in [Subs -> Requests]
         /\ UNCHANGED <<recon, now>>
         /\ AddsRow(s, Intake) \/ UNCHANGED queue
<1> USE DEF TypeOK, SheetsOK, All
<1>1. CASE Receive(s)
  BY <1>1, GoType DEF Receive, sheets
<1>2. CASE Upload(s)
  BY <1>2, GoType DEF Upload
<1>3. ASSUME NEW step, NEW status \in {"missing", "failed", "uploaded"},
             NEW next, WriteBase(s, step, status, next),
             next => intake' \in [Subs -> Requests]
      PROVE  /\ SheetsOK' /\ intake' \in [Subs -> Requests]
             /\ UNCHANGED <<recon, now, queue>>
  BY <1>3, AnswerType DEF WriteBase
<1>4. CASE WriteMissing(s)
  BY <1>4, AnswerType DEF WriteMissing, WriteBase
<1>5. CASE WriteFailed(s)
  BY <1>5, GoType, AnswerType DEF WriteFailed, WriteBase
<1>6. CASE WriteUploaded(s)
  BY <1>6, GoType, AnswerType DEF WriteUploaded, WriteBase
<1>7. CASE Lookup(s)
  <2>1. now \in Time
    OBVIOUS
  <2>2. CASE intake' = [intake EXCEPT ![s].pc = "append", ![s].stamp = now]
    BY <1>7, <2>1, <2>2 DEF Lookup, sheets, Requests
  <2>3. QED
    BY <1>7, <2>2, GoType, AnswerType DEF Lookup, sheets
<1>8. CASE AppendJob(s)
  <2>1. AddsRow(s, Intake) \/ UNCHANGED queue
    BY <1>8, AppendJobEffect
  <2>2. Answer(s, "queued") \/ Go(s, "logEnqueue")
    BY <1>8 DEF AppendJob
  <2>3. UNCHANGED <<sheets, recon, now>>
    BY <1>8 DEF AppendJob
  <2>4. QED
    BY <2>1, <2>2, <2>3, GoType, AnswerType DEF sheets
<1>9. CASE LogUpload(s)
  BY <1>9, AnswerType DEF LogUpload, LogFailure
<1>10. CASE LogEnqueue(s)
  BY <1>10, AnswerType DEF LogEnqueue, LogFailure
<1>11. CASE CrashIntake(s)
  BY <1>11, AnswerType DEF CrashIntake, sheets
<1>12. QED
  BY <1>1, <1>2, <1>4, <1>5, <1>6, <1>7, <1>8, <1>9, <1>10, <1>11 DEF Request

\* How a step changes the local state of reconciliation process r.
ScanBecomes(r, p, todo, seen, sub, stamp) ==
    \E x \in Scans :
        /\ recon' = [recon EXCEPT ![r] = x]
        /\ x.pc = p /\ x.todo = todo /\ x.seen = seen
        /\ x.sub = sub /\ x.stamp = stamp

LEMMA ScanEffect ==
  ASSUME TypeOK, NEW r \in Reconcilers
  PROVE  LET c == recon[r] IN
         /\ c \in Scans
         /\ LoadSubmissions(r) =>
               ScanBecomes(r, "results", Uploaded, c.seen, c.sub, c.stamp)
         /\ LoadResults(r) =>
               ScanBecomes(r, "scan", c.todo, parsed, c.sub, c.stamp)
         /\ \A s \in All : Consider(r, s) =>
               IF Eligible(r, s)
               THEN ScanBecomes(r, "lookup", c.todo \ {s}, c.seen, s, c.stamp)
               ELSE ScanBecomes(r, "scan", c.todo \ {s}, c.seen, NoSub, c.stamp)
         /\ Recheck(r) =>
               IF HasJob(c.sub)
               THEN ScanBecomes(r, "scan", c.todo, c.seen, c.sub, c.stamp)
               ELSE ScanBecomes(r, "append", c.todo, c.seen, c.sub, now)
         /\ Recover(r) \/ RecoverFails(r) =>
               ScanBecomes(r, "scan", c.todo, c.seen, c.sub, c.stamp)
<1> DEFINE c == recon[r]
<1>0. /\ now \in Time /\ parsed \in SUBSET All /\ Uploaded \in SUBSET All
      /\ NoSub \in All \cup {NoSub}
  BY DEF TypeOK, Uploaded
<1>1. c \in Scans
  BY DEF TypeOK
<1>2. ASSUME LoadSubmissions(r)
      PROVE  ScanBecomes(r, "results", Uploaded, c.seen, c.sub, c.stamp)
  <2> DEFINE x == [c EXCEPT !.pc = "results", !.todo = Uploaded]
  <2>1. recon' = [recon EXCEPT ![r] = x]
    BY <1>2 DEF LoadSubmissions
  <2>2. x \in Scans
    BY <1>1, <1>0 DEF Scans
  <2>3. /\ x.pc = "results" /\ x.todo = Uploaded /\ x.seen = c.seen
        /\ x.sub = c.sub /\ x.stamp = c.stamp
    BY <1>1 DEF Scans
  <2> HIDE DEF x, c
  <2>4. QED
    BY <2>1, <2>2, <2>3 DEF ScanBecomes
<1>3. ASSUME LoadResults(r)
      PROVE  ScanBecomes(r, "scan", c.todo, parsed, c.sub, c.stamp)
  <2> DEFINE x == [c EXCEPT !.pc = "scan", !.seen = parsed]
  <2>1. recon' = [recon EXCEPT ![r] = x]
    BY <1>3 DEF LoadResults
  <2>2. x \in Scans
    BY <1>1, <1>0 DEF Scans
  <2>3. /\ x.pc = "scan" /\ x.todo = c.todo /\ x.seen = parsed
        /\ x.sub = c.sub /\ x.stamp = c.stamp
    BY <1>1 DEF Scans
  <2> HIDE DEF x, c
  <2>4. QED
    BY <2>1, <2>2, <2>3 DEF ScanBecomes
<1>4. ASSUME NEW s \in All, Consider(r, s), Eligible(r, s)
      PROVE  ScanBecomes(r, "lookup", c.todo \ {s}, c.seen, s, c.stamp)
  <2> DEFINE x == [c EXCEPT !.todo = c.todo \ {s}, !.sub = s, !.pc = "lookup"]
  <2>1. recon' = [recon EXCEPT ![r] = x]
    BY <1>4 DEF Consider
  <2>2. x \in Scans
    BY <1>1, <1>0 DEF Scans
  <2>3. /\ x.pc = "lookup" /\ x.todo = c.todo \ {s} /\ x.seen = c.seen
        /\ x.sub = s /\ x.stamp = c.stamp
    BY <1>1 DEF Scans
  <2> HIDE DEF x, c
  <2>4. QED
    BY <2>1, <2>2, <2>3 DEF ScanBecomes
<1>5. ASSUME NEW s \in All, Consider(r, s), ~Eligible(r, s)
      PROVE  ScanBecomes(r, "scan", c.todo \ {s}, c.seen, NoSub, c.stamp)
  <2> DEFINE x == [c EXCEPT !.todo = c.todo \ {s}, !.sub = NoSub, !.pc = "scan"]
  <2>1. recon' = [recon EXCEPT ![r] = x]
    BY <1>5 DEF Consider
  <2>2. x \in Scans
    BY <1>1, <1>0 DEF Scans
  <2>3. /\ x.pc = "scan" /\ x.todo = c.todo \ {s} /\ x.seen = c.seen
        /\ x.sub = NoSub /\ x.stamp = c.stamp
    BY <1>1 DEF Scans
  <2> HIDE DEF x, c
  <2>4. QED
    BY <2>1, <2>2, <2>3 DEF ScanBecomes
<1>6. ASSUME Recheck(r), HasJob(c.sub)
      PROVE  ScanBecomes(r, "scan", c.todo, c.seen, c.sub, c.stamp)
  <2> DEFINE x == [c EXCEPT !.pc = "scan"]
  <2>1. recon' = [recon EXCEPT ![r] = x]
    BY <1>6 DEF Recheck
  <2>2. x \in Scans
    BY <1>1, <1>0 DEF Scans
  <2>3. /\ x.pc = "scan" /\ x.todo = c.todo /\ x.seen = c.seen
        /\ x.sub = c.sub /\ x.stamp = c.stamp
    BY <1>1 DEF Scans
  <2> HIDE DEF x, c
  <2>4. QED
    BY <2>1, <2>2, <2>3 DEF ScanBecomes
<1>7. ASSUME Recheck(r), ~HasJob(c.sub)
      PROVE  ScanBecomes(r, "append", c.todo, c.seen, c.sub, now)
  <2> DEFINE x == [c EXCEPT !.pc = "append", !.stamp = now]
  <2>1. recon' = [recon EXCEPT ![r] = x]
    BY <1>7 DEF Recheck
  <2>2. x \in Scans
    BY <1>1, <1>0 DEF Scans
  <2>3. /\ x.pc = "append" /\ x.todo = c.todo /\ x.seen = c.seen
        /\ x.sub = c.sub /\ x.stamp = now
    BY <1>1 DEF Scans
  <2> HIDE DEF x, c
  <2>4. QED
    BY <2>1, <2>2, <2>3 DEF ScanBecomes
<1>8. ASSUME Recover(r) \/ RecoverFails(r)
      PROVE  ScanBecomes(r, "scan", c.todo, c.seen, c.sub, c.stamp)
  <2> DEFINE x == [c EXCEPT !.pc = "scan"]
  <2>1. recon' = [recon EXCEPT ![r] = x]
    BY <1>8 DEF Recover, RecoverFails
  <2>2. x \in Scans
    BY <1>1, <1>0 DEF Scans
  <2>3. /\ x.pc = "scan" /\ x.todo = c.todo /\ x.seen = c.seen
        /\ x.sub = c.sub /\ x.stamp = c.stamp
    BY <1>1 DEF Scans
  <2> HIDE DEF x, c
  <2>4. QED
    BY <2>1, <2>2, <2>3 DEF ScanBecomes
<1>9. QED
  BY <1>1, <1>2, <1>3, <1>4, <1>5, <1>6, <1>7, <1>8

LEMMA ReconcileType ==
  ASSUME TypeOK, NEW r \in Reconcilers,
         Reconcile(r) \/ RecoverFails(r) \/ EndScan(r)
  PROVE  /\ recon' \in [Reconcilers -> Scans]
         /\ UNCHANGED <<sheets, intake, now>>
         /\ \/ /\ recon[r].sub \in All
               /\ recon[r].pc = "append"
               /\ AddsRow(recon[r].sub, r)
            \/ UNCHANGED queue
<1>1. recon \in [Reconcilers -> Scans]
  BY DEF TypeOK
<1>2. ASSUME NEW p, NEW todo, NEW seen, NEW sub, NEW stamp,
             ScanBecomes(r, p, todo, seen, sub, stamp)
      PROVE  recon' \in [Reconcilers -> Scans]
  BY <1>1, <1>2 DEF ScanBecomes
<1>3. CASE Recover(r) \/ RecoverFails(r)
  <2>1. UNCHANGED <<sheets, intake, now>>
    BY <1>3 DEF Recover, RecoverFails
  <2>2. QED
    BY <1>2, <1>3, <2>1, RecoverEffect, ScanEffect
<1>4. CASE EndScan(r)
  BY <1>1, <1>4 DEF EndScan, Scans, IdleScan, Time
<1>5. CASE LoadSubmissions(r)
  BY <1>2, <1>5, ScanEffect DEF LoadSubmissions
<1>6. CASE LoadResults(r)
  BY <1>2, <1>6, ScanEffect DEF LoadResults
<1>7. ASSUME NEW s \in All, Consider(r, s)
      PROVE  /\ recon' \in [Reconcilers -> Scans]
             /\ UNCHANGED <<sheets, intake, now, queue>>
  <2>1. recon' \in [Reconcilers -> Scans]
    BY <1>2, <1>7, ScanEffect
  <2>2. QED
    BY <1>7, <2>1 DEF Consider
<1>8. CASE Recheck(r)
  <2>1. recon' \in [Reconcilers -> Scans]
    BY <1>2, <1>8, ScanEffect
  <2>2. QED
    BY <1>8, <2>1 DEF Recheck
<1>9. QED
  BY <1>3, <1>4, <1>5, <1>6, <1>7, <1>8 DEF Reconcile

LEMMA WorkerType ==
  ASSUME TypeOK, NEW s \in All, Take(s) \/ Finish(s)
  PROVE  /\ SameQueue
         /\ parsed' = parsed \/ (parsed' = parsed \cup {s} /\ HasJob(s))
         /\ UNCHANGED <<drive, submissions, events, intake, recon, now>>
<1>1. CASE Take(s)
  BY <1>1, TakeKeeps DEF Take, sheets
<1>2. CASE Finish(s)
  <2>1. UNCHANGED <<drive, submissions, events, intake, recon, now>>
    BY <1>2 DEF Finish
  <2>2. QED
    BY <1>2, <2>1, FinishKeeps
<1>3. QED
  BY <1>1, <1>2

LEMMA TypeOKStep ==
  ASSUME TypeOK, Next
  PROVE  TypeOK' /\ QueueStep
<1>0. serial' \in BOOLEAN /\ queue \in [All -> Seq(JobRow)]
  BY DEF Next, TypeOK
<1>1. ASSUME NEW s \in Subs, Request(s) \/ CrashIntake(s)
      PROVE  TypeOK' /\ QueueStep
  <2>1. AddsRow(s, Intake) \/ SameQueue
    BY <1>0, <1>1, RequestType, SameAuthors
  <2>2. QueueStep
    BY <2>1 DEF QueueStep, All
  <2>3. queue' \in [All -> Seq(JobRow)]
    BY <2>1 DEF SameQueue, AddsRow
  <2>4. QED
    BY <1>0, <1>1, <2>2, <2>3, RequestType DEF TypeOK, SheetsOK
<1>2. ASSUME NEW r \in Reconcilers,
             Reconcile(r) \/ RecoverFails(r) \/ EndScan(r)
      PROVE  TypeOK' /\ QueueStep
  <2>1. \/ recon[r].sub \in All /\ AddsRow(recon[r].sub, r)
        \/ SameQueue
    BY <1>0, <1>2, ReconcileType, SameAuthors
  <2>2. QueueStep
    BY <2>1 DEF QueueStep
  <2>3. queue' \in [All -> Seq(JobRow)]
    BY <2>1 DEF SameQueue, AddsRow
  <2>4. QED
    BY <1>0, <1>2, <2>2, <2>3, ReconcileType DEF TypeOK, sheets
<1>3. ASSUME NEW s \in All, Take(s) \/ Finish(s)
      PROVE  TypeOK' /\ QueueStep
  <2>1. SameQueue /\ queue' \in [All -> Seq(JobRow)] /\ QueueStep
    BY <1>3, WorkerType DEF SameQueue, QueueStep
  <2>2. QED
    BY <1>0, <1>3, <2>1, WorkerType DEF TypeOK
<1>4. CASE Tick
  <2>1. SameQueue
    BY <1>0, <1>4, SameAuthors DEF Tick
  <2>2. now' \in Time
    BY <1>4 DEF Tick, TypeOK, Time
  <2>3. QED
    BY <1>0, <1>4, <2>1, <2>2 DEF Tick, sheets, TypeOK, QueueStep
<1>5. QED
  BY <1>1, <1>2, <1>3, <1>4 DEF Next

\* Every variable keeps its type, however the calls fail and the processes die.
THEOREM TypeCorrect == Spec => []TypeOK
<1>1. Init => TypeOK
  BY TypeOKInit
<1>2. TypeOK /\ [Next]_vars => TypeOK'
  <2>1. TypeOK /\ UNCHANGED vars => TypeOK'
    BY DEF TypeOK, vars, state
  <2>2. QED
    BY <2>1, TypeOKStep
<1>3. QED
  BY <1>1, <1>2, PTL DEF Spec

-----------------------------------------------------------------------------
(* The inductive invariant *)

\* The request has not decided anything about its submission yet.
Before == {"new", "writeMissing", "upload", "writeFailed", "writeUploaded"}

\* What the request of submission s knows is true, and stays true.
RequestOK(s) ==
    /\ intake[s].pc \in Before => submissions[s] = "none"
    /\ intake[s].pc = "writeUploaded" => s \in drive
    /\ intake[s].pc \in {"lookup", "append", "logEnqueue"} =>
          submissions[s] = "uploaded"
    /\ intake[s].pc = "logUpload" => submissions[s] = "failed"
    /\ intake[s].answer # "none" => intake[s].pc = "done"
    /\ intake[s].answer = "queued" => HasJob(s)
    /\ intake[s].answer = "not_applicable" =>
          submissions[s] \in {"missing", "failed"}

\* A reconciliation only considers uploads, and once it has read the results it
\* knows the legacy ones.
ScanOK(r) ==
    /\ recon[r].todo \subseteq Uploaded
    /\ recon[r].pc \in {"scan", "lookup", "append"} =>
          Legacy \subseteq recon[r].seen
    /\ recon[r].pc \in {"lookup", "append"} => recon[r].sub \in Uploaded \ Legacy

\* The sheets agree with each other.
StoreOK(s) ==
    /\ HasJob(s) => submissions[s] = "uploaded" /\ s \notin Legacy
    /\ submissions[s] = "uploaded" => s \in drive
    /\ s \in Legacy => s \in parsed
    /\ s \in parsed \ Legacy => HasJob(s)

\* a has added a row for submission s.
By(s, a) == \E i \in DOMAIN queue[s] : queue[s][i].by = a

\* Authors are distinct, and whoever may still append has not done so yet.
DistinctAuthors(s) ==
    \A i, k \in DOMAIN queue[s] : queue[s][i].by = queue[s][k].by => i = k
AuthorInv ==
    /\ \A s \in All : DistinctAuthors(s)
    /\ \A s \in Subs : intake[s].pc \in Before \cup {"lookup", "append"} =>
          ~By(s, Intake)
    /\ \A r \in Reconcilers : recon[r].pc = "append" => ~By(recon[r].sub, r)

\* While reconciliation has run alone, whoever is about to append is right that
\* there is no row.
SerialInv == serial =>
    /\ Alone
    /\ \A s \in All : Len(queue[s]) <= 1
    /\ \A s \in Subs : intake[s].pc = "append" => ~HasJob(s)
    /\ \A r \in Reconcilers : recon[r].pc = "append" => ~HasJob(recon[r].sub)

DataInv ==
    /\ \A s \in Subs : RequestOK(s)
    /\ \A r \in Reconcilers : ScanOK(r)
    /\ \A s \in All : StoreOK(s)

IInv == TypeOK /\ DataInv /\ AuthorInv /\ SerialInv

LEMMA IInvInit == Init => IInv
<1> SUFFICES ASSUME Init PROVE IInv
  OBVIOUS
<1>1. TypeOK
  BY TypeOKInit
<1>2. /\ \A s \in All : queue[s] = <<>> /\ ~HasJob(s) /\ Len(queue[s]) = 0
      /\ \A s \in Subs : intake[s].pc = "new" /\ intake[s].answer = "none"
      /\ \A r \in Reconcilers : recon[r].pc = "idle" /\ recon[r].todo = {}
  BY DEF Init, HasJob, IdleScan
<1>3. DataInv
  BY <1>2 DEF Init, DataInv, RequestOK, ScanOK, StoreOK, Before, All
<1>4. AuthorInv
  <2>1. \A s \in All : DOMAIN queue[s] = {}
    BY <1>2
  <2>2. QED
    BY <1>2, <2>1 DEF AuthorInv, DistinctAuthors, By, All
<1>5. SerialInv
  BY <1>2 DEF SerialInv, Alone, Reconciling
<1>6. QED
  BY <1>1, <1>3, <1>4, <1>5 DEF IInv

LEMMA SameJobs ==
  ASSUME queue \in [All -> Seq(JobRow)], SameQueue, NEW s \in All
  PROVE  (HasJob(s)' <=> HasJob(s)) /\ Len(queue'[s]) = Len(queue[s])
<1>1. queue'[s] \in Seq(JobRow) /\ SameRows(queue'[s], queue[s])
  BY DEF SameQueue
<1>2. Len(queue'[s]) = Len(queue[s])
  BY <1>1 DEF SameRows
<1>3. QED
  BY <1>1, <1>2 DEF HasJob

LEMMA SameAuthorsBy ==
  ASSUME queue \in [All -> Seq(JobRow)], SameQueue, NEW s \in All
  PROVE  /\ \A a : By(s, a)' => By(s, a)
         /\ DistinctAuthors(s) => DistinctAuthors(s)'
<1>1. SameRows(queue'[s], queue[s])
  BY DEF SameQueue
<1>2. QED
  BY <1>1 DEF SameRows, By, DistinctAuthors

LEMMA AddedAuthor ==
  ASSUME queue \in [All -> Seq(JobRow)], NEW s \in All, NEW a, AddsRow(s, a),
         NEW q \in All
  PROVE  /\ \A b : By(q, b)' => By(q, b) \/ (q = s /\ b = a)
         /\ DistinctAuthors(q) /\ ~By(s, a) => DistinctAuthors(q)'
<1>1. CASE q # s
  BY <1>1 DEF AddsRow, By, DistinctAuthors
<1>2. CASE q = s
  <2>1. /\ queue[s] \in Seq(JobRow) /\ queue'[s] \in Seq(JobRow)
        /\ Len(queue'[s]) = Len(queue[s]) + 1
        /\ \A i \in DOMAIN queue[s] : queue'[s][i] = queue[s][i]
        /\ queue'[s][Len(queue[s]) + 1].by = a
    BY DEF AddsRow
  <2>2. \A i \in DOMAIN queue'[s] :
            i \in DOMAIN queue[s] \/ i = Len(queue[s]) + 1
    BY <2>1
  <2>3. QED
    BY <1>2, <2>1, <2>2 DEF By, DistinctAuthors
<1>3. QED
  BY <1>1, <1>2

-----------------------------------------------------------------------------
(* Steps of a request *)

\* How a step changes the request of submission s.
RequestBecomes(s, p, a) ==
    \E x \in Requests :
        intake' = [intake EXCEPT ![s] = x] /\ x.pc = p /\ x.answer = a

LEMMA GoBecomes ==
  ASSUME TypeOK, NEW s \in Subs, NEW p, Go(s, p), intake' \in [Subs -> Requests]
  PROVE  RequestBecomes(s, p, intake[s].answer)
<1> DEFINE x == [intake[s] EXCEPT !.pc = p]
<1>1. intake' = [intake EXCEPT ![s] = x]
  BY DEF Go
<1>2. x.pc = p /\ x.answer = intake[s].answer
  BY DEF TypeOK, Requests
<1> HIDE DEF x
<1>3. x \in Requests
  BY <1>1 DEF TypeOK
<1>4. QED
  BY <1>1, <1>2, <1>3 DEF RequestBecomes

LEMMA AnswerBecomes ==
  ASSUME TypeOK, NEW s \in Subs, NEW a, Answer(s, a),
         intake' \in [Subs -> Requests]
  PROVE  RequestBecomes(s, "done", a)
<1> DEFINE x == [intake[s] EXCEPT !.pc = "done", !.answer = a]
<1>1. intake' = [intake EXCEPT ![s] = x]
  BY DEF Answer
<1>2. x.pc = "done" /\ x.answer = a
  BY DEF TypeOK, Requests
<1> HIDE DEF x
<1>3. x \in Requests
  BY <1>1 DEF TypeOK
<1>4. QED
  BY <1>1, <1>2, <1>3 DEF RequestBecomes

\* What a step of the request of s does: its own claims stay true, it writes
\* the base row only once, stores the PDF before saying so, and appends a row
\* only from "append", after a lookup that found none.
RequestEffect(s) ==
    /\ \A q \in Subs \ {s} : intake'[q] = intake[q]
    /\ \A q \in All \ {s} : submissions'[q] = submissions[q]
    /\ submissions'[s] # submissions[s] => submissions[s] = "none"
    /\ drive \subseteq drive'
    /\ submissions'[s] = "uploaded" => s \in drive'
    /\ UNCHANGED <<parsed, recon>>
    /\ intake'[s].pc \in Before \cup {"lookup", "append"} =>
          intake[s].pc \in Before \cup {"lookup"}
    /\ intake'[s].pc = "append" => ~HasJob(s)'
    /\ \/ UNCHANGED queue
       \/ intake[s].pc = "append" /\ AddsRow(s, Intake)

LEMMA RequestSteps ==
  ASSUME TypeOK, NEW s \in Subs, RequestOK(s), StoreOK(s),
         Request(s) \/ CrashIntake(s)
  PROVE  RequestEffect(s) /\ RequestOK(s)'
<1> DEFINE c == intake[s]
           a == intake[s].answer
<1>1. /\ intake' \in [Subs -> Requests] /\ UNCHANGED recon
      /\ AddsRow(s, Intake) \/ UNCHANGED queue
  BY RequestType
<1>2. /\ intake \in [Subs -> Requests] /\ s \in All
      /\ submissions \in [All -> {"none", "missing", "failed", "uploaded"}]
  BY DEF TypeOK, All
<1>3. ASSUME NEW p, NEW b, RequestBecomes(s, p, b)
      PROVE  /\ \A q \in Subs \ {s} : intake'[q] = intake[q]
             /\ intake'[s].pc = p /\ intake'[s].answer = b
  BY <1>2, <1>3 DEF RequestBecomes
<1>4. /\ \A p : Go(s, p) => RequestBecomes(s, p, a)
      /\ \A b : Answer(s, b) => RequestBecomes(s, "done", b)
  BY <1>1, GoBecomes, AnswerBecomes
<1> HIDE DEF c, a
<1> USE <1>2 DEF At, RequestEffect, RequestOK, StoreOK, Before
<1>5. CASE Receive(s)
  <2>1. UNCHANGED <<drive, submissions, parsed, queue, recon>>
    BY <1>5 DEF Receive, sheets
  <2>2. PICK p \in {"writeMissing", "upload"} : RequestBecomes(s, p, a)
    BY <1>4, <1>5 DEF Receive
  <2>3. intake[s].pc = "new" /\ a = intake[s].answer
    BY <1>5 DEF Receive, a
  <2>4. QED
    BY <1>3, <2>1, <2>2, <2>3 DEF HasJob
<1>6. CASE Upload(s)
  <2>1. UNCHANGED <<submissions, parsed, queue, recon>> /\ drive \subseteq drive'
    BY <1>6 DEF Upload
  <2>2. PICK p \in {"writeUploaded", "writeFailed"} :
          RequestBecomes(s, p, a) /\ (p = "writeUploaded" => s \in drive')
    BY <1>4, <1>6 DEF Upload
  <2>3. intake[s].pc = "upload" /\ a = intake[s].answer
    BY <1>6 DEF Upload, a
  <2>4. QED
    BY <1>3, <2>1, <2>2, <2>3 DEF HasJob
<1>7. CASE WriteMissing(s)
  <2>1. /\ intake[s].pc = "writeMissing"
        /\ \/ /\ submissions' = [submissions EXCEPT ![s] = "missing"]
              /\ Answer(s, "not_applicable")
           \/ /\ \/ submissions' = submissions
                 \/ submissions' = [submissions EXCEPT ![s] = "missing"]
              /\ Answer(s, "error")
        /\ UNCHANGED <<drive, parsed, queue, recon>>
    BY <1>7 DEF WriteMissing, WriteBase
  <2>2. PICK b \in {"not_applicable", "error"} :
          /\ RequestBecomes(s, "done", b)
          /\ b = "not_applicable" => submissions'[s] = "missing"
    BY <1>4, <2>1
  <2>3. QED
    BY <1>3, <2>1, <2>2 DEF HasJob
<1>8. CASE WriteFailed(s)
  <2>1. /\ intake[s].pc = "writeFailed" /\ a = intake[s].answer
        /\ \/ /\ submissions' = [submissions EXCEPT ![s] = "failed"]
              /\ Go(s, "logUpload")
           \/ /\ \/ submissions' = submissions
                 \/ submissions' = [submissions EXCEPT ![s] = "failed"]
              /\ Answer(s, "error")
        /\ UNCHANGED <<drive, parsed, queue, recon>>
    BY <1>8 DEF WriteFailed, WriteBase, a
  <2>2. PICK p \in {"logUpload", "done"}, b \in {"none", "error"} :
          /\ RequestBecomes(s, p, b)
          /\ p = "logUpload" => submissions'[s] = "failed" /\ b = "none"
    BY <1>4, <2>1
  <2>3. QED
    BY <1>3, <2>1, <2>2 DEF HasJob
<1>9. CASE WriteUploaded(s)
  <2>1. /\ intake[s].pc = "writeUploaded" /\ a = intake[s].answer
        /\ \/ /\ submissions' = [submissions EXCEPT ![s] = "uploaded"]
              /\ Go(s, "lookup")
           \/ /\ \/ submissions' = submissions
                 \/ submissions' = [submissions EXCEPT ![s] = "uploaded"]
              /\ Answer(s, "error")
        /\ UNCHANGED <<drive, parsed, queue, recon>>
    BY <1>9 DEF WriteUploaded, WriteBase, a
  <2>2. PICK p \in {"lookup", "done"}, b \in {"none", "error"} :
          /\ RequestBecomes(s, p, b)
          /\ p = "lookup" => submissions'[s] = "uploaded" /\ b = "none"
    BY <1>4, <2>1
  <2>3. QED
    BY <1>3, <2>1, <2>2 DEF HasJob
<1>10. CASE Lookup(s)
  <2>1. /\ intake[s].pc = "lookup" /\ a = intake[s].answer
        /\ UNCHANGED <<drive, submissions, parsed, queue, recon>>
    BY <1>10 DEF Lookup, sheets, a
  <2>2. \/ HasJob(s) /\ Answer(s, "queued")
        \/ /\ ~HasJob(s)
           /\ intake' = [intake EXCEPT ![s].pc = "append", ![s].stamp = now]
        \/ Go(s, "logEnqueue")
    BY <1>10 DEF Lookup
  <2>3. ASSUME intake' = [intake EXCEPT ![s].pc = "append", ![s].stamp = now]
        PROVE  RequestBecomes(s, "append", a)
    <3> DEFINE x == [intake[s] EXCEPT !.pc = "append", !.stamp = now]
    <3>1. intake' = [intake EXCEPT ![s] = x]
      BY <2>3
    <3>2. x.pc = "append" /\ x.answer = a
      BY DEF Requests, a
    <3> HIDE DEF x
    <3>3. x \in Requests
      BY <1>1, <3>1
    <3>4. QED
      BY <3>1, <3>2, <3>3 DEF RequestBecomes
  <2>4. \/ HasJob(s) /\ RequestBecomes(s, "done", "queued")
        \/ ~HasJob(s) /\ RequestBecomes(s, "append", a)
        \/ RequestBecomes(s, "logEnqueue", a)
    BY <1>4, <2>2, <2>3
  <2>5. QED
    BY <1>3, <2>1, <2>4 DEF HasJob
<1>11. CASE AppendJob(s)
  <2>1. /\ intake[s].pc = "append" /\ a = intake[s].answer
        /\ UNCHANGED <<drive, submissions, parsed, recon>>
    BY <1>11 DEF AppendJob, sheets, a
  <2>2. \/ AppendRow(s, Intake, intake[s].stamp) /\ Answer(s, "queued")
        \/ Go(s, "logEnqueue")
    BY <1>11 DEF AppendJob
  <2>3. ASSUME AppendRow(s, Intake, intake[s].stamp) PROVE HasJob(s)'
    <3>1. intake[s].stamp \in Time
      BY DEF Requests
    <3>2. AddsRow(s, Intake)
      BY <2>3, <3>1, AppendAdds DEF TypeOK
    <3>3. queue'[s] \in Seq(JobRow) /\ Len(queue'[s]) > 0
      BY <3>2 DEF AddsRow, TypeOK
    <3>4. QED
      BY <3>3 DEF HasJob
  <2>4. \/ HasJob(s)' /\ RequestBecomes(s, "done", "queued")
        \/ RequestBecomes(s, "logEnqueue", a)
    BY <1>4, <2>2, <2>3
  <2>5. QED
    BY <1>1, <1>3, <2>1, <2>4
<1>12. CASE LogUpload(s)
  <2>1. /\ intake[s].pc = "logUpload"
        /\ Answer(s, "not_applicable")
        /\ UNCHANGED <<drive, submissions, parsed, queue, recon>>
    BY <1>12 DEF LogUpload, LogFailure
  <2>2. QED
    BY <1>3, <1>4, <2>1 DEF HasJob
<1>13. CASE LogEnqueue(s)
  <2>1. /\ Answer(s, "enqueue_failed")
        /\ UNCHANGED <<drive, submissions, parsed, queue, recon>>
    BY <1>13 DEF LogEnqueue, LogFailure
  <2>2. QED
    BY <1>3, <1>4, <2>1 DEF HasJob
<1>14. CASE CrashIntake(s)
  <2>1. /\ Answer(s, "lost")
        /\ UNCHANGED <<drive, submissions, parsed, queue, recon>>
    BY <1>14 DEF CrashIntake, sheets
  <2>2. QED
    BY <1>3, <1>4, <2>1 DEF HasJob
<1>15. QED
  BY <1>5, <1>6, <1>7, <1>8, <1>9, <1>10, <1>11, <1>12, <1>13, <1>14 DEF Request

LEMMA RequestPreserves ==
  ASSUME IInv, TypeOK', QueueStep, serial' = (serial /\ Alone'),
         NEW s \in Subs, Request(s) \/ CrashIntake(s)
  PROVE  IInv'
<1>1. TypeOK /\ DataInv /\ AuthorInv /\ SerialInv /\ s \in All
  BY DEF IInv, All
<1>2. RequestEffect(s) /\ RequestOK(s)'
  BY <1>1, RequestSteps DEF DataInv
<1>3. queue \in [All -> Seq(JobRow)] /\ queue' \in [All -> Seq(JobRow)]
  BY <1>1 DEF TypeOK
<1>4. \A q \in All : HasJob(q) => HasJob(q)'
  BY <1>3, JobsKept
<1>5. \A q \in All \ {s} : queue'[q] = queue[q] /\ (HasJob(q)' <=> HasJob(q))
  BY <1>2 DEF RequestEffect, AddsRow, HasJob
<1>6. \A q \in All : /\ submissions[q] # "none" => submissions'[q] = submissions[q]
                     /\ q \in drive => q \in drive'
  BY <1>2 DEF RequestEffect
<1>7. HasJob(s)' => HasJob(s) \/ intake[s].pc = "append"
  BY <1>2 DEF RequestEffect, HasJob
<1>8. DataInv'
  <2>1. \A q \in Subs : RequestOK(q)'
    <3>1. ASSUME NEW q \in Subs, q # s PROVE RequestOK(q)'
      <4>1. /\ intake'[q] = intake[q] /\ submissions'[q] = submissions[q]
            /\ RequestOK(q) /\ q \in All
        BY <1>1, <1>2, <3>1 DEF RequestEffect, DataInv, All
      <4>2. QED
        BY <1>4, <1>6, <4>1 DEF RequestOK
    <3>2. QED
      BY <1>2, <3>1
  <2>2. \A r \in Reconcilers : ScanOK(r)'
    <3>1. Uploaded \subseteq Uploaded'
      BY <1>6 DEF Uploaded
    <3>2. QED
      BY <1>1, <1>2, <3>1 DEF RequestEffect, DataInv, ScanOK
  <2>3. \A q \in All : StoreOK(q)'
    <3>1. ASSUME NEW q \in All, q # s PROVE StoreOK(q)'
      BY <1>1, <1>2, <1>5, <1>6, <3>1 DEF RequestEffect, DataInv, StoreOK
    <3>2. StoreOK(s)'
      <4>1. intake[s].pc = "append" => submissions[s] = "uploaded"
        BY <1>1 DEF DataInv, RequestOK
      <4>2. s \notin Legacy
        OBVIOUS
      <4>3. QED
        BY <1>1, <1>2, <1>4, <1>6, <1>7, <4>1, <4>2
           DEF RequestEffect, DataInv, StoreOK
    <3>3. QED
      BY <3>1, <3>2
  <2>4. QED
    BY <2>1, <2>2, <2>3 DEF DataInv
<1>9. AuthorInv'
  <2>1. CASE UNCHANGED queue
    <3>1. \A q \in All : \A a : By(q, a)' => By(q, a)
      BY <2>1 DEF By
    <3>2. \A q \in All : DistinctAuthors(q)'
      BY <1>1, <2>1 DEF AuthorInv, DistinctAuthors
    <3>3. QED
      BY <1>1, <1>2, <2>1, <3>2 DEF AuthorInv, By, RequestEffect
  <2>2. CASE intake[s].pc = "append" /\ AddsRow(s, Intake)
    <3>1. ~By(s, Intake)
      BY <1>1, <2>2 DEF AuthorInv
    <3>2. \A q \in All :
            /\ \A b : By(q, b)' => By(q, b) \/ (q = s /\ b = Intake)
            /\ DistinctAuthors(q)'
      BY <1>1, <1>3, <2>2, <3>1, AddedAuthor DEF AuthorInv
    <3>3. \A q \in Subs : intake'[q].pc \in Before \cup {"lookup", "append"} =>
            q # s /\ intake'[q] = intake[q]
      BY <1>2, <2>2 DEF RequestEffect, Before
    <3>4. \A r \in Reconcilers : recon[r].pc = "append" =>
            recon[r].sub \in All
      BY <1>1 DEF DataInv, ScanOK, Uploaded
    <3>5. QED
      BY <1>1, <1>2, <3>2, <3>3, <3>4 DEF AuthorInv, RequestEffect, All
  <2>3. QED
    BY <1>2, <2>1, <2>2 DEF RequestEffect
<1>10. SerialInv'
  <2> SUFFICES ASSUME serial'
               PROVE  SerialInv'
    BY DEF SerialInv
  <2>1. /\ Alone /\ Alone'
        /\ \A q \in All : Len(queue[q]) <= 1
        /\ \A q \in Subs : intake[q].pc = "append" => ~HasJob(q)
        /\ \A r \in Reconcilers : recon[r].pc = "append" => ~HasJob(recon[r].sub)
    BY <1>1 DEF SerialInv
  <2>2. \A q \in All : Len(queue'[q]) <= 1
    <3>1. CASE UNCHANGED queue
      BY <2>1, <3>1
    <3>2. CASE intake[s].pc = "append" /\ AddsRow(s, Intake)
      <4>1. queue[s] = <<>>
        BY <2>1, <3>2 DEF HasJob
      <4>2. Len(queue'[s]) <= 1
        BY <3>2, <4>1 DEF AddsRow
      <4>3. ASSUME NEW q \in All, q # s PROVE Len(queue'[q]) <= 1
        <5>1. queue'[q] = queue[q]
          BY <1>5, <4>3
        <5>2. QED
          BY <2>1, <5>1
      <4>4. QED
        BY <4>2, <4>3
    <3>3. QED
      BY <1>2, <3>1, <3>2 DEF RequestEffect
  <2>3. \A q \in Subs : intake'[q].pc = "append" => ~HasJob(q)'
    BY <1>2, <1>5, <2>1 DEF RequestEffect, All
  <2>4. ASSUME NEW r \in Reconcilers, recon'[r].pc = "append"
        PROVE  ~HasJob(recon[r].sub)'
    <3>1. recon' = recon /\ Reconciling(r)
      BY <1>2, <2>4 DEF RequestEffect, Reconciling
    <3>2. ~Accepting(s)
      BY <2>1, <3>1 DEF Alone
    <3>3. UNCHANGED queue
      BY <1>2, <3>2 DEF RequestEffect, Accepting
    <3>4. QED
      BY <2>1, <2>4, <3>1, <3>3 DEF HasJob
  <2>5. QED
    BY <1>2, <2>1, <2>2, <2>3, <2>4 DEF SerialInv, RequestEffect
<1>11. QED
  BY <1>8, <1>9, <1>10 DEF IInv

-----------------------------------------------------------------------------
(* Steps of a reconciliation, of the worker and of the clock *)

\* What a step of reconciliation process r does: it keeps to uploads it does not
\* know to be parsed, and appends a row only from "append", after a second
\* lookup that found none.
ScanEffectOn(r) ==
    /\ \A q \in Reconcilers \ {r} : recon'[q] = recon[q]
    /\ UNCHANGED <<sheets, intake>>
    /\ recon'[r].pc = "append" => ~HasJob(recon[r].sub)'
    /\ \/ UNCHANGED queue
       \/ /\ recon[r].pc = "append" /\ recon'[r].pc # "append"
          /\ recon[r].sub \in All /\ AddsRow(recon[r].sub, r)

LEMMA ScanBecomesFields ==
  ASSUME TypeOK, NEW r \in Reconcilers, NEW p, NEW todo, NEW seen, NEW sub,
         NEW stamp, ScanBecomes(r, p, todo, seen, sub, stamp)
  PROVE  /\ \A q \in Reconcilers \ {r} : recon'[q] = recon[q]
         /\ recon'[r].pc = p /\ recon'[r].todo = todo
         /\ recon'[r].seen = seen /\ recon'[r].sub = sub
  BY DEF ScanBecomes, TypeOK

LEMMA ReconcileSteps ==
  ASSUME TypeOK, DataInv, NEW r \in Reconcilers,
         Reconcile(r) \/ RecoverFails(r) \/ EndScan(r)
  PROVE  ScanEffectOn(r) /\ ScanOK(r)'
<1> DEFINE c == recon[r]
<1>1. ScanOK(r) /\ Legacy \subseteq parsed
  BY DEF DataInv, StoreOK, All
<1>2. \/ /\ recon[r].sub \in All
         /\ recon[r].pc = "append"
         /\ AddsRow(recon[r].sub, r)
      \/ UNCHANGED queue
  BY ReconcileType
<1>3. UNCHANGED <<sheets, intake>> /\ Uploaded' = Uploaded
  BY ReconcileType DEF sheets, Uploaded
<1>4. CASE LoadSubmissions(r)
  <2>1. ScanBecomes(r, "results", Uploaded, c.seen, c.sub, c.stamp)
    BY <1>4, ScanEffect
  <2>2. UNCHANGED queue
    BY <1>4 DEF LoadSubmissions
  <2> HIDE DEF c
  <2>3. QED
    BY <1>1, <1>3, <2>1, <2>2, ScanBecomesFields DEF ScanEffectOn, ScanOK
<1>5. CASE LoadResults(r)
  <2>1. ScanBecomes(r, "scan", c.todo, parsed, c.sub, c.stamp)
    BY <1>5, ScanEffect
  <2>2. UNCHANGED queue
    BY <1>5 DEF LoadResults
  <2>3. QED
    BY <1>1, <1>3, <2>1, <2>2, ScanBecomesFields DEF ScanEffectOn, ScanOK
<1>6. ASSUME NEW s \in All, Consider(r, s)
      PROVE  ScanEffectOn(r) /\ ScanOK(r)'
  <2>1. UNCHANGED queue /\ c.pc = "scan" /\ s \in c.todo
    BY <1>6 DEF Consider, Scan
  <2>2. CASE Eligible(r, s)
    <3>1. ScanBecomes(r, "lookup", c.todo \ {s}, c.seen, s, c.stamp)
      BY <1>6, <2>2, ScanEffect
    <3>2. s \in Uploaded \ Legacy
      BY <1>1, <2>1, <2>2 DEF ScanOK, Eligible
    <3>3. QED
      BY <1>1, <1>3, <2>1, <3>1, <3>2, ScanBecomesFields
         DEF ScanEffectOn, ScanOK
  <2>3. CASE ~Eligible(r, s)
    <3>1. ScanBecomes(r, "scan", c.todo \ {s}, c.seen, NoSub, c.stamp)
      BY <1>6, <2>3, ScanEffect
    <3>2. QED
      BY <1>1, <1>3, <2>1, <3>1, ScanBecomesFields DEF ScanEffectOn, ScanOK
  <2>4. QED
    BY <2>2, <2>3
<1>7. CASE Recheck(r)
  <2>1. UNCHANGED queue /\ c.pc = "lookup"
    BY <1>7 DEF Recheck, Scan
  <2>2. CASE HasJob(c.sub)
    <3>1. ScanBecomes(r, "scan", c.todo, c.seen, c.sub, c.stamp)
      BY <1>7, <2>2, ScanEffect
    <3>2. QED
      BY <1>1, <1>3, <2>1, <3>1, ScanBecomesFields DEF ScanEffectOn, ScanOK
  <2>3. CASE ~HasJob(c.sub)
    <3>1. ScanBecomes(r, "append", c.todo, c.seen, c.sub, now)
      BY <1>7, <2>3, ScanEffect
    <3>2. /\ \A q \in Reconcilers \ {r} : recon'[q] = recon[q]
          /\ recon'[r].pc = "append" /\ recon'[r].todo = c.todo
          /\ recon'[r].seen = c.seen /\ recon'[r].sub = c.sub
      BY <3>1, ScanBecomesFields
    <3>3. ~HasJob(recon[r].sub)'
      BY <2>1, <2>3, <3>2 DEF HasJob
    <3>4. QED
      BY <1>1, <1>3, <2>1, <3>2, <3>3 DEF ScanEffectOn, ScanOK
  <2>4. QED
    BY <2>2, <2>3
<1>8. CASE Recover(r) \/ RecoverFails(r)
  <2>1. c.pc \in {"lookup", "append"}
    BY <1>8 DEF Recover, RecoverFails, Scan
  <2>2. ScanBecomes(r, "scan", c.todo, c.seen, c.sub, c.stamp)
    BY <1>8, ScanEffect
  <2>3. QED
    BY <1>1, <1>2, <1>3, <2>1, <2>2, ScanBecomesFields DEF ScanEffectOn, ScanOK
<1>9. CASE EndScan(r)
  <2>1. /\ recon' = [recon EXCEPT ![r] = IdleScan]
        /\ UNCHANGED queue
    BY <1>9 DEF EndScan
  <2>2. /\ \A q \in Reconcilers \ {r} : recon'[q] = recon[q]
        /\ recon'[r].pc = "idle" /\ recon'[r].todo = {}
    BY <2>1 DEF TypeOK, IdleScan
  <2>3. QED
    BY <1>3, <2>1, <2>2 DEF ScanEffectOn, ScanOK
<1>10. QED
  BY <1>4, <1>5, <1>6, <1>7, <1>8, <1>9 DEF Reconcile

LEMMA ReconcilePreserves ==
  ASSUME IInv, TypeOK', QueueStep, serial' = (serial /\ Alone'),
         NEW r \in Reconcilers, Reconcile(r) \/ RecoverFails(r) \/ EndScan(r)
  PROVE  IInv'
<1>1. TypeOK /\ DataInv /\ AuthorInv /\ SerialInv
  BY DEF IInv
<1>2. ScanEffectOn(r) /\ ScanOK(r)'
  BY <1>1, ReconcileSteps
<1>3. queue \in [All -> Seq(JobRow)] /\ queue' \in [All -> Seq(JobRow)]
  BY <1>1 DEF TypeOK
<1>4. \A q \in All : HasJob(q) => HasJob(q)'
  BY <1>3, JobsKept
<1>5. \A q \in All : queue'[q] # queue[q] =>
         /\ recon[r].pc = "append" /\ q = recon[r].sub
         /\ AddsRow(recon[r].sub, r)
  BY <1>2 DEF ScanEffectOn, AddsRow
<1>6. recon[r].pc = "append" => recon[r].sub \in Uploaded \ Legacy
  BY <1>1 DEF DataInv, ScanOK
<1>7. UNCHANGED <<drive, submissions, parsed, intake>> /\ Uploaded' = Uploaded
  BY <1>2 DEF ScanEffectOn, sheets, Uploaded
<1>8. DataInv'
  <2>1. \A q \in Subs : RequestOK(q)'
    BY <1>1, <1>4, <1>7 DEF DataInv, RequestOK, All
  <2>2. \A q \in Reconcilers : ScanOK(q)'
    BY <1>1, <1>2, <1>7 DEF ScanEffectOn, DataInv, ScanOK
  <2>3. ASSUME NEW q \in All PROVE StoreOK(q)'
    <3>1. HasJob(q)' => HasJob(q) \/ q \in Uploaded \ Legacy
      BY <1>5, <1>6 DEF HasJob
    <3>2. QED
      BY <1>1, <1>4, <1>7, <3>1 DEF DataInv, StoreOK, Uploaded
  <2>4. QED
    BY <2>1, <2>2, <2>3 DEF DataInv
<1>9. AuthorInv'
  <2>1. \A q \in All : /\ DistinctAuthors(q)'
                       /\ \A b : By(q, b)' => By(q, b) \/ b = r
    <3>1. CASE UNCHANGED queue
      BY <1>1, <3>1 DEF AuthorInv, DistinctAuthors, By
    <3>2. CASE /\ recon[r].pc = "append" /\ recon[r].sub \in All
               /\ AddsRow(recon[r].sub, r)
      <4>1. ~By(recon[r].sub, r)
        BY <1>1, <3>2 DEF AuthorInv
      <4>2. QED
        BY <1>1, <1>3, <3>2, <4>1, AddedAuthor DEF AuthorInv
    <3>3. QED
      BY <1>2, <3>1, <3>2 DEF ScanEffectOn
  <2>2. ASSUME NEW q \in Reconcilers, recon'[q].pc = "append"
        PROVE  ~By(recon[q].sub, q)'
    <3>1. CASE q = r
      <4>1. ~HasJob(recon[q].sub)'
        BY <1>2, <2>2, <3>1 DEF ScanEffectOn
      <4>2. QED
        BY <4>1 DEF HasJob, By
    <3>2. CASE q # r
      <4>1. recon'[q] = recon[q] /\ recon[q].sub \in All
        BY <1>1, <1>2, <2>2, <3>2 DEF ScanEffectOn, DataInv, ScanOK, Uploaded
      <4>2. QED
        BY <1>1, <2>1, <2>2, <3>2, <4>1 DEF AuthorInv
    <3>3. QED
      BY <3>1, <3>2
  <2>3. \A q \in Subs : intake'[q].pc \in Before \cup {"lookup", "append"} =>
          ~By(q, Intake)'
    BY <1>1, <1>7, <2>1 DEF AuthorInv, All
  <2>4. QED
    BY <2>1, <2>2, <2>3 DEF AuthorInv
<1>10. SerialInv'
  <2> SUFFICES ASSUME serial'
               PROVE  SerialInv'
    BY DEF SerialInv
  <2>1. /\ Alone /\ Alone'
        /\ \A q \in All : Len(queue[q]) <= 1
        /\ \A q \in Subs : intake[q].pc = "append" => ~HasJob(q)
        /\ \A q \in Reconcilers : recon[q].pc = "append" => ~HasJob(recon[q].sub)
    BY <1>1 DEF SerialInv
  <2>2. \A q \in All : Len(queue'[q]) <= 1
    <3>1. ASSUME NEW q \in All, queue'[q] = queue[q] PROVE Len(queue'[q]) <= 1
      BY <2>1, <3>1
    <3>2. ASSUME NEW q \in All, queue'[q] # queue[q] PROVE Len(queue'[q]) <= 1
      <4>1. queue[q] = <<>> /\ AddsRow(q, r)
        BY <1>5, <2>1, <3>2 DEF HasJob
      <4>2. QED
        BY <4>1 DEF AddsRow
    <3>3. QED
      BY <3>1, <3>2
  <2>3. ASSUME NEW q \in Subs, intake'[q].pc = "append"
        PROVE  ~HasJob(q)'
    <3>1. intake[q].pc = "append" /\ ~HasJob(q) /\ Accepting(q) /\ q \in All
      BY <1>7, <2>1, <2>3 DEF Accepting, All
    <3>2. recon[r].pc # "append"
      BY <2>1, <3>1 DEF Alone, Reconciling
    <3>3. QED
      BY <1>5, <3>1, <3>2 DEF HasJob
  <2>4. ASSUME NEW q \in Reconcilers, recon'[q].pc = "append"
        PROVE  ~HasJob(recon[q].sub)'
    <3>1. CASE q = r
      BY <1>2, <2>4, <3>1 DEF ScanEffectOn
    <3>2. CASE q # r
      <4>1. recon'[q] = recon[q] /\ ~HasJob(recon[q].sub) /\ Reconciling(q)
        BY <1>2, <2>1, <2>4, <3>2 DEF ScanEffectOn, Reconciling
      <4>2. recon[r].pc # "append"
        BY <2>1, <3>2, <4>1 DEF Alone, Reconciling
      <4>3. UNCHANGED queue
        BY <1>2, <4>2 DEF ScanEffectOn
      <4>4. QED
        BY <4>1, <4>3 DEF HasJob
    <3>3. QED
      BY <3>1, <3>2
  <2>5. QED
    BY <2>1, <2>2, <2>3, <2>4 DEF SerialInv
<1>11. QED
  BY <1>8, <1>9, <1>10 DEF IInv

\* The worker and the clock move no claim and add no row.
LEMMA QuietPreserves ==
  ASSUME IInv, TypeOK', serial' = (serial /\ Alone') \/ UNCHANGED serial,
         SameQueue, UNCHANGED <<drive, submissions, intake, recon>>,
         parsed \subseteq parsed',
         \A s \in parsed' \ parsed : HasJob(s)
  PROVE  IInv'
<1>1. TypeOK /\ DataInv /\ AuthorInv /\ SerialInv
  BY DEF IInv
<1>2. \A s \in All : /\ HasJob(s)' <=> HasJob(s)
                     /\ Len(queue'[s]) = Len(queue[s])
                     /\ \A a : By(s, a)' => By(s, a)
                     /\ DistinctAuthors(s) => DistinctAuthors(s)'
  BY <1>1, SameJobs, SameAuthorsBy DEF TypeOK
<1>3. Uploaded' = Uploaded
  BY DEF Uploaded
<1>4. \A r \in Reconcilers : recon[r].pc = "append" => recon[r].sub \in All
  BY <1>1 DEF DataInv, ScanOK, Uploaded
<1>5. DataInv'
  <2>1. \A s \in Subs : RequestOK(s)'
    BY <1>1, <1>2 DEF DataInv, RequestOK, All
  <2>2. \A r \in Reconcilers : ScanOK(r)'
    BY <1>1, <1>3 DEF DataInv, ScanOK
  <2>3. \A s \in All : StoreOK(s)'
    BY <1>1, <1>2 DEF DataInv, StoreOK
  <2>4. QED
    BY <2>1, <2>2, <2>3 DEF DataInv
<1>6. AuthorInv'
  BY <1>1, <1>2, <1>4 DEF AuthorInv, All
<1>7. SerialInv'
  <2>1. Alone' <=> Alone
    BY DEF Alone, Accepting, Reconciling
  <2>2. serial' => serial
    OBVIOUS
  <2>3. ASSUME serial' PROVE \A s \in All : Len(queue'[s]) <= 1
    BY <1>1, <1>2, <2>2, <2>3 DEF SerialInv
  <2>4. QED
    BY <1>1, <1>2, <1>4, <2>1, <2>2, <2>3 DEF SerialInv, All
<1>8. QED
  BY <1>5, <1>6, <1>7 DEF IInv

LEMMA IInvStep == IInv /\ [Next]_vars => IInv'
<1> SUFFICES ASSUME IInv, [Next]_vars PROVE IInv'
  OBVIOUS
<1>0. TypeOK /\ queue \in [All -> Seq(JobRow)]
  BY DEF IInv, TypeOK
<1>1. CASE Next
  <2>1. TypeOK' /\ QueueStep /\ serial' = (serial /\ Alone')
    BY <1>0, <1>1, TypeOKStep DEF Next
  <2>2. ASSUME NEW s \in All, Take(s) \/ Finish(s) PROVE IInv'
    <3>1. /\ SameQueue
          /\ parsed' = parsed \/ (parsed' = parsed \cup {s} /\ HasJob(s))
          /\ UNCHANGED <<drive, submissions, events, intake, recon, now>>
      BY <1>0, <2>2, WorkerType
    <3>2. QED
      BY <2>1, <3>1, QuietPreserves
  <2>3. CASE Tick
    <3>1. SameQueue
      BY <1>0, <2>3, SameAuthors DEF Tick
    <3>2. UNCHANGED <<drive, submissions, parsed, intake, recon>>
      BY <2>3 DEF Tick, sheets
    <3>3. QED
      BY <2>1, <3>1, <3>2, QuietPreserves
  <2>4. QED
    BY <1>1, <2>1, <2>2, <2>3, RequestPreserves, ReconcilePreserves DEF Next
<1>2. CASE UNCHANGED vars
  <2>1. SameQueue /\ UNCHANGED <<drive, submissions, parsed, intake, recon, serial>>
    BY <1>0, <1>2, SameAuthors DEF vars, state
  <2>2. TypeOK'
    BY <1>0, <1>2 DEF TypeOK, vars, state
  <2>3. QED
    BY <2>1, <2>2, QuietPreserves
<1>3. QED
  BY <1>1, <1>2

LEMMA IInvAlways == Spec => []IInv
  BY IInvInit, IInvStep, PTL DEF Spec

-----------------------------------------------------------------------------
(* The theorems *)

\* A job row appears only after its base row says "uploaded", and that only
\* after the PDF is in Drive, whichever call of finalize_submission or of the
\* reconciliation fails or dies in between.
THEOREM JobsHaveResumes == Spec => []JobHasResume
<1>1. IInv => JobHasResume
  BY DEF IInv, DataInv, StoreOK, JobHasResume
<1>2. QED
  BY <1>1, IInvAlways, PTL

\* "queued" is backed by a row, and what was answered "not_applicable" is never
\* parsed, not even after a later reconciliation.
THEOREM AnswersStayTrue == Spec => []AnswerHonest
<1>1. IInv => AnswerHonest
  BY DEF IInv, DataInv, StoreOK, RequestOK, AnswerHonest, All
<1>2. QED
  BY <1>1, IInvAlways, PTL

\* Reconciliation never queues a submission that was parsed before the queue
\* existed, although such a submission has no job row.
THEOREM LegacyStaysParsed == Spec => []LegacyNotRequeued
<1>1. IInv => LegacyNotRequeued
  BY DEF IInv, DataInv, StoreOK, LegacyNotRequeued, All
<1>2. QED
  BY <1>1, IInvAlways, PTL

\* No process adds a second row of its own, whatever it repeats; and while
\* reconciliation is operated as supported a submission has one row.
THEOREM OneRowPerAuthor == Spec => []OneRow
<1>1. IInv => OneRow
  BY DEF IInv, AuthorInv, DistinctAuthors, SerialInv, OneRow
<1>2. QED
  BY <1>1, IInvAlways, PTL
================================================================================
