---------------------------- MODULE ParserEnqueue ----------------------------
(***************************************************************************)
(* How an uploaded resume gets its parser job: finalize_submission of the  *)
(* intake API, the reconciliation script that repairs what intake left     *)
(* out, and the parser queue both append to.                               *)
(*                                                                         *)
(* One step is one Drive or Sheets call with the local code up to the next *)
(* call.  create_parser_job looks its submission up and then appends: the  *)
(* lock around the pair is per process, and intake and reconciliation are  *)
(* different processes, so the pair is two steps.  Each submission id is a *)
(* fresh uuid, so no two intake requests share one.  The worker is reduced *)
(* to taking and finishing the canonical row (module ParserWorker).        *)
(***************************************************************************)
EXTENDS Naturals, Sequences, FiniteSets

CONSTANTS
    Subs,        \* submissions received while the system runs
    Legacy,      \* submissions parsed before there was a job queue
    Reconcilers, \* processes running the reconciliation script
    Intake,      \* the intake API, as the author of a row
    NoSub,
    MaxNow,      \* bound on the clock: distinct created_at values
    Faults       \* subset of {"api", "crash"}

ASSUME EnqueueAssumption ==
    /\ Legacy \cap Subs = {}
    /\ NoSub \notin Subs \cup Legacy
    /\ Intake \notin Reconcilers
    /\ MaxNow \in Nat
    /\ Faults \subseteq {"api", "crash"}

VARIABLES
    drive,       \* submissions whose PDF is in Drive
    submissions, \* resume_status of each submission's base row
    queue,       \* parser_jobs: the rows of each submission, in sheet order
    parsed,      \* submissions with a parser_results row
    events,      \* errors sheet: <<submission, error_code>>
    intake,      \* the request that carries each submission
    recon,       \* the local state of each reconciliation process
    now,         \* clock behind created_at
    serial       \* history: so far every reconciliation has run alone

state == <<drive, submissions, queue, parsed, events, intake, recon, now>>
vars == <<state, serial>>
sheets == <<drive, submissions, parsed, events>>

All == Subs \cup Legacy
Time == 0..MaxNow

JobRow == [by : {Intake} \cup Reconcilers, created : Time,
           status : {"queued", "running", "succeeded", "failed"}]

Requests ==
    [pc : {"new", "writeMissing", "upload", "writeFailed", "writeUploaded",
           "lookup", "append", "logUpload", "logEnqueue", "done"},
     stamp : Time,
     answer : {"none", "lost", "error", "not_applicable", "queued",
               "enqueue_failed"}]

Scans == [pc : {"idle", "results", "scan", "lookup", "append"},
          todo : SUBSET All, seen : SUBSET All, sub : All \cup {NoSub},
          stamp : Time]

IdleScan == [pc |-> "idle", todo |-> {}, seen |-> {},
             sub |-> NoSub, stamp |-> 0]

TypeOK ==
    /\ drive \subseteq All /\ parsed \subseteq All
    /\ submissions \in [All -> {"none", "missing", "failed", "uploaded"}]
    /\ queue \in [All -> Seq(JobRow)]
    /\ events \subseteq All \X {"DRIVE_UPLOAD_FAILED", "PARSER_ENQUEUE_FAILED"}
    /\ intake \in [Subs -> Requests]
    /\ recon \in [Reconcilers -> Scans]
    /\ now \in Time
    /\ serial \in BOOLEAN

Init ==
    /\ drive = Legacy /\ parsed = Legacy /\ events = {}
    /\ submissions = [s \in All |-> IF s \in Legacy THEN "uploaded" ELSE "none"]
    /\ queue = [s \in All |-> <<>>]
    /\ intake = [s \in Subs |-> [pc |-> "new", stamp |-> 0, answer |-> "none"]]
    /\ recon = [r \in Reconcilers |-> IdleScan]
    /\ now = 0
    /\ serial = TRUE

-----------------------------------------------------------------------------
(* The job repository *)

\* Broken variant: only work that still waits is found.
HasQueuedJob(s) == \E i \in DOMAIN queue[s] : queue[s][i].status = "queued"

\* get_parser_job_by_submission finds some row.
HasJob(s) == queue[s] # <<>>

\* The row that stands for the logical job: oldest created_at, then sheet order.
Canonical(rows) == CHOOSE i \in DOMAIN rows : \A k \in DOMAIN rows :
    \/ rows[i].created < rows[k].created
    \/ rows[i].created = rows[k].created /\ i <= k

\* Broken variant: a job is created in a state no worker acts on.
NewRowInert(author, stamp) ==
    [by |-> author, created |-> stamp, status |-> "enqueue_failed"]
NewRow(author, stamp) == [by |-> author, created |-> stamp, status |-> "queued"]
AppendRow(s, author, stamp) ==
    queue' = [queue EXCEPT ![s] = Append(@, NewRow(author, stamp))]

-----------------------------------------------------------------------------
(* finalize_submission for submission s *)

At(s, p) == intake[s].pc = p
Go(s, p) == intake' = [intake EXCEPT ![s].pc = p]
Answer(s, a) == intake' = [intake EXCEPT ![s].pc = "done", ![s].answer = a]

\* A validated request, with or without a resume.
Receive(s) ==
    /\ At(s, "new")
    /\ Go(s, "writeMissing") \/ Go(s, "upload")
    /\ UNCHANGED <<sheets, queue, recon, now>>

\* Broken variant: the upload's exception is swallowed.
UploadUnchecked(s) ==
    /\ At(s, "upload")
    /\ \/ drive' = drive \cup {s}
       \/ "api" \in Faults /\ UNCHANGED drive
    /\ Go(s, "writeUploaded")
    /\ UNCHANGED <<submissions, parsed, events, queue, recon, now>>

\* upload_pdf; a failing call may have stored the file all the same.
Upload(s) ==
    /\ At(s, "upload")
    /\ \/ drive' = drive \cup {s} /\ Go(s, "writeUploaded")
       \/ /\ "api" \in Faults
          /\ drive' \in {drive, drive \cup {s}}
          /\ Go(s, "writeFailed")
    /\ UNCHANGED <<submissions, parsed, events, queue, recon, now>>

\* write_base_row; its exception answers the request with PROCESSING_FAILED.
WriteBase(s, step, status, next) ==
    /\ At(s, step)
    /\ \/ /\ submissions' = [submissions EXCEPT ![s] = status]
          /\ next
       \/ /\ "api" \in Faults
          /\ submissions' \in {submissions, [submissions EXCEPT ![s] = status]}
          /\ Answer(s, "error")
    /\ UNCHANGED <<drive, parsed, events, queue, recon, now>>

WriteMissing(s) ==
    WriteBase(s, "writeMissing", "missing", Answer(s, "not_applicable"))
WriteFailed(s) == WriteBase(s, "writeFailed", "failed", Go(s, "logUpload"))
WriteUploaded(s) == WriteBase(s, "writeUploaded", "uploaded", Go(s, "lookup"))

\* create_parser_job: an existing row is returned, otherwise one is stamped.
Lookup(s) ==
    /\ At(s, "lookup")
    /\ \/ IF HasJob(s) THEN Answer(s, "queued")
          ELSE intake' = [intake EXCEPT ![s].pc = "append", ![s].stamp = now]
       \/ "api" \in Faults /\ Go(s, "logEnqueue")
    /\ UNCHANGED <<sheets, queue, recon, now>>

AppendJob(s) ==
    /\ At(s, "append")
    /\ \/ AppendRow(s, Intake, intake[s].stamp) /\ Answer(s, "queued")
       \/ /\ "api" \in Faults
          /\ AppendRow(s, Intake, intake[s].stamp) \/ UNCHANGED queue
          /\ Go(s, "logEnqueue")
    /\ UNCHANGED <<sheets, recon, now>>

\* append_error_row is best effort, and the request is answered with a 200.
LogFailure(s, step, code, answer) ==
    /\ At(s, step)
    /\ \/ events' = events \cup {<<s, code>>}
       \/ "api" \in Faults /\ UNCHANGED events
    /\ Answer(s, answer)
    /\ UNCHANGED <<drive, submissions, parsed, queue, recon, now>>

LogUpload(s) == LogFailure(s, "logUpload", "DRIVE_UPLOAD_FAILED", "not_applicable")
LogEnqueue(s) == LogFailure(s, "logEnqueue", "PARSER_ENQUEUE_FAILED", "enqueue_failed")

\* The API process dies and the client never hears back.
CrashIntake(s) ==
    /\ "crash" \in Faults
    /\ intake[s].pc \notin {"new", "done"}
    /\ Answer(s, "lost")
    /\ UNCHANGED <<sheets, queue, recon, now>>

-----------------------------------------------------------------------------
(* reconcile_missing_parser_jobs in process r *)

Scan(r, p) == recon[r].pc = p
\* Broken variant: a base row is enough to be considered.
AnyBaseRow == {s \in All : submissions[s] # "none"}
\* Broken variant: only logged enqueue failures are considered.
LoggedFailures == {s \in All : <<s, "PARSER_ENQUEUE_FAILED">> \in events}
Uploaded == {s \in All : submissions[s] = "uploaded"}

LoadSubmissions(r) ==
    /\ Scan(r, "idle")
    /\ recon' = [recon EXCEPT ![r].pc = "results", ![r].todo = Uploaded]
    /\ UNCHANGED <<sheets, queue, intake, now>>

LoadResults(r) ==
    /\ Scan(r, "results")
    /\ recon' = [recon EXCEPT ![r].pc = "scan", ![r].seen = parsed]
    /\ UNCHANGED <<sheets, queue, intake, now>>

\* Broken variant: a parser result without a job does not count.
EligibleAgain(r, s) == ~HasJob(s)
Eligible(r, s) == ~HasJob(s) /\ s \notin recon[r].seen

\* The next submission of the scan is skipped or becomes the one to repair.
Consider(r, s) ==
    /\ Scan(r, "scan")
    /\ s \in recon[r].todo
    /\ recon' = [recon EXCEPT
          ![r].todo = @ \ {s},
          ![r].sub = IF Eligible(r, s) THEN s ELSE NoSub,
          ![r].pc = IF Eligible(r, s) THEN "lookup" ELSE "scan"]
    /\ UNCHANGED <<sheets, queue, intake, now>>

\* create_parser_job looks again, under the process's own lock.
Recheck(r) ==
    /\ Scan(r, "lookup")
    /\ recon' = IF HasJob(recon[r].sub)
                THEN [recon EXCEPT ![r].pc = "scan"]
                ELSE [recon EXCEPT ![r].pc = "append", ![r].stamp = now]
    /\ UNCHANGED <<sheets, queue, intake, now>>

Recover(r) ==
    /\ Scan(r, "append")
    /\ AppendRow(recon[r].sub, r, recon[r].stamp)
    /\ recon' = [recon EXCEPT ![r].pc = "scan"]
    /\ UNCHANGED <<sheets, intake, now>>

\* A failing create_parser_job is recorded and the scan goes on.
RecoverFails(r) ==
    /\ "api" \in Faults
    /\ \/ Scan(r, "lookup") /\ UNCHANGED queue
       \/ /\ Scan(r, "append")
          /\ AppendRow(recon[r].sub, r, recon[r].stamp) \/ UNCHANGED queue
    /\ recon' = [recon EXCEPT ![r].pc = "scan"]
    /\ UNCHANGED <<sheets, intake, now>>

\* The script ends: nothing is left, a load or the eligibility lookup raises,
\* or the process dies.
EndScan(r) ==
    /\ \/ Scan(r, "scan") /\ recon[r].todo = {}
       \/ "api" \in Faults /\ recon[r].pc \in {"results", "scan"}
       \/ "crash" \in Faults /\ ~Scan(r, "idle")
    /\ recon' = [recon EXCEPT ![r] = IdleScan]
    /\ UNCHANGED <<sheets, queue, intake, now>>

-----------------------------------------------------------------------------
(* The worker, as the queue sees it *)

Take(s) ==
    /\ HasJob(s)
    /\ queue[s][Canonical(queue[s])].status = "queued"
    /\ queue' = [queue EXCEPT ![s][Canonical(queue[s])].status = "running"]
    /\ UNCHANGED <<sheets, intake, recon, now>>

Finish(s) ==
    /\ \E i \in DOMAIN queue[s] :
          /\ queue[s][i].status = "running"
          /\ \/ /\ queue' = [queue EXCEPT ![s][i].status = "succeeded"]
                /\ parsed' = parsed \cup {s}
             \/ /\ queue' = [queue EXCEPT ![s][i].status = "failed"]
                /\ UNCHANGED parsed
    /\ UNCHANGED <<drive, submissions, events, intake, recon, now>>

Tick ==
    /\ now < MaxNow
    /\ now' = now + 1
    /\ UNCHANGED <<sheets, queue, intake, recon>>

-----------------------------------------------------------------------------
Request(s) ==
    \/ Receive(s) \/ Upload(s)
    \/ WriteMissing(s) \/ WriteFailed(s) \/ WriteUploaded(s)
    \/ Lookup(s) \/ AppendJob(s)
    \/ LogUpload(s) \/ LogEnqueue(s)

Reconcile(r) ==
    \/ LoadSubmissions(r) \/ LoadResults(r)
    \/ \E s \in All : Consider(r, s)
    \/ Recheck(r) \/ Recover(r)

\* The supported operation: reconciliation is run while no submission is being
\* accepted, and one process at a time.
Accepting(s) == intake[s].pc \notin {"new", "done"}
Reconciling(r) == recon[r].pc # "idle"
Alone ==
    /\ \A r \in Reconcilers : Reconciling(r) =>
          /\ \A s \in Subs : ~Accepting(s)
          /\ \A q \in Reconcilers \ {r} : ~Reconciling(q)

Next ==
    /\ \/ \E s \in Subs : Request(s) \/ CrashIntake(s)
       \/ \E r \in Reconcilers : Reconcile(r) \/ RecoverFails(r) \/ EndScan(r)
       \/ \E s \in All : Take(s) \/ Finish(s)
       \/ Tick
    /\ serial' = (serial /\ Alone')

Spec == Init /\ [][Next]_vars

\* Somebody keeps running the script, and a call tried over and over succeeds.
FairSpec ==
    /\ Spec
    /\ \A r \in Reconcilers :
          /\ WF_state(EndScan(r))
          /\ SF_state(LoadSubmissions(r))
          /\ SF_state(LoadResults(r))
          /\ \A s \in All : SF_state(Consider(r, s))
          /\ SF_state(Recheck(r))
          /\ SF_state(Recover(r))

-----------------------------------------------------------------------------
(* Properties *)

\* A worker can always fetch what it is asked to parse: a job row appears only
\* after its base row says "uploaded", and that only after the PDF is stored,
\* whichever call fails or dies in between.
JobHasResume == \A s \in All :
    /\ HasJob(s) => submissions[s] = "uploaded"
    /\ submissions[s] = "uploaded" => s \in drive

\* What the client was told stays true: "queued" is backed by a row, and a
\* submission answered "not_applicable" is never parsed, not even by a later
\* reconciliation.
AnswerHonest == \A s \in Subs :
    /\ intake[s].answer = "queued" => HasJob(s)
    /\ intake[s].answer = "not_applicable" => ~HasJob(s) /\ s \notin parsed

\* What was parsed before there was a queue is not parsed again.
LegacyNotRequeued == \A s \in Legacy : ~HasJob(s)

\* Racing lookups can duplicate a job, but no process adds a second row of its
\* own: lost answers, restarts and repeated scans do not multiply the rows.  And
\* as long as reconciliation is operated as supported a submission has one row,
\* so the row a worker works on is the row every reader sees.
OneRow == \A s \in All :
    /\ \A i, k \in DOMAIN queue[s] : queue[s][i].by = queue[s][k].by => i = k
    /\ serial => Len(queue[s]) <= 1

\* Every uploaded resume is eventually queued, also when intake died or failed
\* right after its base row.
UploadedIsQueued == \A s \in Subs : submissions[s] = "uploaded" ~> HasJob(s)
=============================================================================
