# TLA+ models of libelle

libelle takes volunteer applications with an optional PDF resume, parses the
resumes in a background worker, and shows reviewers a dashboard. Its database is
a Google spreadsheet and a Drive folder. Neither has transactions, unique keys
or compare-and-swap, every write is a network call that can fail after it was
applied, and several processes write the same sheets. What can go wrong in this
program is therefore mostly a matter of *order*: a stale copy of a row written
back, a process dying between two appends, two processes that both found
nothing. That is what these modules model.

Paths below are relative to `src/`.

## 1. Inventory

| Component | State it keeps | Operations | Talks to |
|---|---|---|---|
| Intake (`backend/api/routes/intake.py`, `services/intake_service.py`) | none between requests | `finalize_submission`: upload PDF, append base row, create job, log failures | Drive, `submissions`, `parser_jobs`, `errors` |
| Parser job repository (`storage/parser_jobs_repo.py`) | `parser_jobs` rows | create, list claimable, claim, update, canonicalise duplicates | sheet `parser_jobs` |
| Parser worker (`services/parser_worker.py`, `scripts/run_parser_worker_service.py`) | the attempt in progress | poll, claim, parse, persist, resolve, enrich, finish or fail | all processing sheets, Drive |
| Reconciliation (`services/parser_job_reconciliation.py`, `scripts/reconcile_parser_jobs.py`) | two snapshots during a scan | create missing jobs | `submissions`, `parser_results`, `parser_jobs` |
| Sheets repository (`storage/sheets_repo.py`) | `submissions`, `parser_results`, `errors`, `ops`, `ops_events` | appends, row overwrites, loads | Sheets API |
| Reviewer writes (`api/routes/dashboard.py`, `services/ops_write_service.py`, `core/coordination_lifecycle.py`) | `ops` row, `ops_events` log | create, update, upsert, coordination intent | Sheets repository |
| Dashboard snapshot (`services/dashboard_service.py` and helpers, `core/state_contract.py`) | none | load five sheets, select a result per submission, derive states | Sheets repository |
| Retention (`scripts/delete_volunteer_data.py`, `storage/retention_repo.py`, `storage/deletion_manifest.py`) | the manifest file | plan, delete Drive files, delete rows, resume | Drive, all sheets |
| Resume access (`services/resume_access_service.py`) | none | look a submission up, stream its PDF from Drive | `submissions`, Drive |
| Rate limiter (`services/rate_limit.py`) | time stamps per scope and key | check | intake route |
| Text algorithms (`backend/parser.py`, `backend/resolver/`, ...) | none | parse, resolve | worker |

### Interactions that are hard

* The worker, intake, reconciliation, reviewers and retention share sheets. All
  locks in the repository (`_parser_jobs_write_lock`, `_ops_write_lock`) are
  `threading.Lock`s, hence per process.
* A row is updated by reading it, editing a copy and overwriting the whole row.
* The worker's authority over a job is a lease with an expiry time, rechecked
  one call before each side effect: check and effect are not atomic.
* A job may be retried after failures, crashes and lost answers; each attempt
  has a fresh run id and may leave result and error rows behind.
* An upload exists in three stores that are written one after another.
* Reconciliation decides on snapshots taken earlier.
* A reviewer's upsert is three critical sections with an unlocked look at
  `submissions` in between; its row and its events are two calls.
* A snapshot is five reads, with writers in between.
* A deletion is a sequence of Drive calls, one Sheets batch and a receipt on disk,
  any of which may fail or be cut off; the next try starts from what is left.

### What makes each component correct

* *Worker*: an authority always has its result row; a terminal job is never
  reopened; attempts are bounded and counted; a live lease is not stolen; every
  job ends.
* *Enqueue*: no job without a stored resume; no upload without a job in the
  end; duplicates bounded; the client's answer is true.
* *Reviewer writes*: calls are atomic and their answers true; one `ops` row per
  submission; the coordination lifecycle only moves the way its validator accepts;
  events retell a field's history; every call ends.
* *Snapshot*: the badge, the panels and the job layer of a record agree; a job
  that ended is shown as what it is; output stays visible; a report of contradictory
  stores is about the stores, or at worst about a row that came between two reads.
* *Retention*: what the receipt says deleted is gone, and a rerun finishes what a
  crash left.
* *Rate limiter*: it decides by the accepted requests of each window and nothing
  else, and its Retry-After is exact.

The list of hazards, each at its source line with the properties that would
catch it, is `hazards` in `PROJECT.json`.

## 2. Modules

| Module | Models | State |
|---|---|---|
| `ParserWorker` | the polling worker over the `parser_jobs`, `parser_results` and `errors` sheets | `jobs`, `results`, `resolved`, `errors` (sheets), `workers` (process memory) |
| `JobLifecycle` | what the queue promises its readers | `phase`, `attempts`, `current`, `chosen` |
| `ParserWorkerProofs` | theorems about `ParserWorker` with any number of workers | |
| `SingleWorkerProofs` | theorems about `ParserWorker` with one worker; it implements `JobLifecycle` | |
| `ParserEnqueue` | intake, reconciliation and the queue they append to | `drive`, `submissions`, `queue`, `parsed`, `events` (stores), `intake`, `recon` (process memory), `now` |
| `ParserEnqueueProofs` | theorems about `ParserEnqueue` | |
| `OpsWorkflow` | the four reviewer write endpoints over `ops` and `ops_events` | `submitted`, `ops`, `events` (sheets), `lock`, `req` (memory of the API process), `now` |
| `ReviewDesk` | what reviewers are promised: atomic calls | `submitted`, `record`, `call` |
| `OpsWorkflowProofs` | theorems about `OpsWorkflow`; it implements `ReviewDesk` | |
| `Retention` | the offline deletion command, its receipts, and the stores it empties | `sheets`, `drive` (stores), `receipts` (disk), `run` (the command) |
| `RetentionProofs` | theorems about `Retention` | |
| `Snapshot` | how one submission's evidence becomes its snapshot record, and the answer to a request for its resume | none: operators only |
| `Dashboard` | the five reads of a snapshot next to intake, a reviewer and `ParserWorker` | those of `ParserWorker`, `intake`, `shelf`, `desk`, `reader`, `archive` |
| `SnapshotProofs` | the parts of one record agree, whatever the evidence | |
| `DashboardProofs` | a snapshot contradicts itself only after a race between its reads; output stays shown; how the end of a job is shown | |
| `RateLimiter` | the intake limiter and the address it charges | `config`, `events`, `log` (history) |
| `RateLimiterProofs` | theorems about `RateLimiter` | |
| `*MC` | symmetry sets and initial contents for TLC | |

**Granularity.** One step is one Sheets or Drive call with the local code that
runs up to the next call. A read leaves a row in the process's memory; the write
that follows overwrites the sheet with that copy, however stale.

### ParserWorker

`workers[w].pc` names the next call. The actions follow one attempt in order:

| Action | Code |
|---|---|
| `Poll` | `run_once`, `list_claimable_jobs`, a fresh `parser_run_id` |
| `ClaimRead`, `ClaimWrite`, `ClaimConfirm` | `claim_job`: lookup, overwrite, read-back |
| `Gate` (eight program points) | `_lease_ok` before every side effect |
| `StartRead`, `StartWrite` | `_mark_parser_started` through `update_job` |
| `Parse` | `_run_parser`: download, extraction, `parse_resume` |
| `CheckResult`, `AppendResult` | `persist_parser_result_if_missing` |
| `Resolve`, `EnrichRead`, `EnrichWrite` | resolver output and its overwrite of the result row |
| `AppendError` | `_record_attempt_failure` |
| `FailGet`, `FailRead`, `FailWrite` | `_mark_failed_or_retry`: decision, `update_job` |
| `FinalGet`, `FinalRead`, `FinalWrite` | `_mark_succeeded` |
| `Raise`, `Crash`, `Tick` | an escaped exception; process death and restart; time |

Abstractions: a time stamp is the number of clock ticks left until it, so the
clock is unbounded without being a counter. A run id may be used again once
nothing in the model names it (uuids never collide). Row texts, scores and
summaries are dropped, except that `update_job` refuses summaries outside its
table (`SafeErrorCodes`). A call that was applied but whose answer was lost is the
applied step followed by `Raise`, or, where the code catches the exception, a
disjunct of its own (`AppendResult`, `EnrichWrite`).

`Faults` says which failures the environment may inject: `parser`, `persist`
(result persistence raises), `resolver`, `enrich`, `log` (error row not written),
`api` (a call nobody in the attempt catches raises), `crash`, `slow` (time passes
during an attempt, so leases expire under it).

### JobLifecycle

A job waits, is attempted (each attempt under a new run, one after the other,
at most `MaxAttempts`), and succeeds with the run of its latest attempt or fails
with its budget spent. `ParserWorker!ImplementsLifecycle` maps `queued` and
`retry_scheduled` to waiting and `running` to attempting.

### ParserEnqueue

`intake[s]` is the request carrying submission `s` through
`finalize_submission`, `recon[r]` a process running the reconciliation scan.
`create_parser_job` is a lookup step and an append step with the `created_at`
taken in between. `Canonical` ranks duplicates by `created_at` and sheet order
as `_canonicalize_matches_with_row_number` does. The worker is reduced to taking
the canonical row and finishing it. `Legacy` submissions start with a result and
no job, as the ones parsed before the queue existed do.
The history variable `serial` tells whether every reconciliation so far ran alone,
and `OneRow` claims a single row for such histories only: that is a statement about how the
script is operated, not a guard of the code.

### OpsWorkflow and ReviewDesk

The deployed API is one uvicorn process
(`infrastructure/systemd/libelle-backend.service.template:13`) whose synchronous
endpoints run in threads, so `_ops_write_lock` excludes them from each other.
`req[t]` is one call; `req[t].pc` names its next Sheets call or lock acquisition:

| Action | Code |
|---|---|
| `Receive` | the routes in `api/routes/dashboard.py`, any validated request |
| `UpdateRead` | `update_ops_row_if_exists`: lock, load, edit a copy; for the upsert also its last fallback (`updateAgain`) |
| `CheckSubmission` | the upsert's look at `submissions`, lock free |
| `CreateRead` | `create_ops_row_if_missing`: lock, load, first row |
| `CoordinateRead`, `CoordinateRoot` | `set_coordination_intent`: lock, load, look at `submissions`, `apply_intent` |
| `Write`, `WriteFails` | the append or the overwrite, which may be applied and still raise |
| `Log` | `append_ops_event_rows`, best effort |
| `ReadFails`, `Crash`, `Submit`, `Tick` | a read that raises; process death; intake; time |

Taking the lock and the read that follows are one step: no other thread can tell
them apart. Leaving it belongs to the step that answers. `tags` and
`contact_tracking` are written by a create only, and the free texts of a
coordination record come with each intent; neither decides anything and both are
left out. `Texts` are trimmed texts (the loader strips every cell).
Time stamps are those of a clock that does not run backwards. A crash
between an applied write and its events is `Write` followed by `Crash`.

`ReviewDesk` knows nothing of rows, locks or Sheets: a call is invoked, takes
effect in one step on the fields it names (or is refused for a reason that holds
then, or fails), and is answered; a dying service loses answers, never effects.
`OpsWorkflow!ImplementsDesk` maps a submission's record to its first `ops` row. The
answer `stuck` (the upsert's closing `RuntimeError`) does not exist on the desk, so
the refinement also says that it is never given.

### Retention

`Begin(c)` is everything the command does before it writes anything: reading the
receipt and the inventory, `retention_scope` for every id (`Eligible`), gathering
and checking file references (`Gathered`, `Unreferenced`, `Shared`), comparing with an
existing receipt (`Covers`) and composing the batch (`Requests`, each tab's rows
`LastFirst`). A refused command
changes nothing and is no step. From there `run.pc` names the next call:

| Action | Code |
|---|---|
| `Create`, `CreateFails` | the receipt's exclusive first write; broken off, it is `Torn` and no command accepts it |
| `Mark`, `Progress`, `Close` (and `...Fails`) | `DeletionManifest.save`, a temporary file renamed over the receipt: the old or the new one after any failure |
| `DeleteFile`, `DriveFails` | one Drive deletion or the operator's attestation that the file is gone; a missing file without attestation ends the command |
| `Batch`, `BatchFails` | the single `batchUpdate`: applied as a whole or not at all, each request (`Requested`) to the grid the one before it left (`AppliedTo`) |
| `Verify`, `VerifyFails` | the second `read_inventory` |
| `Crash` | the process is killed |
| `Reference` | between commands an operator reconciles a row that had no file reference, as the error message asks |

The command demands that readers and writers are stopped, so nobody else moves
while `run` is busy and reading seven tabs is one step. `parser_results` and `errors` are
treated alike and are one tab; cells the command does not look at are dropped. A
file is attested as absent only when it is: that is the owner's verification, which
the code cannot make. Receipts are taken as written by this version. `--orphans`
is one way of choosing `ids`, and the model allows every choice.

### Snapshot and Dashboard

`Snapshot` has no variables. Its operators take the *evidence* of one submission (a
cell of its row, its result rows, its error codes, its job row, its ops rows) and follow
`assemble_snapshot_records`: which result row backs the record
(`SelectParserResult`), the three states and the badge (`ParserState`,
`ResolverState`, `DeriveHealth`), the panels (`ParsedLayer`, `ResolvedLayer`,
`JobLayer`), the ops row and coordination (`CurrentOps`, `LatestOps`). `created_at`
order is the order of a sequence; ties between two attempts of one job cannot
occur, a retry being at least a minute away. What cells say in words, scores and
time stamps is dropped.

`Dashboard` extends `ParserWorker` and lets everybody else write around one reader:

| Action | Code |
|---|---|
| `File`, `Queue` | intake appends the base row, then intake or reconciliation the job row |
| `Report` | intake's error row for a failed enqueue; its stamp may fall anywhere among the worker's |
| `Review` | a reviewer's first write creates the `ops` row |
| `Work` | any step of `ParserWorker`; what it appends goes to the `shelf`, which adds the order to `ParserWorker`'s sets |
| `ReadSubmissions`, `ReadResults`, `ReadOps`, `ReadErrors`, `ReadJobs` | the five loads, in the order `get_snapshot_records` evaluates them |
| `ReadFails` | a load raises and the request fails as a whole |

`archive` is the evidence of one more submission, which nobody works on. Its initial
value is any member of `Archives`: rows that never met, a job row with garbled
cells, an unknown resume status, an orphaned or doubled ops row. It never changes, and
the rest of the model never looks at it; `DashboardMC` therefore lets the system run
next to one archive and inspects the others in their initial states.

`Delivered(j)` is the record composed if the last load is answered now, `Quiet(j)`
the record if all five were; invariants over the two need no copy of the delivered
record. What `Dashboard` shows of this code, besides its properties:

* A torn read is possible and looks like corruption. The result row and the job's
  success may both fall between the read of `parser_results` and the read of
  `parser_jobs`; the record then says `broken_pipeline` with a malformed job, whose
  meaning is "Backend state is missing, unknown, or contradictory"
  (`docs/product/reviewer_state_labels.md:36`), though the stores never were. The next
  snapshot is right. Reading the sheets in the opposite order would not do this.
* Only the latest error of a submission counts, whichever attempt left it, so
  `resolver_failed` may be the verdict on another attempt than the one shown.
* A failed job is shown `complete` when an attempt left its row and its resolver
  columns and only its finalization failed. `complete` may fall back to
  `partial_success` when such a job is tried again. Parsed output never goes away.
* A resolver result that could not be persisted (`RESOLVER_PERSIST_FAILED`) is shown
  as a resolver that has not run.

### RateLimiter

The route is a coroutine without an `await` between reading the client's address
and recording the request, so `Request` is one step. A stored time is the age of a
request in ticks, `Second` ticks to a second, so that rounding is visible; ages
stop counting at the longest window. `log` is the history of accepted requests, kept
for that window and independent of `events`. `config` holds the limits, 0 meaning off.
Restarting the process forgets both, as the class comment says. `Clients` send
directly or through `Proxy`; whoever is not the proxy may send a forwarding header
too.

## 3. Runs

| Run | Instance | What it shows |
|---|---|---|
| `worker_handled` | 2 jobs, 1 worker, 2 attempts, failures the worker handles | `EveryJobTerminates` |
| `worker_faults` | 1 job, 1 worker, 3 attempts, every fault | `AttemptBudget`, `TerminalIsFinal`, `NoStolenLease`, `ImplementsLifecycle`, `EveryJobSettles` |
| `worker_two` | 1 job, 2 workers, 2 attempts | `TypeOK`, `AuthorityBacked`, `FailureEvidenceConsistent` |
| `worker_persist` | 1 job, result persistence fails | **violates** `EveryJobTerminates` (section 5) |
| `enqueue_race` | 1 new and 1 legacy submission, 2 reconcilers, failing calls and crashes | `JobHasResume`, `AnswerHonest`, `OneRow`, `LegacyNotRequeued` |
| `enqueue_live` | 1 new and 1 legacy submission, 1 reconciler | `UploadedIsQueued` |
| `ops_desk` | 1 submission, 3 calls of any kind, failing calls and crashes | `TypeOK`, `OneOpsRow`, `CopiesFresh`, `EventsReplay`, `PurposeSpan`, `ImplementsDesk` |
| `ops_live` | 1 submission, 2 calls, every fault | `EveryCallAnswered` |
| `retention_faults` | 2 submissions, 2 receipts, 2 cutoffs, every fault; the sheets hold interleaved rows with 3 files, or a row without a reference, a submission without an `ops` row and a coordination that ended between the cutoffs; a stray file | `TypeOK`, `ReceiptHonest`, `OneUnaccounted`, `FileBeforeRow`, `OthersUntouched`, `ScopeKept`, `HistoryCounted` |
| `retention_live` | the interleaved rows, 1 receipt, every fault | `EveryDeletionFinishes` |
| `dashboard` | 1 submission, 1 worker, 2 attempts, every fault, 1 reader; every archive with at most 2 result rows, 1 error and 2 ops rows | `ReaderTypeOK`, `TornOnlyByRace`, `EndShown`, `OutputStays`; of the archive `LayersAgree` (`OneStory` and `AccessAgrees`), `HealthIsMatrix`, `OpsOfOneRow` |
| `rate_limiter` | 2 clients, a proxy, 2 email addresses, 6 settings, windows of 1 and 3 seconds | `LimiterTypeOK`, `WithinQuota`, `RetryAfterExact` |

**Bounds.** Jobs do not interact except through the worker that serves them, so
one job exercises every row-level race and two show that a job is not starved by
another. `MaxAttempts = 3` is the code's default and distinguishes first, middle
and last attempt; a lease of one or two ticks and delays of one and two ticks
give every order of "lease expires" and "retry comes due". `Runs` has one run
more than can be named at once, so `Poll` is never blocked for want of an id.
Rows of different submissions meet in `OpsWorkflow` only through sheet positions,
which nothing removes, so one submission suffices; three calls give the race of an
upsert with a create that precedes it, and preserve, end, preserve with edits in
between; `MaxNow = 1` gives equal and later stamps; a finished call forgets its locals.
Two reconcilers and intake are the three writers whose lookups can interleave;
`MaxNow = 1` gives distinct and equal `created_at` values. Symmetry is used in
safety runs only, over run ids, jobs, workers, reconcilers, calls and addresses, none of
which is named by a constant definition.

Records of a snapshot are composed submission by submission, so one submission
suffices; two attempts give a row that is shown and one that replaces it. A record
looks at the latest error, at one or two result rows and at the words of single
cells, and the ops rows touch no other part of it, so `Archives` covers every case of
its code without their product. In `RateLimiter` limits of one to
three and four requests fill every scope, alone and together; half-second ticks
separate a window's last moment from its end.

Two receipts let any two operations of any selection and reason overlap, each
abandoned and resumed at every call; that is where `OneUnaccounted` counts one lost
answer per operation. Three rows of a tab, two of them neighbours, are the fewest in
which a wrong order of row deletions hits another submission. Liveness is checked
with one receipt, because the strong fairness of two is beyond TLC's reach. The
retention runs may end in a state without steps when everything is deleted or a
torn receipt blocks the only path, so they do not check deadlock.

**Fairness.** `poll_forever` never stops and the service manager restarts it,
so `Poll` and the steps of an attempt are weakly fair and time advances. Claiming
is strongly fair: an API failure or a crash may hit a claim, but not every
claim for ever. Nothing is assumed to keep an attempt from failing or a
lease from expiring. In `ParserEnqueue` fairness says that the
script is run again and again and that a call tried for ever succeeds at some
point; the repository installs no timer for it, so `UploadedIsQueued` is a promise
under that operation. No fairness is assumed of intake, which may die anywhere. In
`OpsWorkflow` a thread that is serving a call goes on; weak fairness on a thread
that waits for the lock is enough because finitely many calls compete for it. In
`Retention` no call hangs; the operator resumes an unfinished operation again and
again, as the runbook (`docs/deployment/volunteer_data_retention.md`) demands, now and
then with the missing files verified, and for such a command no call fails for
ever. New references made by `Reference` need a new receipt by design, so
`EveryDeletionFinishes` is checked without stray files.

## 4. Proofs

Constants are only assumed to be what the named assumptions say
(`ConstantsAssumption`, `EnqueueAssumption`, `OpsAssumption`, `RetentionAssumption`,
`LimiterAssumption`, `NoRowAssumption`): any number of jobs, workers, runs, submissions,
files, receipts, requests and processes, any budget, lease, delay, limit and window, any
contents of the sheets, any set of faults. Where a theorem needs more, it says so
as a hypothesis.

`ParserWorkerProofs`, for any number of workers:

* `TypeCorrect`: `Spec => []TypeOK`.
* `AuthorityAlwaysBacked`: `Spec => []AuthorityBacked`. The property is not
  inductive: what a worker *will* write matters. `BackedInv` adds that every row
  copy in a worker's memory is as well backed as the sheet and that a worker past
  its append (`Persisted`) has its result row. `results` only grows, so reads,
  stale overwrites and ticks all keep it.
* `EvidenceAgrees`: `Spec => []FailureEvidenceConsistent`. `EvidenceInv` adds that no
  two workers share a run and that a worker which may still report a parser failure,
  or may still append its result, has not done the other (`Untold`). A run taken by
  `Poll` is named nowhere (`UnusedRun`), which is where uuids being fresh comes in.

`SingleWorkerProofs` assumes `OneWorker`, the deployment the documentation supports
(two workers refute each of these, as the model shows when it is given two):

* `BudgetKept`, `TerminalStays`, `LeaseNotStolen` and `LifecycleImplemented`
  (`AttemptBudget`, `TerminalIsFinal`, `NoStolenLease`, `ImplementsLifecycle`), from
  one invariant. `SoloInv` says that a copy of a row is the row in all that readers
  see (`CopyOK`: only the clock moved it since), and that the result rows of a job
  belong to as many runs as attempts were counted (`JobOK`, `Charged`: an attempt in
  flight is paid for before its append). Every step then does to the row, as its
  readers see it, exactly one thing (`SeenStep`): nothing, a claim, a retry, a
  failure or a success, and these are the actions of `JobLifecycle`.

`ParserEnqueueProofs` proves `TypeCorrect`, `JobsHaveResumes`, `AnswersStayTrue`,
`LegacyStaysParsed` and `OneRowPerAuthor` (`TypeOK`, `JobHasResume`, `AnswerHonest`,
`LegacyNotRequeued`, `OneRow`), from `IInv`:

* `RequestOK` and `ScanOK` say what a process knows at each program point and nobody
  can undo: that the PDF and the base row are written, that a submission still on a
  scan's list was uploaded and not parsed when the snapshots were taken.
* `AuthorInv`: a process about to append has no row yet, and no two rows have one
  author; a lookup that finds the row of a lost append is why.
* `SerialInv`: while `serial` holds, at most one process stands between its lookup
  and its append for a submission, and what it looked up is still so.

`OpsWorkflowProofs`:

* `TypeCorrect`, `RowsStayUnique`, `CopiesStayFresh`, from one inductive invariant
  `Inv`: types, no lifecycle stamp ahead of the clock (an end stamped now must not
  precede its start), `OneOpsRow`, and `CopiesFresh`, which makes `OneOpsRow`
  inductive: only the holder of the lock is past its read, and what it read is
  still so.
* `ImplementsDeskAlways`: `Spec => ImplementsDesk`. On top of `Inv` the argument
  needs what a call has found out and nobody can undo (`Promises`): an upsert about
  to create has seen its submission, one that comes to its last fallback has seen
  the row, and a row about to be written is exactly the desk's effect on the
  record it was computed from. One lemma per action then shows that `Write` is the
  moment a call takes effect and that every other step is an answer or invisible.
* `PurposeGoesForward`: `Spec => PurposeSpan`. `Memories` carries the lifecycle of the
  row that was read (`was`) next to the one about to be written, so that the step
  from the sheet's row to its overwrite is the step `validate_lifecycle` allowed.
* `HistoryReplays`: `"log" \notin Faults => (Spec => []EventsReplay)`. The append of
  events is best effort: where it fails, the history has a gap, so that the property
  excludes runs with such a failure and the theorem the fault itself. `History` adds
  the moment between the write of a row and the append of its events, when the
  log still tells the row that was read (`LogsTold`).

`SnapshotProofs`, with no assumption on the constants but `NoRowAssumption`:

* `RecordsTellOneStory`: `OneStory` and `AccessAgrees` of every piece of evidence,
  whatever the number and contents of its result and error rows and its job row,
  provided a submission without a resume was not processed and its `resume_status`
  cell is not the name of a state (intake writes neither). The proof follows the
  order of tests in the code, one case per derived state.
* `HealthFollowsMatrix`: `FollowsMatrix(e)` for every `e` whatever, because the three
  states range over the enumerations of the contract however they were derived.
* `OpsFromOneRow`: `OpsAgree(e)` for any number of ops rows of any ages.
  `CurrentOps` and the coordination layer scan the rows by a different rule, the
  first by a recursive function; that both stop at one row follows from the least
  row where they could differ (`SelectionsAgree`).
* `LayersAlwaysAgree`, `HealthAlwaysMatrix`, `OpsAlwaysOfOneRow`: the same as
  `DashboardSpec => []...`, for the evidence of `Archives` and any set of runs.

`DashboardProofs` composes the worker's theorems with the read model:

* `SnapshotTornOnlyByRace`: `DashboardSpec => []TornOnlyByRace`, any number of workers.
  A record is broken only for a success that nothing backs, or for a resolver error
  without output (`UploadedNotBroken`). `CompleteEvidenceTrusted` rules both out for
  rows that miss none of the sheet's: `BackedInv` backs the authority, and it puts a
  result row under every resolver error, a worker being past its append when it
  reports one. `DashboardInv` carries this to the reader. What it holds of
  `parser_results` is a prefix of the rows that are there now (`Prefix`), what it
  holds of `errors` is explained by a result row, and what it lists was filed. The
  steps that matter are the worker's append of one row (`ShelvedResults`), its error
  row (`ShelvedErrors`) and the late error row of intake (`InsertAtElements`). A
  reader that missed no result row therefore holds rows that miss none, and its
  record is trusted (`DeliveredTrusted`).
* `OutputAlwaysStays`: `DashboardSpec => OutputStays`, any number of workers. A panel
  says `complete` exactly for a submission with a result row (`OutputIsARow`), and
  no step takes a row from the shelf (`ShelfKeepsRows`).
* `ReaderTypeCorrect` and `EndAlwaysShown` (`ReaderTypeOK`, `EndShown`), under
  `OneWorker`. `SoleInv` adds to `DashboardInv` and `SoloInv` that the worker touches
  queued jobs only, that the shelf has each result row once (`ShelfExact`), that the
  last one is the authority's or the running attempt's (`LatestOnTop`), that an
  attempt leaves one error row and is counted for it (`OneErrorEach`), and that the
  rows a reader holds stand on the shelf (`CopyKept`). How the end of a job is shown
  then follows from `SoloInv`: a succeeded job has its authority on top, a failed one
  either has output or an error of its last attempt.

`RetentionProofs` proves every safety property of `Retention`, with finite sets of
files and of submissions as the one thing assumed of their number:

* The batch first. `AppliedTo` is a recursive function; `BatchHasGrids` shows that
  it has the sequence of grids it describes (a sequence ending in one more grid exists
  for each number of requests, by the least number for which it would not), and every
  later fact about a batch is again a fact about the least grid that could break it.
  `BatchDescends`: whatever is asked for, each row left was there before.
  `BatchSpares`: if the requests name matched rows from the last to the first, as
  `Requests` lists them (`RequestsPlanned`), the rows of other submissions stay in their
  order. The induction keeps that the part of the grid above the next request has not
  moved, which is why the order matters.
* `TypeCorrect`: `Spec => []TypeOK`, with `Loadable`: what the next command must load
  can be loaded.
* `AlwaysSound`: `TypeOK`, `RunInv` and `ReceiptHonest` are inductive together. `RunInv`
  says what a command knows: how its copy of the receipt differs from the disk
  (`ReceiptKnown`: one deletion ahead until it is saved), that its plan fits the sheets
  until the batch (`PlanStands`) and that the steps behind it are done (`FarEnough`).
  From it follow `ReceiptsAreHonest`, `RowsAfterFiles` (`FileBeforeRow`),
  `HistoryStaysCounted` (`HistoryCounted`) and `ScopeIsKept` (`ScopeKept`: only
  submissions that `Authorised` lose rows, from the tabs of the receipt's reason).
* `OneIsUnaccounted` (`OneUnaccounted`), from `LossInv`: a file that is gone without a
  receipt telling is the next file of some receipt (`NextOf`), because a command goes
  on to another one only after it saved the last; and no row refers to a missing file
  that no receipt lists, so that a new receipt adds none.
* `OthersAreUntouched` (`OthersUntouched`): the rows from `BatchSpares`, the files from
  `OwnedInv`: a file still to be deleted is referred to, and only by the submissions of
  its receipt. That was found when the receipt was made (`Shared`), and stays so
  because a reference is given only to files that have none.

`RateLimiterProofs` proves `TypeCorrect`, `QuotaAlwaysKept` and `RetryAfterAlwaysExact`
(`LimiterTypeOK`, `WithinQuota`, `RetryAfterExact`) for any number of senders, any limits
and windows and any resolution of the clock:

* Neither property is inductive, since both look at one window only and the clock moves.
  `Tallied` says the same of every age: within its window, the deque of a key has as
  many younger times as there are younger requests that were accepted. A tick shifts
  both by one, and a recorded request adds one to both.
* Expired times form a prefix of a deque, because it is sorted. That the loop stops, and
  where, is `ExpiredStops` (the least position that is still in the window); dropping a
  prefix renumbers what is behind it and loses nothing (`ShiftCount`, by a bijection).
* Whoever is denied waits for the oldest time that counts; `RoundedUp` gives the seconds as
  the least after which it does not, and `OpenCount` turns the deque into the requests.

Model-checked only: liveness. Fairness and `ENABLED` (`EveryJobTerminates`,
`EveryJobSettles`, `UploadedIsQueued`, `EveryCallAnswered`, `EveryDeletionFinishes`) are
outside TLAPS and stay with TLC.

## 5. Findings

* `worker_persist`: the worker reports a failed result append as
  `PARSER_RESULT_PERSIST_FAILED`, which `update_job` refuses
  (`SAFE_LAST_ERROR_SUMMARIES_BY_CODE` lacks it). The `ValueError` escapes, the
  row keeps saying `running`, and on the last attempt it does so for ever.
  `docs/architecture/contributor_architecture_map.md:92-94` promises a retry or a
  terminal state.

## 6. Plan

Every safety property of the passing runs is also a theorem. What is left is to weaken
hypotheses:

1. `DashboardProofs`: how much of `EndShown` and `ReaderTypeOK` survives two workers.
2. `ParserEnqueueProofs`: whether one row per submission can be had from less than
   `serial`, as reconciliations that overlap but never look up the same submission.

## 7. Not modelled

The parser, the resolver and text normalisation (pure text algorithms; their
outcome is an input of the worker), the frontend, benchmarks, authentication, configuration and deployment files. Malformed cells
edited by hand into the sheets are outside the models' initial states, and so are
ops rows edited by hand or written by a second API process.
