---------------------------- MODULE ParserWorker ----------------------------
(***************************************************************************)
(* The durable polling worker of services/parser_worker.py over the        *)
(* parser_jobs, parser_results and errors sheets.                          *)
(*                                                                         *)
(* Google Sheets has neither transactions nor compare-and-swap, so one     *)
(* step of a worker is one Sheets (or Drive) call together with the local  *)
(* code up to the next call.  A read leaves its row in the worker's memory *)
(* and the write that follows overwrites the whole row with that copy.     *)
(*                                                                         *)
(* A timestamp is the number of clock ticks left until it, 0 once it has   *)
(* passed or when the cell is blank, so that the clock needs no bound.     *)
(***************************************************************************)
EXTENDS Naturals, FiniteSets

CONSTANTS
    Jobs,        \* canonical rows of parser_jobs, one per submission
    Workers,     \* polling worker processes
    Runs,        \* parser_run_id values (uuid4)
    NoJob, NoWorker, NoRun,
    MaxAttempts, \* max_attempts of every row
    Lease,       \* lease_seconds, in ticks
    ShortDelay,  \* retry delay after the first attempt, in ticks
    LongDelay,   \* retry delay after later attempts, in ticks
    Faults       \* kinds of fault the environment may inject

FaultKinds ==
    {"parser", "persist", "resolver", "enrich", "log", "api", "crash", "slow"}

ASSUME ConstantsAssumption ==
    /\ MaxAttempts \in Nat \ {0}
    /\ Lease \in Nat \ {0}
    /\ ShortDelay \in Nat
    /\ LongDelay \in Nat
    /\ Faults \subseteq FaultKinds
    /\ NoJob \notin Jobs
    /\ NoWorker \notin Workers
    /\ NoRun \notin Runs

VARIABLES
    jobs,     \* parser_jobs: the row of each job
    results,  \* parser_results: the runs with a result row, per job
    resolved, \* runs whose result row carries the resolver's columns
    errors,   \* errors: <<run, error_code>> of every failure row
    workers   \* the local state of each worker process

vars == <<jobs, results, resolved, errors, workers>>

-----------------------------------------------------------------------------
(* Rows and worker memory *)

Statuses == {"queued", "running", "retry_scheduled", "succeeded", "failed"}

ErrorCodes == {"PARSER_FAILED", "PARSER_RESULT_PERSIST_FAILED",
               "RESOLVER_FAILED", "RESOLVER_PERSIST_FAILED"}

\* The codes whose failure ends the attempt; the others are logged only.
RetryCodes == {"PARSER_FAILED", "PARSER_RESULT_PERSIST_FAILED"}
ResolverCodes == {"RESOLVER_FAILED", "RESOLVER_PERSIST_FAILED"}

\* The error codes whose summary the parser_jobs repository accepts.
SafeErrorCodes ==
    {"DRIVE_READ_FAILED", "PARSER_ENQUEUE_FAILED", "PARSER_FAILED",
     "PARSER_TIMEOUT", "PARSER_VALIDATION_FAILED"}

Row == [status    : Statuses,
        attempts  : 0..MaxAttempts,
        delay     : Nat,               \* until available_at
        owner     : Workers \cup {NoWorker},
        lease     : 0..Lease,          \* until lock_expires_at
        lastRun   : Runs \cup {NoRun},
        authority : Runs \cup {NoRun},
        error     : ErrorCodes \cup {"none"}]

QueuedRow == [status |-> "queued", attempts |-> 0, delay |-> 0,
              owner |-> NoWorker, lease |-> 0, lastRun |-> NoRun,
              authority |-> NoRun, error |-> "none"]

\* Where the next call goes on when a lease check succeeds.
Gates == {"gateStart", "gateStarted", "gatePersist", "gateResolve",
          "gateEnrich", "gateFinal", "gateError", "gateRetry"}
AfterGate(g) ==
    CASE g = "gateStart"   -> "startRead"
      [] g = "gateStarted" -> "parse"
      [] g = "gatePersist" -> "checkResult"
      [] g = "gateResolve" -> "resolve"
      [] g = "gateEnrich"  -> "enrichRead"
      [] g = "gateFinal"   -> "finalGet"
      [] g = "gateError"   -> "appendError"
      [] g = "gateRetry"   -> "failGet"

\* Calls whose exception nobody in the attempt catches.
EscapePcs == Gates \cup
    {"claimRead", "claimWrite", "claimConfirm", "startRead", "startWrite",
     "finalGet", "finalRead", "finalWrite", "failGet", "failRead", "failWrite"}
Pcs == EscapePcs \cup
    {"idle", "parse", "checkResult", "appendResult", "resolve",
     "enrichRead", "enrichWrite", "appendError"}

Memory == [pc   : Pcs,
           job  : Jobs \cup {NoJob},
           run  : Runs \cup {NoRun},
           row  : Row,
           code : ErrorCodes \cup {"none"}]

Idle == [pc |-> "idle", job |-> NoJob, run |-> NoRun, row |-> QueuedRow,
         code |-> "none"]

TypeOK ==
    /\ jobs \in [Jobs -> Row]
    /\ results \in [Jobs -> SUBSET Runs]
    /\ resolved \subseteq Runs
    /\ errors \subseteq Runs \X ErrorCodes
    /\ workers \in [Workers -> Memory]
    /\ \A w \in Workers :
          /\ workers[w].pc # "idle" =>
                workers[w].job \in Jobs /\ workers[w].run \in Runs
          /\ workers[w].pc \in {"gateError", "appendError"} =>
                workers[w].code \in ErrorCodes

Init ==
    /\ jobs = [j \in Jobs |-> QueuedRow]
    /\ results = [j \in Jobs |-> {}]
    /\ resolved = {}
    /\ errors = {}
    /\ workers = [w \in Workers |-> Idle]

-----------------------------------------------------------------------------
(* The repository's decisions on one row *)

\* Broken variants of Claimable: one loses the retries, one the expired leases,
\* one the terminal states, one the lease, one the budget.
ClaimableQueuedOnly(row) ==
    /\ row.attempts < MaxAttempts
    /\ \/ row.status = "queued" /\ row.delay = 0
       \/ row.status = "running" /\ row.lease = 0
ClaimableNeverExpired(row) ==
    /\ row.attempts < MaxAttempts
    /\ row.status \in {"queued", "retry_scheduled"} /\ row.delay = 0
ClaimableNotRunning(row) ==
    /\ row.attempts < MaxAttempts
    /\ \/ row.status # "running" /\ row.delay = 0
       \/ row.status = "running" /\ row.lease = 0
ClaimableAnyRunning(row) ==
    /\ row.attempts < MaxAttempts
    /\ \/ row.status = "running"
       \/ row.status \in {"queued", "retry_scheduled"} /\ row.delay = 0
ClaimableUncapped(row) ==
    \/ row.status \in {"queued", "retry_scheduled"} /\ row.delay = 0
    \/ row.status = "running" /\ row.lease = 0

Claimable(row) ==
    /\ row.attempts < MaxAttempts
    /\ \/ row.status \in {"queued", "retry_scheduled"} /\ row.delay = 0
       \/ row.status = "running" /\ row.lease = 0

\* Broken variant: the attempt is not counted when it is claimed.
ClaimedUncounted(row, w, r) ==
    [row EXCEPT !.status = "running", !.owner = w, !.lease = Lease, !.lastRun = r]

Claimed(row, w, r) ==
    [row EXCEPT !.status = "running", !.attempts = @ + 1, !.owner = w,
                !.lease = Lease, !.lastRun = r]

LeaseOk(w) ==
    LET row == jobs[workers[w].job]
    IN  /\ row.status = "running"
        /\ row.owner = w
        /\ row.lastRun = workers[w].run
        /\ row.lease > 0

RetryDelay(attempts) == IF attempts <= 1 THEN ShortDelay ELSE LongDelay

\* Broken variant: the last attempt is never given.
SpentEarly(row) == row.attempts >= MaxAttempts - 1
Spent(row) == row.attempts >= MaxAttempts

\* The row a failed attempt leaves: terminal or waiting, and unlocked.
Released(row, decided) ==
    [row EXCEPT !.status = IF Spent(decided) THEN "failed" ELSE "retry_scheduled",
                !.delay = decided.delay, !.owner = NoWorker, !.lease = 0,
                !.error = decided.error]

\* A run id is in use as long as something still names it.
UsedRuns ==
    (UNION {results[j] : j \in Jobs})
    \cup {jobs[j].lastRun : j \in Jobs}
    \cup {jobs[j].authority : j \in Jobs}
    \cup {e[1] : e \in errors}
    \cup {workers[w].run : w \in Workers}
    \cup {workers[w].row.lastRun : w \in Workers}

-----------------------------------------------------------------------------
(* Steps of worker w *)

At(w, p) == workers[w].pc = p
Goto(w, p) == workers' = [workers EXCEPT ![w].pc = p]
Hold(w, p, row) == workers' = [workers EXCEPT ![w].pc = p, ![w].row = row]
Drop(w) == workers' = [workers EXCEPT ![w] = Idle]
Handle(w, c) ==
    workers' = [workers EXCEPT ![w].pc = "gateError", ![w].code = c]

SheetsUnchanged == UNCHANGED <<jobs, results, resolved, errors>>
Overwrite(w) == /\ jobs' = [jobs EXCEPT ![workers[w].job] = workers[w].row]
                /\ UNCHANGED <<results, resolved, errors>>

\* run_once: list_claimable_jobs, then a fresh run id for the listed job.
Poll(w) ==
    /\ At(w, "idle")
    /\ \E j \in Jobs, r \in Runs \ UsedRuns :
          /\ Claimable(jobs[j])
          /\ workers' = [workers EXCEPT ![w] =
                [Idle EXCEPT !.pc = "claimRead", !.job = j, !.run = r]]
    /\ SheetsUnchanged

\* claim_job: read the row, overwrite it, read it back.
ClaimRead(w) ==
    /\ At(w, "claimRead")
    /\ LET row == jobs[workers[w].job]
       IN  IF Claimable(row)
           THEN Hold(w, "claimWrite", Claimed(row, w, workers[w].run))
           ELSE Drop(w)
    /\ SheetsUnchanged

ClaimWrite(w) ==
    /\ At(w, "claimWrite")
    /\ Overwrite(w)
    /\ Goto(w, "claimConfirm")

ClaimConfirm(w) ==
    /\ At(w, "claimConfirm")
    /\ LET row == jobs[workers[w].job]
       IN  IF /\ row.status = "running"
              /\ row.owner = w
              /\ row.lastRun = workers[w].run
              /\ row.lease = workers[w].row.lease
           THEN Hold(w, "gateStart", QueuedRow)
           ELSE Drop(w)
    /\ SheetsUnchanged

\* _lease_ok before every durable side effect.  A failed check ends the
\* attempt, except that the caller of _record_attempt_failure goes on after a
\* resolver failure.
Gate(w) ==
    /\ workers[w].pc \in Gates
    /\ IF LeaseOk(w) THEN Goto(w, AfterGate(workers[w].pc))
       ELSE IF At(w, "gateError") /\ workers[w].code \in ResolverCodes
       THEN Goto(w, "gateFinal")
       ELSE Drop(w)
    /\ SheetsUnchanged

\* _mark_parser_started: a read and a whole-row overwrite.
StartRead(w) ==
    /\ At(w, "startRead")
    /\ Hold(w, "startWrite", jobs[workers[w].job])
    /\ SheetsUnchanged

StartWrite(w) ==
    /\ At(w, "startWrite")
    /\ Overwrite(w)
    /\ Hold(w, "gateStarted", QueuedRow)

\* _run_parser: Drive download, text extraction and parse_resume.
Parse(w) ==
    /\ At(w, "parse")
    /\ \/ Goto(w, "gatePersist")
       \/ "parser" \in Faults /\ Handle(w, "PARSER_FAILED")
    /\ SheetsUnchanged

\* Broken variant: the existence check is read the wrong way round.
CheckResultInverted(w) ==
    /\ At(w, "checkResult")
    /\ \/ Goto(w, IF workers[w].run \in results[workers[w].job]
                  THEN "appendResult" ELSE "gateResolve")
       \/ "persist" \in Faults /\ Handle(w, "PARSER_RESULT_PERSIST_FAILED")
    /\ SheetsUnchanged

\* persist_parser_result_if_missing: look the run up, append its row.
CheckResult(w) ==
    /\ At(w, "checkResult")
    /\ \/ Goto(w, IF workers[w].run \in results[workers[w].job]
                  THEN "gateResolve" ELSE "appendResult")
       \/ "persist" \in Faults /\ Handle(w, "PARSER_RESULT_PERSIST_FAILED")
    /\ SheetsUnchanged

AppendResult(w) ==
    /\ At(w, "appendResult")
    /\ \/ /\ results' = [results EXCEPT ![workers[w].job] = @ \cup {workers[w].run}]
          /\ \/ Goto(w, "gateResolve")
             \/ "persist" \in Faults /\ Handle(w, "PARSER_RESULT_PERSIST_FAILED")
       \/ /\ "persist" \in Faults
          /\ Handle(w, "PARSER_RESULT_PERSIST_FAILED")
          /\ UNCHANGED results
    /\ UNCHANGED <<jobs, resolved, errors>>

\* _add_resolver_output works on local data only.
Resolve(w) ==
    /\ At(w, "resolve")
    /\ \/ Goto(w, "gateEnrich")
       \/ "resolver" \in Faults /\ Handle(w, "RESOLVER_FAILED")
    /\ SheetsUnchanged

\* persist_resolver_output_for_parser_result: find the result row, rewrite it.
EnrichRead(w) ==
    /\ At(w, "enrichRead")
    /\ \/ Goto(w, IF workers[w].run \in results[workers[w].job]
                  THEN "enrichWrite" ELSE "gateFinal")
       \/ "enrich" \in Faults /\ Handle(w, "RESOLVER_PERSIST_FAILED")
    /\ SheetsUnchanged

EnrichWrite(w) ==
    /\ At(w, "enrichWrite")
    /\ \/ /\ resolved' = resolved \cup {workers[w].run}
          /\ \/ Goto(w, "gateFinal")
             \/ "enrich" \in Faults /\ Handle(w, "RESOLVER_PERSIST_FAILED")
       \/ /\ "enrich" \in Faults
          /\ Handle(w, "RESOLVER_PERSIST_FAILED")
          /\ UNCHANGED resolved
    /\ UNCHANGED <<jobs, results, errors>>

\* Broken variant: a logged parser failure does not end the attempt.
AppendErrorContinues(w) ==
    /\ At(w, "appendError")
    /\ \/ errors' = errors \cup {<<workers[w].run, workers[w].code>>}
       \/ "log" \in Faults /\ UNCHANGED errors
    /\ Goto(w, IF workers[w].code \in RetryCodes THEN "gatePersist" ELSE "gateFinal")
    /\ UNCHANGED <<jobs, results, resolved>>

\* _record_attempt_failure: the error row is best effort.
AppendError(w) ==
    /\ At(w, "appendError")
    /\ \/ errors' = errors \cup {<<workers[w].run, workers[w].code>>}
       \/ "log" \in Faults /\ UNCHANGED errors
    /\ Goto(w, IF workers[w].code \in RetryCodes THEN "gateRetry" ELSE "gateFinal")
    /\ UNCHANGED <<jobs, results, resolved>>

\* _mark_failed_or_retry: get_job decides, update_job reads again and writes.
FailGet(w) ==
    /\ At(w, "failGet")
    /\ LET row == jobs[workers[w].job]
       IN  Hold(w, "failRead",
                [row EXCEPT !.delay = IF Spent(row) THEN 0
                                      ELSE RetryDelay(row.attempts),
                            !.error = workers[w].code])
    /\ SheetsUnchanged

\* update_job refuses a summary its repository does not know: ValueError.
FailRead(w) ==
    /\ At(w, "failRead")
    /\ LET decided == workers[w].row
       IN  IF decided.error \in SafeErrorCodes
           THEN Hold(w, "failWrite",
                     Released(jobs[workers[w].job], decided))
           ELSE Drop(w)
    /\ SheetsUnchanged

FailWrite(w) ==
    /\ At(w, "failWrite")
    /\ Overwrite(w)
    /\ Drop(w)

\* _mark_succeeded: get_job checks the authority, update_job reads and writes.
FinalGet(w) ==
    /\ At(w, "finalGet")
    /\ IF jobs[workers[w].job].authority \in {NoRun, workers[w].run}
       THEN Goto(w, "finalRead")
       ELSE Drop(w)
    /\ SheetsUnchanged

FinalRead(w) ==
    /\ At(w, "finalRead")
    /\ Hold(w, "finalWrite",
            [jobs[workers[w].job] EXCEPT !.status = "succeeded",
                                         !.authority = workers[w].run,
                                         !.error = "none"])
    /\ SheetsUnchanged

FinalWrite(w) ==
    /\ At(w, "finalWrite")
    /\ Overwrite(w)
    /\ Drop(w)

-----------------------------------------------------------------------------
(* The environment *)

\* A call raises and the exception reaches the polling loop.  A call that was
\* applied but whose answer was lost is the applied call followed by Raise.
Raise(w) ==
    /\ "api" \in Faults
    /\ workers[w].pc \in EscapePcs
    /\ Drop(w)
    /\ SheetsUnchanged

\* The process dies and the service manager restarts it.
Crash(w) ==
    /\ "crash" \in Faults
    /\ ~At(w, "idle")
    /\ Drop(w)
    /\ SheetsUnchanged

Sooner(n) == IF n = 0 THEN 0 ELSE n - 1
Aged(row) == [row EXCEPT !.delay = Sooner(@), !.lease = Sooner(@)]

\* Time passes.  Unless attempts may be slow, none outlasts its lease.
Tick ==
    /\ "slow" \in Faults \/ \A w \in Workers : At(w, "idle")
    /\ jobs' = [j \in Jobs |-> Aged(jobs[j])]
    /\ workers' = [w \in Workers |->
                      [workers[w] EXCEPT !.row = Aged(workers[w].row)]]
    /\ UNCHANGED <<results, resolved, errors>>

Attempt(w) ==
    \/ ClaimConfirm(w) \/ Gate(w)
    \/ StartRead(w) \/ StartWrite(w)
    \/ Parse(w) \/ CheckResult(w) \/ AppendResult(w)
    \/ Resolve(w) \/ EnrichRead(w) \/ EnrichWrite(w)
    \/ AppendError(w) \/ FailGet(w) \/ FailRead(w) \/ FailWrite(w)
    \/ FinalGet(w) \/ FinalRead(w) \/ FinalWrite(w)

Next ==
    \/ \E w \in Workers :
          \/ Poll(w) \/ ClaimRead(w) \/ ClaimWrite(w)
          \/ Attempt(w)
          \/ Raise(w) \/ Crash(w)
    \/ Tick

Spec == Init /\ [][Next]_vars

\* poll_forever keeps running, the clock advances, and a claim that is tried
\* again and again gets through in the end.
Fairness ==
    /\ WF_vars(Tick)
    /\ \A w \in Workers :
          /\ WF_vars(Poll(w))
          /\ SF_vars(ClaimRead(w))
          /\ SF_vars(ClaimWrite(w))
          /\ WF_vars(Attempt(w))

FairSpec == Spec /\ Fairness

-----------------------------------------------------------------------------
Terminal(j) == jobs[j].status \in {"succeeded", "failed"}

(* Safety, for any number of workers *)

\* The authority a job names, and a success reported without one, are what the
\* dashboard cannot recover from: whatever the interleaving of stale overwrites,
\* a row that names an authority names a run whose result row was appended, and
\* a succeeded row names one (_mark_succeeded runs only after the append).
AuthorityBacked ==
    \A j \in Jobs :
        /\ jobs[j].authority # NoRun => jobs[j].authority \in results[j]
        /\ jobs[j].status = "succeeded" => jobs[j].authority # NoRun

\* An attempt that reported PARSER_FAILED has no result row and is never
\* selected as authority, and resolver output is only ever written onto a
\* result row that exists (the failure paths of _execute_attempt end it).
FailureEvidenceConsistent ==
    /\ \A e \in errors : e[2] = "PARSER_FAILED" =>
          \A j \in Jobs : e[1] \notin results[j] /\ jobs[j].authority # e[1]
    /\ resolved \subseteq UNION {results[j] : j \in Jobs}

\* The inductive strengthening of AuthorityBacked: every copy of a row in a
\* worker's memory is as well backed as the sheet's own rows, and a worker past
\* the append of its result has the result row.
RowBacked(j, row) ==
    /\ row.authority # NoRun => row.authority \in results[j]
    /\ row.status = "succeeded" => row.authority # NoRun

PersistedPcs == {"gateResolve", "resolve", "gateEnrich", "enrichRead",
                 "enrichWrite", "gateFinal", "finalGet", "finalRead", "finalWrite"}
FailurePcs == {"gateError", "appendError"}

Persisted(w) ==
    \/ workers[w].pc \in PersistedPcs
    \/ workers[w].pc \in FailurePcs /\ workers[w].code \in ResolverCodes

BackedInv ==
    /\ \A j \in Jobs : RowBacked(j, jobs[j])
    /\ \A w \in Workers : workers[w].pc # "idle" =>
          /\ RowBacked(workers[w].job, workers[w].row)
          /\ Persisted(w) => workers[w].run \in results[workers[w].job]

(* Safety, for the supported deployment of one active worker *)

\* The result rows a job accumulates over crashes and retries never outnumber
\* the attempts its row has counted, and only a job whose budget is spent is
\* reported failed (claim_job counts, _mark_failed_or_retry decides).
AttemptBudget ==
    \A j \in Jobs :
        /\ Cardinality(results[j]) <= jobs[j].attempts
        /\ jobs[j].status = "failed" =>
              jobs[j].attempts = MaxAttempts /\ jobs[j].authority = NoRun

\* A job that reached succeeded or failed is never reopened, re-counted or
\* given another authority, whatever an earlier attempt still had to write.
TerminalIsFinal ==
    [][\A j \in Jobs : Terminal(j) =>
          /\ jobs'[j].status = jobs[j].status
          /\ jobs'[j].authority = jobs[j].authority
          /\ jobs'[j].attempts = jobs[j].attempts]_jobs

\* A job changes hands only when its previous attempt has given it up: a
\* running row gets a new run only once its lease has expired, and every new
\* run is paid for by exactly one more counted attempt.
NoStolenLease ==
    [][\A j \in Jobs : jobs'[j].lastRun # jobs[j].lastRun =>
          /\ jobs[j].status = "running" => jobs[j].lease = 0
          /\ jobs'[j].attempts = jobs[j].attempts + 1]_jobs

(* Refinement, for one active worker *)

PhaseOf(status) == CASE status \in {"queued", "retry_scheduled"} -> "waiting"
                     [] status = "running"                       -> "attempting"
                     [] OTHER                                    -> status

Lifecycle == INSTANCE JobLifecycle WITH
    phase    <- [j \in Jobs |-> PhaseOf(jobs[j].status)],
    attempts <- [j \in Jobs |-> jobs[j].attempts],
    current  <- [j \in Jobs |-> jobs[j].lastRun],
    chosen   <- [j \in Jobs |-> jobs[j].authority]

\* What dashboard readers see of the queue is the abstract lifecycle: every
\* overwrite of a row is one start, retry, failure or success of its job, or
\* changes nothing a reader relies on.
ImplementsLifecycle == Lifecycle!Spec

(* Liveness *)

Exhausted(j) == jobs[j].status = "running" /\ jobs[j].attempts = MaxAttempts

\* When every failure is one the worker handles itself, each job ends
\* succeeded or failed and stays so: parser and result-persistence failures
\* schedule a retry or become terminal when the attempt budget is exhausted.
EveryJobTerminates == \A j \in Jobs : <>[]Terminal(j)

\* Under crashes, failing calls and slow attempts a job still ends terminal,
\* or running with its last attempt spent: the cap keeps it from being
\* reclaimed and an operator has to look at it.
EveryJobSettles == \A j \in Jobs : <>[](Terminal(j) \/ Exhausted(j))
=============================================================================
