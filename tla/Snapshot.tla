------------------------------ MODULE Snapshot ------------------------------
(***************************************************************************)
(* The reviewer-facing read model: how services/dashboard_service.py and   *)
(* core/state_contract.py compose one submission's snapshot record from    *)
(* the rows of five sheets, and how services/resume_access_service.py      *)
(* answers for its resume.  Nothing here has state: the operators map the  *)
(* evidence of one submission to what a reviewer is shown.                 *)
(*                                                                         *)
(* The evidence of a submission is a record                                *)
(*    [source, resume, results, errors, job, ops]                          *)
(*  source   whether the submissions tab has its row                       *)
(*  resume   that row's resume_status cell                                 *)
(*  results  its parser_results rows [run, output, resolver] in the order  *)
(*           of created_at; output tells whether a parsed field is filled, *)
(*           resolver what the resolver columns hold                       *)
(*  errors   the error_code of its errors rows, in the order of created_at *)
(*  job      its canonical parser_jobs row, or NoRow, as                   *)
(*           [status, authority, run, lease, counted]; counted tells       *)
(*           whether both attempt counters are readable numbers            *)
(*  ops      its ops rows [at, status, coordination] as the sheet orders   *)
(*           them; at is the rank of updated_at, an unreadable one lowest  *)
(* The submissions tab has no resume_state, parser_state or resolver_state *)
(* column, so the branches that prefer such a cell are never taken.        *)
(***************************************************************************)
EXTENDS Naturals, Sequences
LOCAL INSTANCE SequencesExt

CONSTANTS
    Runs,  \* parser_run_id values
    NoRun, \* a blank parser_run_id cell
    NoRow  \* no row was found

-----------------------------------------------------------------------------
(* The vocabulary of core/state_contract.py *)

ResumeStates == {"none_provided", "upload_pending", "uploaded", "upload_failed"}
ParserStates == {"not_started", "skipped_no_resume", "started", "succeeded", "failed"}
ResolverStates == {"not_started", "succeeded", "failed", "skipped_no_parser_output"}
ReviewStatuses == {"new", "reviewed", "contacted", "in_progress", "paused", "closed"}

JobStatuses == {"queued", "running", "retry_scheduled", "succeeded", "failed",
                "enqueue_failed"}

\* Broken variant: a resolver that has not run is taken for one that was skipped.
DeriveHealthLoose(resume, parser, resolver) ==
    IF resume = "none_provided" THEN "no_resume_ok"
    ELSE IF resume # "uploaded" THEN "pending_processing"
    ELSE IF parser = "failed" THEN "parser_failed"
    ELSE IF parser = "succeeded" /\ resolver = "succeeded" THEN "complete"
    ELSE IF resolver = "failed" THEN "resolver_failed"
    ELSE IF parser = "succeeded" THEN "partial_success"
    ELSE "pending_processing"

\* derive_submission_health_state
DeriveHealth(resume, parser, resolver) ==
    IF resume = "none_provided"
    THEN IF /\ parser \in {"not_started", "skipped_no_resume"}
            /\ resolver \in {"not_started", "skipped_no_parser_output"}
         THEN "no_resume_ok" ELSE "broken_pipeline"
    ELSE IF resume \in {"upload_pending", "upload_failed"}
    THEN IF parser = "not_started" /\ resolver = "not_started"
         THEN "pending_processing" ELSE "broken_pipeline"
    ELSE IF resume # "uploaded" THEN "broken_pipeline"
    ELSE IF parser \in {"not_started", "started"} /\ resolver = "not_started"
    THEN "pending_processing"
    ELSE IF parser = "succeeded" /\ resolver = "not_started" THEN "partial_success"
    ELSE IF parser = "succeeded" /\ resolver = "succeeded" THEN "complete"
    ELSE IF parser = "succeeded" /\ resolver = "failed" THEN "resolver_failed"
    ELSE IF /\ parser = "failed"
            /\ resolver \in {"not_started", "failed", "skipped_no_parser_output"}
    THEN "parser_failed"
    ELSE "broken_pipeline"

\* The transition validators of the contract.
CanStartParser(resume, parser, resolver) ==
    resume = "uploaded" /\ parser = "not_started" /\ resolver = "not_started"

CanSkipParser(resume, parser, resolver) ==
    /\ resume = "none_provided"
    /\ parser \in {"not_started", "skipped_no_resume"}
    /\ resolver \in {"not_started", "skipped_no_parser_output"}

CanRunResolver(resume, parser, resolver) ==
    resume = "uploaded" /\ parser = "succeeded" /\ resolver = "not_started"

CanMaterialize(resume, parser, resolver) ==
    DeriveHealth(resume, parser, resolver) # "broken_pipeline"

CanUpdateOps(resume, parser, resolver, status) ==
    status \in ReviewStatuses /\ CanMaterialize(resume, parser, resolver)

-----------------------------------------------------------------------------
(* Reading the evidence *)

\* A word the mapping does not know is passed on, and no state has its name.
ResumeState(e) == IF e.resume = "uploaded" THEN "uploaded"
                  ELSE IF e.resume = "missing" THEN "none_provided"
                  ELSE IF e.resume = "failed" THEN "upload_failed"
                  ELSE IF e.resume = "pending" THEN "upload_pending"
                  ELSE e.resume

JobStatus(e) == IF e.job = NoRow THEN "none" ELSE e.job.status
Authority(e) == IF e.job = NoRow THEN NoRun ELSE e.job.authority

\* Broken variants of SelectParserResult: the run that is being tried now backs
\* the record, or the job's authority is ignored.
SelectCurrentRun(e) ==
    LET run == IF e.job = NoRow THEN NoRun ELSE e.job.run
        named == SelectSeq(e.results, LAMBDA row : row.run = run)
    IN  IF named = <<>> THEN NoRow ELSE Head(named)
SelectLatest(e) == IF e.results = <<>> THEN NoRow ELSE Last(e.results)
SelectOldest(e) == IF e.results = <<>> THEN NoRow ELSE Head(e.results)

\* select_parser_result: the authoritative run owns the record, and a success
\* that names none owns nothing; otherwise the latest row.
SelectParserResult(e) ==
    LET named == {i \in DOMAIN e.results : e.results[i].run = Authority(e)}
    IN  IF Authority(e) # NoRun
        THEN IF named = {} THEN NoRow
             ELSE e.results[CHOOSE i \in named : \A k \in named : i <= k]
        ELSE IF JobStatus(e) = "succeeded" \/ e.results = <<>>
        THEN NoRow
        ELSE e.results[Len(e.results)]

HasParserRow(e) == SelectParserResult(e) # NoRow
HasResolverOutput(e) == HasParserRow(e) /\ SelectParserResult(e).resolver # "none"

\* summarize_submission_errors
LatestErrorCode(e) == IF e.errors = <<>> THEN "" ELSE e.errors[Len(e.errors)]

TerminalFailure(e) == JobStatus(e) \in {"failed", "enqueue_failed"}
UnresolvableSuccess(e) ==
    JobStatus(e) = "succeeded" /\ (Authority(e) = NoRun \/ ~HasParserRow(e))

-----------------------------------------------------------------------------
(* The derived states *)

\* Broken variant: the job's failure outranks the output that exists.
ParserStateJobFirst(e) ==
    CASE UnresolvableSuccess(e)           -> "malformed"
      [] ResumeState(e) = "none_provided" -> "skipped_no_resume"
      [] TerminalFailure(e)               -> "failed"
      [] HasParserRow(e)                  -> "succeeded"
      [] LatestErrorCode(e) = "PARSER_FAILED" -> "failed"
      [] OTHER                            -> "not_started"

\* _parser_state_from_snapshot
ParserState(e) ==
    IF UnresolvableSuccess(e) THEN "malformed"
    ELSE IF ResumeState(e) = "none_provided" THEN "skipped_no_resume"
    ELSE IF HasParserRow(e) THEN "succeeded"
    ELSE IF TerminalFailure(e) \/ LatestErrorCode(e) = "PARSER_FAILED" THEN "failed"
    ELSE "not_started"

\* _resolver_state_from_snapshot
ResolverState(e) ==
    IF ResumeState(e) = "none_provided" THEN "skipped_no_parser_output"
    ELSE IF HasResolverOutput(e) THEN "succeeded"
    ELSE IF LatestErrorCode(e) = "RESOLVER_FAILED" THEN "failed"
    ELSE IF ParserState(e) = "failed" THEN "skipped_no_parser_output"
    ELSE "not_started"

Health(e) == DeriveHealth(ResumeState(e), ParserState(e), ResolverState(e))

\* _compose_parsed_layer
ParsedLayer(e) ==
    LET row == SelectParserResult(e)
    IN  IF row # NoRow
        THEN [state |-> "complete", run |-> row.run,
              result |-> IF row.output THEN "available" ELSE "empty_success"]
        ELSE [state |-> "pending", run |-> NoRun,
              result |-> IF \/ LatestErrorCode(e) = "PARSER_FAILED"
                            \/ TerminalFailure(e) \/ UnresolvableSuccess(e)
                         THEN "failed"
                         ELSE IF ResumeState(e) = "none_provided" THEN "skipped"
                         ELSE "not_yet_run"]

\* Broken variant: a resolver failure is shown although a later try succeeded.
ResolvedErrorFirst(e) ==
    LET layer(state, result) == [state |-> state, result |-> result]
    IN  IF LatestErrorCode(e) = "RESOLVER_FAILED" THEN layer("not_run", "failed")
        ELSE IF HasResolverOutput(e) THEN layer("resolved", "available")
        ELSE layer("not_run", "not_yet_run")

\* _compose_resolved_layer
ResolvedLayer(e) ==
    LET layer(state, result) == [state |-> state, result |-> result]
    IN  IF HasResolverOutput(e)
        THEN IF SelectParserResult(e).resolver = "matches"
             THEN layer("resolved", "available")
             ELSE layer("zero_matches", "empty_success")
        ELSE IF LatestErrorCode(e) = "RESOLVER_FAILED" THEN layer("not_run", "failed")
        ELSE IF /\ ~HasParserRow(e)
                /\ \/ LatestErrorCode(e) = "PARSER_FAILED"
                   \/ TerminalFailure(e) \/ UnresolvableSuccess(e)
                   \/ ResumeState(e) = "none_provided"
        THEN layer("not_run", "unavailable_upstream")
        ELSE layer("not_run", "not_yet_run")

\* _is_stale_parser_job: unknown when a running job's lease cannot be read.
Stale(e) == IF JobStatus(e) # "running" \/ e.job.lease = "live" THEN "no"
            ELSE IF e.job.lease = "expired" THEN "yes" ELSE "unknown"

\* _compose_parser_job_layer, with _operational_parser_run_id and
\* _parser_job_state_quality.
JobLayer(e) ==
    IF e.job = NoRow THEN NoRow
    ELSE [status  |-> IF JobStatus(e) \in JobStatuses THEN JobStatus(e) ELSE "unknown",
          run     |-> IF Authority(e) # NoRun THEN Authority(e)
                      ELSE IF JobStatus(e) = "succeeded" THEN NoRun
                      ELSE e.job.run,
          stale   |-> Stale(e),
          quality |-> IF /\ JobStatus(e) \in JobStatuses
                         /\ ~UnresolvableSuccess(e)
                         /\ e.job.counted
                         /\ Stale(e) # "unknown"
                      THEN "valid" ELSE "malformed"]

-----------------------------------------------------------------------------
(* The ops rows *)

\* Broken variant: of two rows written in the same second the later one wins.
CurrentOpsLastTie(rows) ==
    LET current[i \in 0..Len(rows)] ==
          IF i = 0 THEN NoRow
          ELSE IF current[i - 1] = NoRow \/ rows[i].at >= current[i - 1].at
          THEN rows[i] ELSE current[i - 1]
    IN  current[Len(rows)]

\* assemble_snapshot_records walks the rows and keeps the latest; current[i] is
\* what it keeps after the i-th.
CurrentOps(rows) ==
    LET current[i \in 0..Len(rows)] ==
          IF i = 0 THEN NoRow
          ELSE IF current[i - 1] = NoRow \/ rows[i].at > current[i - 1].at
          THEN rows[i] ELSE current[i - 1]
    IN  current[Len(rows)]

\* read_coordination of the current row, unless two rows claim the submission.
CoordinationState(rows) ==
    IF Len(rows) > 1 THEN "malformed"
    ELSE IF rows = <<>> \/ CurrentOps(rows).coordination = "" THEN "unassessed"
    ELSE IF CurrentOps(rows).coordination \in {"active", "ended"}
    THEN CurrentOps(rows).coordination
    ELSE "malformed"

\* compose_current_ops_state sorts the rows anew and takes the first.
LatestOps(rows) ==
    LET newest == {i \in DOMAIN rows : \A k \in DOMAIN rows :
                      \/ rows[i].at > rows[k].at
                      \/ rows[i].at = rows[k].at /\ i <= k}
    IN  IF rows = <<>> THEN NoRow ELSE rows[CHOOSE i \in newest : TRUE]

\* format_current_ops_state, of a selected row.
ShownStatus(row) ==
    IF row # NoRow /\ row.status \in ReviewStatuses THEN row.status ELSE "new"

-----------------------------------------------------------------------------
\* assemble_snapshot_records, for one submission.  When the source row is gone
\* its parser artifacts are never joined in again.
Record(e) ==
    IF e.source
    THEN [health |-> Health(e), parsed |-> ParsedLayer(e),
          resolved |-> ResolvedLayer(e), job |-> JobLayer(e),
          errors |-> IF e.errors = <<>> THEN "none" ELSE "present",
          ops |-> ShownStatus(LatestOps(e.ops)),
          coordination |-> CoordinationState(e.ops)]
    ELSE [health |-> "coordination_only",
          parsed |-> [state |-> "pending", run |-> NoRun,
                      result |-> "source_unavailable"],
          resolved |-> [state |-> "not_run", result |-> "source_unavailable"],
          job |-> NoRow, errors |-> "unavailable",
          ops |-> ShownStatus(CurrentOps(e.ops)),
          coordination |-> CoordinationState(e.ops)]

-----------------------------------------------------------------------------
(* Resume access *)

DriveAnswers == {"content", "refused", "unreachable"}

\* get_mediated_resume: fileId tells whether the drive_file_id cell is filled.
Access(e, fileId, drive) ==
    IF ~e.source THEN "SUBMISSION_NOT_FOUND"
    ELSE IF e.resume \in {"", "missing"} THEN "RESUME_NOT_AVAILABLE"
    ELSE IF e.resume = "failed" THEN "RESUME_UPLOAD_FAILED"
    ELSE IF e.resume # "uploaded" THEN "RESUME_STATE_UNAVAILABLE"
    ELSE IF ~fileId \/ drive = "refused" THEN "RESUME_REFERENCE_BROKEN"
    ELSE IF drive = "unreachable" THEN "RESUME_RETRIEVAL_FAILED"
    ELSE "served"

-----------------------------------------------------------------------------
(* What holds of a record, whatever the evidence *)

ErrorWords == {"PARSER_FAILED", "PARSER_RESULT_PERSIST_FAILED", "RESOLVER_FAILED",
               "RESOLVER_PERSIST_FAILED", "PARSER_ENQUEUE_FAILED"}

\* The job rows, result rows and cells a sheet can hold, well formed or not.
ArchivedJobs ==
    {NoRow} \cup
    [status : JobStatuses \cup {"unknown"}, authority : {NoRun} \cup Runs,
     run : Runs, lease : {"live", "expired", "unreadable"}, counted : BOOLEAN]
ResultCells == [run : Runs, output : BOOLEAN, resolver : {"none", "zero", "matches"}]
ArchivedResults ==
    {<<>>}
    \cup {<<row>> : row \in ResultCells}
    \cup {<<a, b>> : a \in [run : Runs, output : {TRUE}, resolver : {"none", "matches"}],
                     b \in [run : Runs, output : {TRUE}, resolver : {"none", "matches"}]}
ArchivedErrors == {<<>>} \cup {<<c>> : c \in ErrorWords}
OpsCells == [at : 0..1, status : {"new", "closed", "other"},
             coordination : {"", "active", "ended", "garbled"}]
ArchivedOps == {<<row>> : row \in OpsCells} \cup (OpsCells \X OpsCells)

\* Evidence to be read.  A submission without a resume never had a job; where
\* no ops rows are given there are none, for no other part depends on them.
Archives ==
    [source : {TRUE}, resume : {"uploaded", "failed", "pending", "", "other"},
     results : ArchivedResults, errors : ArchivedErrors, job : ArchivedJobs,
     ops : {<<>>}]
    \cup [source : {TRUE}, resume : {"missing"}, results : {<<>>},
          errors : {<<>>}, job : {NoRow}, ops : {<<>>} \cup ArchivedOps]
    \cup [source : {FALSE}, resume : {""}, results : {<<>>},
          errors : {<<>>}, job : {NoRow}, ops : ArchivedOps]

Shown == {"available", "empty_success"}

\* Health badge, parsed panel and resolved panel, as they may stand together.
Stories ==
    ({"complete"} \X Shown \X Shown)
    \cup ({"partial_success"} \X Shown \X {"not_yet_run"})
    \cup ({"resolver_failed"} \X Shown \X {"failed"})
    \cup ({"parser_failed"} \X {"failed"} \X {"failed", "unavailable_upstream"})
    \cup {<<"pending_processing", "not_yet_run", "not_yet_run">>,
          <<"no_resume_ok", "skipped", "unavailable_upstream">>,
          <<"coordination_only", "source_unavailable", "source_unavailable">>}

\* The badge and the panels tell one story.  A record whose badge is
\* broken_pipeline gives a reason: an unusable resume status, a success that
\* nothing backs, or a resolver verdict on output that is not there.
OneStory(e) ==
    LET shown == Record(e)
    IN  IF shown.health = "broken_pipeline"
        THEN \/ ResumeState(e) # "uploaded"
             \/ JobStatus(e) = "succeeded" /\ shown.job.quality = "malformed"
             \/ shown.resolved.result = "failed" /\ shown.parsed.state = "pending"
        ELSE <<shown.health, shown.parsed.result, shown.resolved.result>> \in Stories

\* A resume is served only where the snapshot shows it uploaded, and the resume
\* endpoint denies that there is one only where no pipeline work is shown.
AccessAgrees(e) ==
    LET health == Record(e).health
    IN  \A fileId \in BOOLEAN, drive \in DriveAnswers :
          LET answer == Access(e, fileId, drive)
          IN  /\ answer = "served" => e.source /\ ResumeState(e) = "uploaded"
              /\ answer = "SUBMISSION_NOT_FOUND" <=> health = "coordination_only"
              /\ health = "no_resume_ok" => answer = "RESUME_NOT_AVAILABLE"
              /\ answer = "RESUME_NOT_AVAILABLE" =>
                    health \in {"no_resume_ok", "broken_pipeline"}

\* The matrix of docs/architecture/state_contract.md.
DocumentedMatrix == {
    <<{"none_provided"}, {"not_started", "skipped_no_resume"},
      {"not_started", "skipped_no_parser_output"}, "no_resume_ok">>,
    <<{"uploaded"}, {"not_started", "started"}, {"not_started"}, "pending_processing">>,
    <<{"uploaded"}, {"succeeded"}, {"not_started"}, "partial_success">>,
    <<{"uploaded"}, {"succeeded"}, {"succeeded"}, "complete">>,
    <<{"uploaded"}, {"succeeded"}, {"failed"}, "resolver_failed">>,
    <<{"uploaded"}, {"failed"},
      {"not_started", "failed", "skipped_no_parser_output"}, "parser_failed">>,
    <<{"upload_pending", "upload_failed"}, {"not_started"}, {"not_started"},
      "pending_processing">>}

\* The badge is what the matrix says of the three states, and the transition
\* validators permit exactly what it says is left to do.
FollowsMatrix(e) ==
    LET r == ResumeState(e)
        p == ParserState(e)
        s == ResolverState(e)
        rows == {m \in DocumentedMatrix : r \in m[1] /\ p \in m[2] /\ s \in m[3]}
    IN  /\ {m[4] : m \in rows} =
              IF Health(e) = "broken_pipeline" THEN {} ELSE {Health(e)}
        /\ CanSkipParser(r, p, s) <=> Health(e) = "no_resume_ok"
        /\ CanRunResolver(r, p, s) <=> Health(e) = "partial_success"
        /\ CanStartParser(r, p, s) => Health(e) = "pending_processing"
        /\ \A v \in ReviewStatuses :
              CanUpdateOps(r, p, s, v) <=> Health(e) # "broken_pipeline"

\* The status and the coordination shown come from one ops row, and
\* coordination is trusted only when no second row claims the submission.
OpsAgree(e) ==
    LET shown == Record(e)
    IN  /\ shown.ops = ShownStatus(CurrentOps(e.ops))
        /\ shown.coordination \in {"active", "ended"} =>
              Len(e.ops) = 1 /\ shown.coordination = e.ops[1].coordination
        /\ shown.coordination = "unassessed" =>
              \A i \in DOMAIN e.ops : e.ops[i].coordination = ""
=============================================================================
