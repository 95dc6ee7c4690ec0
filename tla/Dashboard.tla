----------------------------- MODULE Dashboard -----------------------------
(***************************************************************************)
(* get_snapshot_records while the system works: one reader that fetches    *)
(* the five sheets one call after the other, next to the intake that files *)
(* and queues submissions, the reviewer who opens them, and the parser     *)
(* worker of ParserWorker.                                                 *)
(*                                                                         *)
(* The record a reader delivers is composed by Snapshot from sheets of     *)
(* five different moments.  The record the sheets of one moment would give *)
(* is called quiet.                                                        *)
(*                                                                         *)
(* Every submission of Jobs has an uploaded resume.  One more submission,  *)
(* which nobody works on any more, is any of Archives: rows may be missing *)
(* or contradictory.  One worker is assumed, so that result rows are       *)
(* created in the order they are appended.                                 *)
(***************************************************************************)
EXTENDS ParserWorker, SequencesExt

CONSTANTS NoRow

INSTANCE Snapshot

\* A row of parser_jobs, as a reader interprets it.
JobCells == [status : Statuses, authority : Runs \cup {NoRun},
             run : Runs \cup {NoRun}, counted : BOOLEAN,
             lease : {"live", "expired", "unreadable"}]

\* Having found no row differs from having found any.
ASSUME NoRowAssumption == NoRow \notin ResultCells \cup JobCells \cup OpsCells

VARIABLES
    intake, \* how far intake or reconciliation brought each submission
    shelf,  \* per job, its result runs and error codes in created_at order
    desk,   \* the submissions that have an ops row
    reader, \* the sheets the reader has fetched so far
    archive \* the evidence of the submission nobody works on

dashboardVars == <<vars, intake, shelf, desk, reader, archive>>

-----------------------------------------------------------------------------
ReaderPcs == {"submissions", "results", "ops", "errors", "jobs"}

NoReading == [pc |-> "submissions", filed |-> {}, desk |-> {},
              results |-> [j \in Jobs |-> <<>>], errors |-> [j \in Jobs |-> <<>>]]

DashboardInit ==
    /\ Init
    /\ intake = [j \in Jobs |-> "absent"]
    /\ shelf = [j \in Jobs |-> [results |-> <<>>, errors |-> <<>>]]
    /\ desk = {}
    /\ reader = NoReading
    /\ archive \in Archives

Filed(j) == intake[j] # "absent"

\* The rows of the parser_results and parser_jobs sheets as Snapshot reads them.
ResultRows(j) ==
    [i \in DOMAIN shelf[j].results |->
        [run |-> shelf[j].results[i], output |-> TRUE,
         resolver |-> IF shelf[j].results[i] \in resolved THEN "matches" ELSE "none"]]

JobRow(j) ==
    IF intake[j] # "queued" THEN NoRow
    ELSE [status |-> jobs[j].status, authority |-> jobs[j].authority,
          run |-> jobs[j].lastRun, counted |-> TRUE,
          lease |-> IF jobs[j].lease > 0 THEN "live" ELSE "expired"]

-----------------------------------------------------------------------------
(* The writers *)

\* finalize_submission writes the base row once the PDF is stored.
File(j) ==
    /\ intake[j] = "absent"
    /\ intake' = [intake EXCEPT ![j] = "filed"]
    /\ UNCHANGED <<vars, shelf, desk, reader, archive>>

\* The job row: created by intake, or later by reconciliation.
Queue(j) ==
    /\ intake[j] = "filed"
    /\ intake' = [intake EXCEPT ![j] = "queued"]
    /\ UNCHANGED <<vars, shelf, desk, reader, archive>>

\* Intake records that create_parser_job raised.  The job may exist all the
\* same, and the row may arrive late: another host stamped it.
Report(j) ==
    /\ Filed(j)
    /\ "PARSER_ENQUEUE_FAILED" \notin ToSet(shelf[j].errors)
    /\ \E i \in 1..Len(shelf[j].errors) + 1 :
          shelf' = [shelf EXCEPT ![j].errors =
                       InsertAt(@, i, "PARSER_ENQUEUE_FAILED")]
    /\ UNCHANGED <<vars, intake, desk, reader, archive>>

\* A first reviewer write creates the ops row of a submission that is filed.
Review(j) ==
    /\ Filed(j)
    /\ j \notin desk
    /\ desk' = desk \cup {j}
    /\ UNCHANGED <<vars, intake, shelf, reader, archive>>

\* The rows a worker's step appends go to the end of the shelf.
Shelved(j) ==
    LET runs == results'[j] \ results[j]
        rows == {e \in errors' \ errors : \E w \in Workers :
                    /\ At(w, "appendError")
                    /\ workers[w].job = j
                    /\ e = <<workers[w].run, workers[w].code>>}
    IN  [results |-> IF runs = {} THEN shelf[j].results
                     ELSE Append(shelf[j].results, CHOOSE r \in runs : TRUE),
         errors  |-> IF rows = {} THEN shelf[j].errors
                     ELSE Append(shelf[j].errors, (CHOOSE e \in rows : TRUE)[2])]

\* A step of the worker, which sees queued jobs only.
Work ==
    /\ Next
    /\ \A w \in Workers : workers'[w].job # NoJob =>
                              intake[workers'[w].job] = "queued"
    /\ shelf' = [j \in Jobs |-> Shelved(j)]
    /\ UNCHANGED <<intake, desk, reader, archive>>

-----------------------------------------------------------------------------
(* The reader: get_snapshot_records evaluates its arguments in this order *)

Fetch(from, copy) ==
    /\ reader.pc = from
    /\ reader' = copy
    /\ UNCHANGED <<vars, intake, shelf, desk, archive>>

ReadSubmissions ==
    Fetch("submissions", [reader EXCEPT !.pc = "results",
                                        !.filed = {j \in Jobs : Filed(j)}])
ReadResults ==
    Fetch("results", [reader EXCEPT !.pc = "ops",
                                    !.results = [j \in Jobs |-> ResultRows(j)]])
ReadOps ==
    Fetch("ops", [reader EXCEPT !.pc = "errors", !.desk = desk])

\* Broken variant: the answer of the previous request is reused.
ReadErrorsStale == Fetch("errors", [reader EXCEPT !.pc = "jobs"])

ReadErrors ==
    Fetch("errors", [reader EXCEPT !.pc = "jobs",
                                   !.errors = [j \in Jobs |-> shelf[j].errors]])

\* list_parser_jobs comes last; the records are composed from its answer.
ReadJobs == Fetch("jobs", NoReading)

\* A failing read fails the request: nothing is shown.
ReadFails ==
    /\ "api" \in Faults
    /\ reader.pc # "submissions"
    /\ reader' = NoReading
    /\ UNCHANGED <<vars, intake, shelf, desk, archive>>

DashboardNext ==
    \/ \E j \in Jobs : File(j) \/ Queue(j) \/ Report(j) \/ Review(j)
    \/ Work
    \/ ReadSubmissions \/ ReadResults \/ ReadOps \/ ReadErrors \/ ReadJobs
    \/ ReadFails

DashboardSpec == DashboardInit /\ [][DashboardNext]_dashboardVars

-----------------------------------------------------------------------------
(* What is shown *)

\* The ops row of a first reviewer write.
OpsRows(onDesk) ==
    IF onDesk THEN <<[at |-> 0, status |-> "new", coordination |-> ""]>> ELSE <<>>

\* The last read done, these are the submissions that have a record.
Listed == reader.filed \cup reader.desk

\* The evidence behind the record delivered when the last read is answered now.
Fetched(j) ==
    [source |-> j \in reader.filed, resume |-> "uploaded",
     results |-> reader.results[j], errors |-> reader.errors[j], job |-> JobRow(j),
     ops |-> OpsRows(j \in reader.desk)]
Delivered(j) == Record(Fetched(j))

\* The evidence and the record if all five sheets were read now.
Stored(j) ==
    [source |-> Filed(j), resume |-> "uploaded",
     results |-> ResultRows(j), errors |-> shelf[j].errors, job |-> JobRow(j),
     ops |-> OpsRows(j \in desk)]
Quiet(j) == Record(Stored(j))

-----------------------------------------------------------------------------
(* Type correctness *)

\* The shelf tells the same rows as the worker's sheets, an attempt leaves at
\* most one error row, and what the reader holds was on the sheets: result rows
\* and resolver columns only ever come on top of it.
ReaderTypeOK ==
    /\ intake \in [Jobs -> {"absent", "filed", "queued"}]
    /\ desk \subseteq {j \in Jobs : Filed(j)}
    /\ reader.pc \in ReaderPcs
    /\ reader.desk \subseteq desk
    /\ \A j \in Jobs :
          /\ ToSet(shelf[j].results) = results[j]
          /\ Len(shelf[j].results) = Cardinality(results[j])
          /\ ToSet(shelf[j].errors) \subseteq ErrorWords
          /\ Len(shelf[j].errors) <= jobs[j].attempts + 1
          /\ j \in reader.filed => Filed(j)
          /\ ToSet(reader.errors[j]) \subseteq ToSet(shelf[j].errors)
          /\ Len(reader.results[j]) <= Len(shelf[j].results)
          /\ \A i \in DOMAIN reader.results[j] :
                LET row == reader.results[j][i]
                IN  /\ row.run = shelf[j].results[i]
                    /\ row.resolver # "none" => row.run \in resolved

(* One record, over every evidence *)

\* The health badge and the three panels are derived by separate functions from
\* the same rows (_compose_submission_health_state, _compose_parsed_layer,
\* _compose_resolved_layer, _compose_parser_job_layer), and the resume endpoint
\* reads the submission row by its own: over every evidence, contradictory ones
\* included, they never contradict each other.
LayersAgree == OneStory(archive) /\ AccessAgrees(archive)

\* docs/architecture/state_contract.md gives the health of a submission as a
\* matrix, and state_contract.py as a chain of early returns: over the states
\* any evidence derives they are the same function, and can_start_parser,
\* can_skip_parser, can_run_resolver and can_update_ops follow it.
HealthIsMatrix == FollowsMatrix(archive)

\* The status and the coordination of a submission are selected by two loops
\* (assemble_snapshot_records, compose_current_ops_state): they come from one
\* row whatever the order and the ages of the rows.
OpsOfOneRow == OpsAgree(archive)

(* The composition under concurrent writers *)

Trusted(record) ==
    /\ record.health \notin {"broken_pipeline", "coordination_only"}
    /\ record.job # NoRow => record.job.quality = "valid"

\* The stores of one moment never contradict each other, whatever fails; a
\* reader that fetches them at five moments shows a contradiction, or a
\* submission without its source row, only when that row or a result row was
\* appended after it fetched the sheet that should hold it.
TornOnlyByRace ==
    \A j \in Jobs :
        /\ Filed(j) => Trusted(Quiet(j))
        /\ reader.pc = "jobs" /\ j \in Listed =>
              \/ j \notin reader.filed /\ Filed(j)
              \/ Len(reader.results[j]) < Len(shelf[j].results)
              \/ Trusted(Delivered(j))

\* A job that ended is shown as what it is.  Its failure is visible: with no
\* output as parser_failed, with the output of an attempt whose finalization
\* failed as that output's state; a success shows the authoritative run, with
\* its resolver columns exactly when they were written.  And however torn the
\* read, it is never shown as work to come, nor a failed one as broken.
EndShown ==
    \A j \in Jobs : Terminal(j) =>
        LET quiet == Quiet(j)
            torn  == Health(Fetched(j))
        IN  /\ quiet.health = "complete" <=>
                  results[j] # {} /\ quiet.parsed.run \in resolved
            /\ quiet.health = "parser_failed" <=> results[j] = {}
            /\ jobs[j].status = "succeeded" => quiet.parsed.run = jobs[j].authority
            /\ results[j] # {} => quiet.parsed.run = Last(shelf[j].results)
            /\ j \in reader.filed /\ reader.pc = "jobs" =>
                  /\ torn # "pending_processing"
                  /\ jobs[j].status = "failed" => torn # "broken_pipeline"

\* Parsed output, once shown, stays shown: neither a later attempt, nor its
\* failure, nor the resolver's takes it away (state_contract.md: "Resolver
\* failure must preserve valid parser output").
OutputStays ==
    [][\A j \in Jobs : Filed(j) /\ ParsedLayer(Stored(j)).state = "complete" =>
          ParsedLayer(Stored(j)').state = "complete"]_<<jobs, results, resolved, shelf>>
=============================================================================
