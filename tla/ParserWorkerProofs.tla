------------------------- MODULE ParserWorkerProofs -------------------------
(***************************************************************************)
(* Theorems about ParserWorker, for every number of jobs, workers and run  *)
(* identifiers, every attempt budget, every lease and delay, and every set *)
(* of faults.                                                              *)
(***************************************************************************)
EXTENDS ParserWorker, TLAPS

USE ConstantsAssumption DEF ConstantsAssumption

-----------------------------------------------------------------------------
(* Row operators and worker-memory updates preserve their types. *)

LEMMA QueuedRowType == QueuedRow \in Row
  BY DEF QueuedRow, Row, Statuses

LEMMA ClaimedType ==
  ASSUME NEW row \in Row, NEW w \in Workers, NEW r \in Runs, Claimable(row)
  PROVE  Claimed(row, w, r) \in Row
<1>1. row.attempts + 1 \in 0..MaxAttempts /\ Lease \in 0..Lease
  BY DEF Claimable, Row
<1>2. QED
  BY <1>1 DEF Claimed, Row, Statuses

\* The row _mark_failed_or_retry decides on, and the one update_job writes.
LEMMA DecidedType ==
  ASSUME NEW row \in Row, NEW code \in ErrorCodes \cup {"none"}
  PROVE  [row EXCEPT !.delay = IF Spent(row) THEN 0
                               ELSE RetryDelay(row.attempts),
                     !.error = code] \in Row
<1>1. (IF Spent(row) THEN 0 ELSE RetryDelay(row.attempts)) \in Nat
  BY DEF RetryDelay
<1>2. QED
  BY <1>1 DEF Row

LEMMA ReleasedType ==
  ASSUME NEW row \in Row, NEW decided \in Row
  PROVE  Released(row, decided) \in Row
<1>1. 0 \in 0..Lease
  OBVIOUS
<1>2. /\ decided.delay \in Nat
      /\ decided.error \in ErrorCodes \cup {"none"}
  BY DEF Row
<1>3. (IF Spent(decided) THEN "failed" ELSE "retry_scheduled") \in Statuses
  BY DEF Statuses
<1>4. QED
  BY <1>1, <1>2, <1>3 DEF Released, Row

LEMMA AgedType ==
  ASSUME NEW row \in Row
  PROVE  Aged(row) \in Row
<1>1. ASSUME NEW n \in Nat, NEW k \in Nat, n \in 0..k
      PROVE  Sooner(n) \in 0..k /\ Sooner(n) \in Nat
  BY <1>1 DEF Sooner
<1>2. row.delay \in Nat /\ row.lease \in 0..Lease
  BY DEF Row
<1>3. Sooner(row.delay) \in Nat /\ Sooner(row.lease) \in 0..Lease
  BY <1>2 DEF Sooner
<1>4. QED
  BY <1>3 DEF Aged, Row

\* The part of TypeOK about the workers' memories.
WorkersOK ==
    /\ workers \in [Workers -> Memory]
    /\ \A w \in Workers :
          /\ workers[w].pc # "idle" =>
                workers[w].job \in Jobs /\ workers[w].run \in Runs
          /\ workers[w].pc \in {"gateError", "appendError"} =>
                workers[w].code \in ErrorCodes

LEMMA GotoType ==
  ASSUME WorkersOK, NEW w \in Workers, workers[w].pc # "idle",
         NEW p \in Pcs, Goto(w, p),
         p \in {"gateError", "appendError"} => workers[w].code \in ErrorCodes
  PROVE  WorkersOK'
  BY DEF WorkersOK, Goto, Memory

LEMMA HoldType ==
  ASSUME WorkersOK, NEW w \in Workers, workers[w].pc # "idle",
         NEW p \in Pcs, NEW row \in Row, Hold(w, p, row),
         p \notin {"gateError", "appendError"}
  PROVE  WorkersOK'
  BY DEF WorkersOK, Hold, Memory

LEMMA DropType ==
  ASSUME WorkersOK, NEW w \in Workers, Drop(w)
  PROVE  WorkersOK'
  BY QueuedRowType DEF WorkersOK, Drop, Idle, Memory, Pcs

LEMMA HandleType ==
  ASSUME WorkersOK, NEW w \in Workers, workers[w].pc # "idle",
         NEW c \in ErrorCodes, Handle(w, c)
  PROVE  WorkersOK'
<1>1. "gateError" \in Pcs
  BY DEF Pcs, EscapePcs, Gates
<1>2. QED
  BY <1>1 DEF WorkersOK, Handle, Memory

\* Every program counter a step may go to.
LEMMA PcsKnown ==
  /\ {"claimRead", "claimWrite", "claimConfirm"} \subseteq Pcs
  /\ {"gateStart", "gateStarted", "gatePersist", "gateResolve"} \subseteq Pcs
  /\ {"gateEnrich", "gateFinal", "gateError", "gateRetry"} \subseteq Pcs
  /\ {"startRead", "startWrite", "parse", "checkResult"} \subseteq Pcs
  /\ {"appendResult", "resolve", "enrichRead", "enrichWrite"} \subseteq Pcs
  /\ {"appendError", "failGet", "failRead", "failWrite"} \subseteq Pcs
  /\ {"finalGet", "finalRead", "finalWrite", "idle"} \subseteq Pcs
  BY DEF Pcs, EscapePcs, Gates

LEMMA AfterGateType ==
  ASSUME NEW g \in Gates
  PROVE  /\ AfterGate(g) \in Pcs
         /\ AfterGate(g) # "gateError"
         /\ AfterGate(g) = "appendError" => g = "gateError"
<1>1. g \in {"gateStart", "gateStarted", "gatePersist", "gateResolve",
              "gateEnrich", "gateFinal", "gateError", "gateRetry"}
  BY DEF Gates
<1>2. /\ AfterGate(g) \in
            {"startRead", "parse", "checkResult", "resolve", "enrichRead",
             "finalGet", "appendError", "failGet"}
      /\ AfterGate(g) = "appendError" => g = "gateError"
  BY <1>1 DEF AfterGate
<1>3. AfterGate(g) # "gateError"
  BY <1>2
<1>4. AfterGate(g) \in Pcs
  BY <1>2, PcsKnown
<1>5. QED
  BY <1>2, <1>3, <1>4

\* A whole-row overwrite with a typed copy leaves the sheet typed.
LEMMA OverwriteType ==
  ASSUME TypeOK, NEW w \in Workers, workers[w].pc # "idle", Overwrite(w)
  PROVE  /\ jobs' \in [Jobs -> Row]
         /\ results' \in [Jobs -> SUBSET Runs]
         /\ resolved' \subseteq Runs
         /\ errors' \subseteq Runs \X ErrorCodes
<1>1. workers[w].row \in Row
  BY DEF TypeOK, Memory
<1>2. QED
  BY <1>1 DEF TypeOK, Overwrite

LEMMA SheetsUnchangedType ==
  ASSUME TypeOK, SheetsUnchanged
  PROVE  /\ jobs' \in [Jobs -> Row]
         /\ results' \in [Jobs -> SUBSET Runs]
         /\ resolved' \subseteq Runs
         /\ errors' \subseteq Runs \X ErrorCodes
  BY DEF TypeOK, SheetsUnchanged

-----------------------------------------------------------------------------
(* Type correctness *)

LEMMA InitType == Init => TypeOK
  BY QueuedRowType DEF Init, TypeOK, Idle, Memory, Pcs

LEMMA NextType ==
  ASSUME TypeOK, [Next]_vars
  PROVE  TypeOK'
<1> USE DEF At
<1>0. WorkersOK
  BY DEF TypeOK, WorkersOK
<1>t. ASSUME WorkersOK', jobs' \in [Jobs -> Row],
             results' \in [Jobs -> SUBSET Runs], resolved' \subseteq Runs,
             errors' \subseteq Runs \X ErrorCodes
      PROVE  TypeOK'
  BY <1>t DEF TypeOK, WorkersOK
<1>c. {"PARSER_FAILED", "PARSER_RESULT_PERSIST_FAILED", "RESOLVER_FAILED",
       "RESOLVER_PERSIST_FAILED"} \subseteq ErrorCodes
  BY DEF ErrorCodes, RetryCodes, ResolverCodes
<1>1. ASSUME NEW w \in Workers, Poll(w)  PROVE TypeOK'
  <2>1. PICK j \in Jobs, r \in Runs \ UsedRuns :
          workers' = [workers EXCEPT ![w] =
             [Idle EXCEPT !.pc = "claimRead", !.job = j, !.run = r]]
    BY <1>1 DEF Poll
  <2>p. "claimRead" \in Pcs
    BY PcsKnown
  <2>m. [Idle EXCEPT !.pc = "claimRead", !.job = j, !.run = r] \in Memory
    BY <2>p, QueuedRowType DEF Idle, Memory
  <2>2. WorkersOK'
    BY <2>1, <2>m, <1>0 DEF WorkersOK, Idle
  <2>3. QED
    BY <1>1, <2>2, <1>t, SheetsUnchangedType DEF Poll
<1>2. ASSUME NEW w \in Workers, ClaimRead(w)  PROVE TypeOK'
  <2>1. workers[w].pc # "idle" /\ workers[w].run \in Runs
        /\ jobs[workers[w].job] \in Row
    BY <1>2 DEF ClaimRead, TypeOK
  <2>2. WorkersOK'
    BY <2>1, <1>0, <1>2, ClaimedType, HoldType, DropType, PcsKnown DEF ClaimRead
  <2>3. QED
    BY <1>2, <2>2, <1>t, SheetsUnchangedType DEF ClaimRead
<1>3. ASSUME NEW w \in Workers, ClaimWrite(w)  PROVE TypeOK'
  <2>1. WorkersOK'
    BY <1>0, <1>3, GotoType, PcsKnown DEF ClaimWrite
  <2>2. QED
    BY <1>3, <2>1, <1>t, OverwriteType DEF ClaimWrite
<1>4. ASSUME NEW w \in Workers, ClaimConfirm(w)  PROVE TypeOK'
  <2>1. WorkersOK'
    BY <1>0, <1>4, HoldType, DropType, QueuedRowType, PcsKnown DEF ClaimConfirm
  <2>2. QED
    BY <1>4, <2>1, <1>t, SheetsUnchangedType DEF ClaimConfirm
<1>5. ASSUME NEW w \in Workers, Gate(w)  PROVE TypeOK'
  <2>1. /\ workers[w].pc # "idle"
        /\ AfterGate(workers[w].pc) \in Pcs
        /\ AfterGate(workers[w].pc) \in {"gateError", "appendError"} =>
              workers[w].code \in ErrorCodes
    BY <1>5, <1>0, AfterGateType DEF Gate, Gates, WorkersOK
  <2>2. WorkersOK'
    BY <1>0, <1>5, <2>1, GotoType, DropType, PcsKnown DEF Gate
  <2>3. QED
    BY <1>5, <2>2, <1>t, SheetsUnchangedType DEF Gate
<1>6. ASSUME NEW w \in Workers, StartRead(w)  PROVE TypeOK'
  <2>1. workers[w].pc # "idle" /\ jobs[workers[w].job] \in Row
    BY <1>6 DEF StartRead, TypeOK
  <2>2. WorkersOK'
    BY <1>0, <1>6, <2>1, HoldType, PcsKnown DEF StartRead
  <2>3. QED
    BY <1>6, <2>2, <1>t, SheetsUnchangedType DEF StartRead
<1>7. ASSUME NEW w \in Workers, StartWrite(w)  PROVE TypeOK'
  <2>1. WorkersOK'
    BY <1>0, <1>7, HoldType, QueuedRowType, PcsKnown DEF StartWrite
  <2>2. QED
    BY <1>7, <2>1, <1>t, OverwriteType DEF StartWrite
<1>8. ASSUME NEW w \in Workers, Parse(w)  PROVE TypeOK'
  <2>1. WorkersOK'
    BY <1>0, <1>8, <1>c, GotoType, HandleType, PcsKnown DEF Parse
  <2>2. QED
    BY <1>8, <2>1, <1>t, SheetsUnchangedType DEF Parse
<1>9. ASSUME NEW w \in Workers, CheckResult(w)  PROVE TypeOK'
  <2>1. WorkersOK'
    BY <1>0, <1>9, <1>c, GotoType, HandleType, PcsKnown DEF CheckResult
  <2>2. QED
    BY <1>9, <2>1, <1>t, SheetsUnchangedType DEF CheckResult
<1>10. ASSUME NEW w \in Workers, AppendResult(w)  PROVE TypeOK'
  <2>1. WorkersOK'
    BY <1>0, <1>10, <1>c, GotoType, HandleType, PcsKnown DEF AppendResult
  <2>2. workers[w].job \in Jobs /\ workers[w].run \in Runs
    BY <1>10 DEF AppendResult, TypeOK
  <2>3. results' \in [Jobs -> SUBSET Runs]
    BY <1>10, <2>2 DEF AppendResult, TypeOK
  <2>4. QED
    BY <1>10, <2>1, <2>3, <1>t DEF AppendResult, TypeOK
<1>11. ASSUME NEW w \in Workers, Resolve(w)  PROVE TypeOK'
  <2>1. WorkersOK'
    BY <1>0, <1>11, <1>c, GotoType, HandleType, PcsKnown DEF Resolve
  <2>2. QED
    BY <1>11, <2>1, <1>t, SheetsUnchangedType DEF Resolve
<1>12. ASSUME NEW w \in Workers, EnrichRead(w)  PROVE TypeOK'
  <2>1. WorkersOK'
    BY <1>0, <1>12, <1>c, GotoType, HandleType, PcsKnown DEF EnrichRead
  <2>2. QED
    BY <1>12, <2>1, <1>t, SheetsUnchangedType DEF EnrichRead
<1>13. ASSUME NEW w \in Workers, EnrichWrite(w)  PROVE TypeOK'
  <2>1. WorkersOK'
    BY <1>0, <1>13, <1>c, GotoType, HandleType, PcsKnown DEF EnrichWrite
  <2>2. resolved' \subseteq Runs
    BY <1>13 DEF EnrichWrite, TypeOK
  <2>3. QED
    BY <1>13, <2>1, <2>2, <1>t DEF EnrichWrite, TypeOK
<1>14. ASSUME NEW w \in Workers, AppendError(w)  PROVE TypeOK'
  <2>1. WorkersOK'
    BY <1>0, <1>14, GotoType, PcsKnown DEF AppendError
  <2>2. workers[w].run \in Runs /\ workers[w].code \in ErrorCodes
    BY <1>14 DEF AppendError, TypeOK, Memory
  <2>3. errors' \subseteq Runs \X ErrorCodes
    BY <1>14, <2>2 DEF AppendError, TypeOK
  <2>4. QED
    BY <1>14, <2>1, <2>3, <1>t DEF AppendError, TypeOK
<1>15. ASSUME NEW w \in Workers, FailGet(w)  PROVE TypeOK'
  <2>1. /\ workers[w].pc # "idle"
        /\ jobs[workers[w].job] \in Row
        /\ workers[w].code \in ErrorCodes \cup {"none"}
    BY <1>15 DEF FailGet, TypeOK, Memory
  <2>2. PICK row \in Row : Hold(w, "failRead", row)
    BY <1>15, <2>1, DecidedType DEF FailGet
  <2>3. WorkersOK'
    BY <1>0, <2>1, <2>2, HoldType, PcsKnown
  <2>4. QED
    BY <1>15, <2>3, <1>t, SheetsUnchangedType DEF FailGet
<1>16. ASSUME NEW w \in Workers, FailRead(w)  PROVE TypeOK'
  <2>1. /\ workers[w].pc # "idle"
        /\ Released(jobs[workers[w].job], workers[w].row) \in Row
    BY <1>16, ReleasedType DEF FailRead, TypeOK, Memory
  <2>2. \/ \E row \in Row : Hold(w, "failWrite", row)
        \/ Drop(w)
    BY <1>16, <2>1 DEF FailRead
  <2>3. WorkersOK'
    BY <1>0, <2>1, <2>2, HoldType, DropType, PcsKnown
  <2>4. QED
    BY <1>16, <2>3, <1>t, SheetsUnchangedType DEF FailRead
<1>17. ASSUME NEW w \in Workers, FailWrite(w)  PROVE TypeOK'
  <2>1. WorkersOK'
    BY <1>0, <1>17, DropType DEF FailWrite
  <2>2. QED
    BY <1>17, <2>1, <1>t, OverwriteType DEF FailWrite
<1>18. ASSUME NEW w \in Workers, FinalGet(w)  PROVE TypeOK'
  <2>1. WorkersOK'
    BY <1>0, <1>18, GotoType, DropType, PcsKnown DEF FinalGet
  <2>2. QED
    BY <1>18, <2>1, <1>t, SheetsUnchangedType DEF FinalGet
<1>19. ASSUME NEW w \in Workers, FinalRead(w)  PROVE TypeOK'
  <2>1. /\ workers[w].pc # "idle"
        /\ jobs[workers[w].job] \in Row
        /\ workers[w].run \in Runs
    BY <1>19 DEF FinalRead, TypeOK
  <2>2. \E row \in Row : Hold(w, "finalWrite", row)
    <3>1. [jobs[workers[w].job] EXCEPT !.status = "succeeded",
              !.authority = workers[w].run, !.error = "none"] \in Row
      BY <2>1 DEF Row, Statuses
    <3>2. QED
      BY <1>19, <3>1 DEF FinalRead
  <2>3. WorkersOK'
    BY <1>0, <2>1, <2>2, HoldType, PcsKnown
  <2>4. QED
    BY <1>19, <2>3, <1>t, SheetsUnchangedType DEF FinalRead
<1>20. ASSUME NEW w \in Workers, FinalWrite(w)  PROVE TypeOK'
  <2>1. WorkersOK'
    BY <1>0, <1>20, DropType DEF FinalWrite
  <2>2. QED
    BY <1>20, <2>1, <1>t, OverwriteType DEF FinalWrite
<1>21. ASSUME NEW w \in Workers, Raise(w)  PROVE TypeOK'
  <2>1. WorkersOK'
    BY <1>0, <1>21, DropType DEF Raise
  <2>2. QED
    BY <1>21, <2>1, <1>t, SheetsUnchangedType DEF Raise
<1>22. ASSUME NEW w \in Workers, Crash(w)  PROVE TypeOK'
  <2>1. WorkersOK'
    BY <1>0, <1>22, DropType DEF Crash
  <2>2. QED
    BY <1>22, <2>1, <1>t, SheetsUnchangedType DEF Crash
<1>23. CASE Tick
  <2>1. jobs' \in [Jobs -> Row]
    BY <1>23, AgedType DEF Tick, TypeOK
  <2>2. WorkersOK'
    BY <1>23, <1>0, AgedType DEF Tick, WorkersOK, Memory
  <2>3. QED
    BY <1>23, <2>1, <2>2, <1>t DEF Tick, TypeOK
<1>24. CASE UNCHANGED vars
  BY <1>24 DEF vars, TypeOK
<1>25. QED
  BY <1>1, <1>2, <1>3, <1>4, <1>5, <1>6, <1>7, <1>8, <1>9, <1>10, <1>11,
     <1>12, <1>13, <1>14, <1>15, <1>16, <1>17, <1>18, <1>19, <1>20, <1>21,
     <1>22, <1>23, <1>24 DEF Next, Attempt

\* Every reachable state is well typed: rows stay inside the sheet's schema,
\* attempt_count never passes max_attempts, and a busy worker knows its job.
THEOREM TypeCorrect == Spec => []TypeOK
<1>1. Init => TypeOK
  BY InitType
<1>2. TypeOK /\ [Next]_vars => TypeOK'
  BY NextType
<1>3. QED
  BY <1>1, <1>2, PTL DEF Spec

-----------------------------------------------------------------------------
(* The authority of a job is always backed by a result row *)

\* RowBacked depends on the results sheet only, and that sheet only grows.
LEMMA BackedMonotone ==
  ASSUME NEW j \in Jobs, NEW row, RowBacked(j, row),
         results[j] \subseteq results'[j]
  PROVE  /\ row.authority # NoRun => row.authority \in results'[j]
         /\ row.status = "succeeded" => row.authority # NoRun
  BY DEF RowBacked

LEMMA InitBacked == Init => BackedInv
  BY DEF Init, BackedInv, RowBacked, QueuedRow, Idle

\* The part of BackedInv about one worker.
WorkerBacked(w) ==
    workers[w].pc # "idle" =>
        /\ RowBacked(workers[w].job, workers[w].row)
        /\ Persisted(w) => workers[w].run \in results[workers[w].job]

\* A step of worker w that leaves jobs and results alone preserves BackedInv
\* if it leaves w itself backed.
LEMMA ReadStepBacked ==
  ASSUME TypeOK, BackedInv, NEW w \in Workers, UNCHANGED <<jobs, results>>,
         NEW m, workers' = [workers EXCEPT ![w] = m], WorkerBacked(w)'
  PROVE  BackedInv'
<1>1. \A j \in Jobs : RowBacked(j, jobs[j])'
  BY DEF BackedInv, RowBacked
<1>2. ASSUME NEW v \in Workers, v # w
      PROVE  WorkerBacked(v)'
  BY <1>2 DEF BackedInv, WorkerBacked, RowBacked, Persisted, TypeOK
<1>3. QED
  BY <1>1, <1>2 DEF BackedInv, WorkerBacked

\* The same for a step that overwrites the row of w's job with w's copy.
LEMMA WriteStepBacked ==
  ASSUME TypeOK, BackedInv, NEW w \in Workers, workers[w].pc # "idle",
         Overwrite(w),
         NEW m, workers' = [workers EXCEPT ![w] = m], WorkerBacked(w)'
  PROVE  BackedInv'
<1>1. ASSUME NEW j \in Jobs  PROVE RowBacked(j, jobs[j])'
  BY DEF BackedInv, RowBacked, Overwrite, TypeOK
<1>2. ASSUME NEW v \in Workers, v # w
      PROVE  WorkerBacked(v)'
  BY <1>2 DEF BackedInv, WorkerBacked, RowBacked, Persisted, Overwrite, TypeOK
<1>3. QED
  BY <1>1, <1>2 DEF BackedInv, WorkerBacked

\* What w itself owes after each way of moving on.
LEMMA DropBacked ==
  ASSUME TypeOK, NEW w \in Workers, Drop(w)
  PROVE  /\ WorkerBacked(w)'
         /\ workers' = [workers EXCEPT ![w] = Idle]
  BY DEF TypeOK, Drop, Idle, WorkerBacked

LEMMA GotoBacked ==
  ASSUME TypeOK, BackedInv, NEW w \in Workers, workers[w].pc # "idle",
         UNCHANGED results, NEW p \in Pcs, Goto(w, p),
         (p \in PersistedPcs
            \/ (p \in FailurePcs /\ workers[w].code \in ResolverCodes))
            => workers[w].run \in results[workers[w].job]
  PROVE  /\ WorkerBacked(w)'
         /\ \E m : workers' = [workers EXCEPT ![w] = m]
<1>1. workers' = [workers EXCEPT ![w] = [workers[w] EXCEPT !.pc = p]]
  BY DEF Goto
<1>2. workers'[w] = [workers[w] EXCEPT !.pc = p]
  BY <1>1 DEF TypeOK
<1>3. WorkerBacked(w)'
  BY <1>2 DEF BackedInv, WorkerBacked, RowBacked, Persisted, TypeOK, Memory
<1>4. QED
  BY <1>1, <1>3

LEMMA HoldBacked ==
  ASSUME TypeOK, NEW w \in Workers, workers[w].pc # "idle",
         UNCHANGED results, NEW p \in Pcs, NEW row, Hold(w, p, row),
         RowBacked(workers[w].job, row),
         p \notin FailurePcs,
         p \in PersistedPcs => workers[w].run \in results[workers[w].job]
  PROVE  /\ WorkerBacked(w)'
         /\ \E m : workers' = [workers EXCEPT ![w] = m]
<1>1. workers' = [workers EXCEPT ![w] = [workers[w] EXCEPT !.pc = p, !.row = row]]
  BY DEF Hold
<1>2. workers'[w] = [workers[w] EXCEPT !.pc = p, !.row = row]
  BY <1>1 DEF TypeOK
<1>3. WorkerBacked(w)'
  BY <1>2 DEF WorkerBacked, RowBacked, Persisted, TypeOK, Memory
<1>4. QED
  BY <1>1, <1>3

LEMMA HandleBacked ==
  ASSUME TypeOK, BackedInv, NEW w \in Workers, workers[w].pc # "idle",
         UNCHANGED results, NEW c \in ErrorCodes, Handle(w, c),
         c \in ResolverCodes => workers[w].run \in results[workers[w].job]
  PROVE  /\ WorkerBacked(w)'
         /\ \E m : workers' = [workers EXCEPT ![w] = m]
<1>1. workers' = [workers EXCEPT ![w] =
                    [workers[w] EXCEPT !.pc = "gateError", !.code = c]]
  BY DEF Handle
<1>2. workers'[w] = [workers[w] EXCEPT !.pc = "gateError", !.code = c]
  BY <1>1 DEF TypeOK
<1>3. WorkerBacked(w)'
  BY <1>2 DEF BackedInv, WorkerBacked, RowBacked, Persisted, PersistedPcs,
              FailurePcs, TypeOK, Memory
<1>4. QED
  BY <1>1, <1>3

LEMMA NextBacked ==
  ASSUME TypeOK, BackedInv, [Next]_vars
  PROVE  BackedInv'
<1> USE DEF At
<1>r. ASSUME NEW w \in Workers, SheetsUnchanged, WorkerBacked(w)',
             \E m : workers' = [workers EXCEPT ![w] = m]
      PROVE  BackedInv'
  BY <1>r, ReadStepBacked DEF SheetsUnchanged
<1>q. \A j \in Jobs : RowBacked(j, QueuedRow)
  BY DEF RowBacked, QueuedRow
<1>s. ASSUME NEW w \in Workers, workers[w].pc # "idle"
      PROVE  /\ workers[w].job \in Jobs
             /\ RowBacked(workers[w].job, jobs[workers[w].job])
             /\ RowBacked(workers[w].job, workers[w].row)
             /\ Persisted(w) => workers[w].run \in results[workers[w].job]
  BY <1>s DEF TypeOK, BackedInv
<1>d. ASSUME NEW w \in Workers, SheetsUnchanged, Drop(w)
      PROVE  BackedInv'
  BY <1>d, <1>r, DropBacked
<1>u. ASSUME SheetsUnchanged  PROVE UNCHANGED results
  BY <1>u DEF SheetsUnchanged
<1>1. ASSUME NEW w \in Workers, Poll(w)  PROVE BackedInv'
  <2>1. PICK j \in Jobs, r \in Runs \ UsedRuns :
          workers' = [workers EXCEPT ![w] =
             [Idle EXCEPT !.pc = "claimRead", !.job = j, !.run = r]]
    BY <1>1 DEF Poll
  <2>2. workers'[w] = [Idle EXCEPT !.pc = "claimRead", !.job = j, !.run = r]
    BY <2>1 DEF TypeOK
  <2>3. WorkerBacked(w)'
    BY <2>2 DEF WorkerBacked, RowBacked, Persisted, PersistedPcs, FailurePcs,
                Idle, QueuedRow
  <2>4. QED
    BY <1>1, <2>1, <2>3, <1>r DEF Poll
<1>2. ASSUME NEW w \in Workers, ClaimRead(w)  PROVE BackedInv'
  <2> DEFINE row == jobs[workers[w].job]
  <2>1. workers[w].pc # "idle" /\ SheetsUnchanged /\ row \in Row
    BY <1>2 DEF ClaimRead, TypeOK
  <2>2. RowBacked(workers[w].job, Claimed(row, w, workers[w].run))
    BY <2>1, <1>s DEF Claimed, RowBacked, Row
  <2>3. "claimWrite" \in Pcs /\ "claimWrite" \notin FailurePcs \cup PersistedPcs
    BY PcsKnown DEF FailurePcs, PersistedPcs
  <2>4. CASE Hold(w, "claimWrite", Claimed(row, w, workers[w].run))
    BY <2>1, <2>2, <2>3, <2>4, <1>u, <1>r, HoldBacked
  <2>5. QED
    BY <1>2, <2>1, <2>4, <1>d DEF ClaimRead
<1>3. ASSUME NEW w \in Workers, ClaimWrite(w)  PROVE BackedInv'
  <2>1. "claimConfirm" \in Pcs /\ "claimConfirm" \notin FailurePcs \cup PersistedPcs
    BY PcsKnown DEF FailurePcs, PersistedPcs
  <2>2. WorkerBacked(w)' /\ \E m : workers' = [workers EXCEPT ![w] = m]
    BY <1>3, <2>1, GotoBacked DEF ClaimWrite, Overwrite
  <2>3. QED
    BY <1>3, <2>2, WriteStepBacked DEF ClaimWrite
<1>4. ASSUME NEW w \in Workers, ClaimConfirm(w)  PROVE BackedInv'
  <2>1. "gateStart" \in Pcs /\ "gateStart" \notin FailurePcs \cup PersistedPcs
    BY PcsKnown DEF FailurePcs, PersistedPcs
  <2>2. workers[w].pc # "idle" /\ SheetsUnchanged
    BY <1>4 DEF ClaimConfirm
  <2>3. CASE Hold(w, "gateStart", QueuedRow)
    BY <2>1, <2>2, <2>3, <1>q, <1>s, <1>u, <1>r, HoldBacked
  <2>4. QED
    BY <1>4, <2>2, <2>3, <1>d DEF ClaimConfirm
<1>5. ASSUME NEW w \in Workers, Gate(w)  PROVE BackedInv'
  <2> DEFINE g == workers[w].pc
  <2>1. g # "idle" /\ g \in Gates /\ SheetsUnchanged
    BY <1>5 DEF Gate, Gates
  <2>2. /\ AfterGate(g) \in Pcs
        /\ AfterGate(g) \in FailurePcs => g \in FailurePcs
        /\ AfterGate(g) \in PersistedPcs => g \in PersistedPcs
    <3>1. AfterGate(g) \in FailurePcs => g \in FailurePcs
      BY <2>1, AfterGateType DEF FailurePcs
    <3>2. AfterGate(g) \in PersistedPcs => g \in PersistedPcs
      BY <2>1 DEF AfterGate, Gates, PersistedPcs
    <3>3. QED
      BY <2>1, <3>1, <3>2, AfterGateType
  <2>3. CASE Goto(w, AfterGate(g))
    BY <2>1, <2>2, <2>3, <1>s, <1>u, <1>r, GotoBacked DEF Persisted
  <2>4. CASE /\ Goto(w, "gateFinal")
             /\ At(w, "gateError")
             /\ workers[w].code \in ResolverCodes
    <3>1. "gateFinal" \in Pcs /\ workers[w].run \in results[workers[w].job]
      BY <2>1, <2>4, <1>s, PcsKnown DEF Persisted, FailurePcs
    <3>2. QED
      BY <2>1, <2>4, <3>1, <1>u, <1>r, GotoBacked
  <2>5. QED
    BY <1>5, <2>1, <2>3, <2>4, <1>d DEF Gate
<1>6. ASSUME NEW w \in Workers, StartRead(w)  PROVE BackedInv'
  <2>1. "startWrite" \in Pcs /\ "startWrite" \notin FailurePcs \cup PersistedPcs
    BY PcsKnown DEF FailurePcs, PersistedPcs
  <2>2. workers[w].pc # "idle" /\ SheetsUnchanged
        /\ Hold(w, "startWrite", jobs[workers[w].job])
    BY <1>6 DEF StartRead
  <2>3. QED
    BY <2>1, <2>2, <1>s, <1>u, <1>r, HoldBacked
<1>7. ASSUME NEW w \in Workers, StartWrite(w)  PROVE BackedInv'
  <2>1. "gateStarted" \in Pcs /\ "gateStarted" \notin FailurePcs \cup PersistedPcs
    BY PcsKnown DEF FailurePcs, PersistedPcs
  <2>2. workers[w].pc # "idle" /\ Overwrite(w)
        /\ Hold(w, "gateStarted", QueuedRow)
    BY <1>7 DEF StartWrite
  <2>3. WorkerBacked(w)' /\ \E m : workers' = [workers EXCEPT ![w] = m]
    BY <2>1, <2>2, <1>q, <1>s, HoldBacked DEF Overwrite
  <2>4. QED
    BY <2>2, <2>3, WriteStepBacked
<1>h. ASSUME NEW w \in Workers, workers[w].pc # "idle", SheetsUnchanged,
             NEW c \in RetryCodes, Handle(w, c)
      PROVE  BackedInv'
  <2>1. c \in ErrorCodes /\ c \notin ResolverCodes
    BY <1>h DEF ErrorCodes, RetryCodes, ResolverCodes
  <2>2. QED
    BY <2>1, <1>h, <1>u, <1>r, HandleBacked
<1>v. ASSUME NEW w \in Workers, Persisted(w), workers[w].pc # "idle",
             SheetsUnchanged, NEW c \in ResolverCodes, Handle(w, c)
      PROVE  BackedInv'
  <2>1. c \in ErrorCodes
    BY <1>v DEF ErrorCodes, ResolverCodes
  <2>2. QED
    BY <2>1, <1>v, <1>s, <1>u, <1>r, HandleBacked
<1>g. ASSUME NEW w \in Workers, Persisted(w), workers[w].pc # "idle",
             SheetsUnchanged, NEW p \in Pcs, Goto(w, p)
      PROVE  BackedInv'
  BY <1>g, <1>s, <1>u, <1>r, GotoBacked
<1>8. ASSUME NEW w \in Workers, Parse(w)  PROVE BackedInv'
  <2>1. "gatePersist" \in Pcs /\ "gatePersist" \notin FailurePcs \cup PersistedPcs
    BY PcsKnown DEF FailurePcs, PersistedPcs
  <2>2. workers[w].pc # "idle" /\ SheetsUnchanged /\ "PARSER_FAILED" \in RetryCodes
    BY <1>8 DEF Parse, RetryCodes
  <2>3. CASE Goto(w, "gatePersist")
    BY <2>1, <2>2, <2>3, <1>u, <1>r, GotoBacked
  <2>4. QED
    BY <1>8, <2>2, <2>3, <1>h DEF Parse
<1>9. ASSUME NEW w \in Workers, CheckResult(w)  PROVE BackedInv'
  <2>1. "appendResult" \in Pcs /\ "appendResult" \notin FailurePcs \cup PersistedPcs
    BY PcsKnown DEF FailurePcs, PersistedPcs
  <2>2. workers[w].pc # "idle" /\ SheetsUnchanged
        /\ "PARSER_RESULT_PERSIST_FAILED" \in RetryCodes
    BY <1>9 DEF CheckResult, RetryCodes
  <2>3. CASE Goto(w, "appendResult")
    BY <2>1, <2>2, <2>3, <1>u, <1>r, GotoBacked
  <2>4. CASE workers[w].run \in results[workers[w].job] /\ Goto(w, "gateResolve")
    BY <2>2, <2>4, <1>u, <1>r, GotoBacked, PcsKnown
  <2>5. QED
    BY <1>9, <2>2, <2>3, <2>4, <1>h DEF CheckResult
<1>10. ASSUME NEW w \in Workers, AppendResult(w)  PROVE BackedInv'
  <2> DEFINE job == workers[w].job
             run == workers[w].run
  <2>1. /\ workers[w].pc = "appendResult"
        /\ job \in Jobs
        /\ UNCHANGED <<jobs, resolved, errors>>
    BY <1>10, <1>s DEF AppendResult
  <2>2. CASE UNCHANGED results
    <3>1. SheetsUnchanged /\ "PARSER_RESULT_PERSIST_FAILED" \in RetryCodes
      BY <2>1, <2>2 DEF SheetsUnchanged, RetryCodes
    <3>2. CASE Handle(w, "PARSER_RESULT_PERSIST_FAILED")
      BY <2>1, <3>1, <3>2, <1>h
    <3>3. CASE Goto(w, "gateResolve") /\ run \in results[job]
      BY <2>1, <2>2, <3>1, <3>3, <1>r, GotoBacked, PcsKnown
    <3>4. QED
      BY <1>10, <2>1, <2>2, <3>2, <3>3 DEF AppendResult, TypeOK
  <2>3. CASE results' = [results EXCEPT ![job] = @ \cup {run}]
    <3>1. /\ \A j \in Jobs : results[j] \subseteq results'[j]
          /\ run \in results'[job]
      BY <2>1, <2>3 DEF TypeOK
    <3>2. PICK p \in {"gateResolve", "gateError"},
                 c \in ErrorCodes \cup {"none"} :
            workers' = [workers EXCEPT ![w] = [@ EXCEPT !.pc = p, !.code = c]]
      <4>1. CASE Goto(w, "gateResolve")
        <5>1. [workers[w] EXCEPT !.pc = "gateResolve"] =
                [workers[w] EXCEPT !.pc = "gateResolve", !.code = workers[w].code]
          BY DEF TypeOK, Memory
        <5>2. workers[w].code \in ErrorCodes \cup {"none"}
          BY DEF TypeOK, Memory
        <5>3. QED
          BY <4>1, <5>1, <5>2 DEF Goto
      <4>2. CASE Handle(w, "PARSER_RESULT_PERSIST_FAILED")
        BY <4>2 DEF Handle, ErrorCodes
      <4>3. QED
        BY <1>10, <4>1, <4>2 DEF AppendResult
    <3>3. \A j \in Jobs : RowBacked(j, jobs[j])'
      BY <2>1, <3>1 DEF BackedInv, RowBacked
    <3>4. ASSUME NEW v \in Workers, workers'[v].pc # "idle"
          PROVE  WorkerBacked(v)'
      <4>1. CASE v = w
        BY <4>1, <2>1, <3>1, <3>2, <1>s DEF WorkerBacked, RowBacked, TypeOK, Memory
      <4>2. CASE v # w
        <5>1. workers'[v] = workers[v] /\ workers[v].job \in Jobs
          BY <4>2, <3>2, <3>4 DEF TypeOK
        <5>2. QED
          BY <5>1, <3>1, <3>4 DEF BackedInv, WorkerBacked, RowBacked, Persisted
      <4>3. QED
        BY <4>1, <4>2
    <3>5. QED
      BY <3>3, <3>4 DEF BackedInv, WorkerBacked
  <2>4. QED
    BY <1>10, <2>2, <2>3 DEF AppendResult
<1>11. ASSUME NEW w \in Workers, Resolve(w)  PROVE BackedInv'
  <2>1. workers[w].pc # "idle" /\ SheetsUnchanged /\ Persisted(w)
        /\ "RESOLVER_FAILED" \in ResolverCodes
    BY <1>11 DEF Resolve, Persisted, PersistedPcs, ResolverCodes
  <2>2. QED
    BY <1>11, <2>1, <1>v, <1>g, PcsKnown DEF Resolve
<1>12. ASSUME NEW w \in Workers, EnrichRead(w)  PROVE BackedInv'
  <2>1. workers[w].pc # "idle" /\ SheetsUnchanged /\ Persisted(w)
        /\ "RESOLVER_PERSIST_FAILED" \in ResolverCodes
    BY <1>12 DEF EnrichRead, Persisted, PersistedPcs, ResolverCodes
  <2>2. QED
    BY <1>12, <2>1, <1>v, <1>g, PcsKnown DEF EnrichRead
<1>13. ASSUME NEW w \in Workers, EnrichWrite(w)  PROVE BackedInv'
  <2>1. /\ workers[w].pc # "idle"
        /\ workers[w].run \in results[workers[w].job]
        /\ UNCHANGED <<jobs, results>>
    BY <1>13, <1>s DEF EnrichWrite, Persisted, PersistedPcs
  <2>2. WorkerBacked(w)' /\ \E m : workers' = [workers EXCEPT ![w] = m]
    <3>1. "RESOLVER_PERSIST_FAILED" \in ErrorCodes
      BY DEF ErrorCodes, ResolverCodes
    <3>2. QED
      BY <1>13, <2>1, <3>1, GotoBacked, HandleBacked, PcsKnown DEF EnrichWrite
  <2>3. QED
    BY <2>1, <2>2, ReadStepBacked
<1>14. ASSUME NEW w \in Workers, AppendError(w)  PROVE BackedInv'
  <2>1. /\ workers[w].pc = "appendError"
        /\ workers[w].code \in ErrorCodes
        /\ UNCHANGED <<jobs, results>>
    BY <1>14 DEF AppendError, TypeOK
  <2>2. CASE workers[w].code \in RetryCodes /\ Goto(w, "gateRetry")
    <3>1. "gateRetry" \in Pcs /\ "gateRetry" \notin FailurePcs \cup PersistedPcs
      BY PcsKnown DEF FailurePcs, PersistedPcs
    <3>2. WorkerBacked(w)' /\ \E m : workers' = [workers EXCEPT ![w] = m]
      BY <2>1, <2>2, <3>1, GotoBacked
    <3>3. QED
      BY <2>1, <3>2, ReadStepBacked
  <2>3. CASE workers[w].code \notin RetryCodes /\ Goto(w, "gateFinal")
    <3>1. workers[w].run \in results[workers[w].job]
      BY <2>1, <2>3, <1>s DEF ErrorCodes, RetryCodes, ResolverCodes, Persisted, FailurePcs
    <3>2. WorkerBacked(w)' /\ \E m : workers' = [workers EXCEPT ![w] = m]
      BY <2>1, <2>3, <3>1, GotoBacked, PcsKnown
    <3>3. QED
      BY <2>1, <3>2, ReadStepBacked
  <2>4. QED
    BY <1>14, <2>2, <2>3 DEF AppendError
<1>15. ASSUME NEW w \in Workers, FailGet(w)  PROVE BackedInv'
  <2> DEFINE row == jobs[workers[w].job]
             decided == [row EXCEPT !.delay = IF Spent(row) THEN 0
                                              ELSE RetryDelay(row.attempts),
                                    !.error = workers[w].code]
  <2>1. "failRead" \in Pcs /\ "failRead" \notin FailurePcs \cup PersistedPcs
    BY PcsKnown DEF FailurePcs, PersistedPcs
  <2>2. workers[w].pc # "idle" /\ SheetsUnchanged /\ row \in Row
        /\ Hold(w, "failRead", decided)
    BY <1>15 DEF FailGet, TypeOK
  <2>3. RowBacked(workers[w].job, decided)
    BY <2>2, <1>s DEF RowBacked, Row
  <2>4. QED
    BY <2>1, <2>2, <2>3, <1>u, <1>r, HoldBacked
<1>16. ASSUME NEW w \in Workers, FailRead(w)  PROVE BackedInv'
  <2> DEFINE released == Released(jobs[workers[w].job], workers[w].row)
  <2>1. "failWrite" \in Pcs /\ "failWrite" \notin FailurePcs \cup PersistedPcs
    BY PcsKnown DEF FailurePcs, PersistedPcs
  <2>2. workers[w].pc # "idle" /\ SheetsUnchanged
        /\ jobs[workers[w].job] \in Row
    BY <1>16 DEF FailRead, TypeOK
  <2>3. RowBacked(workers[w].job, released)
    BY <2>2, <1>s DEF RowBacked, Row, Released
  <2>4. CASE Hold(w, "failWrite", released)
    BY <2>1, <2>2, <2>3, <2>4, <1>u, <1>r, HoldBacked
  <2>5. QED
    BY <1>16, <2>2, <2>4, <1>d DEF FailRead
<1>17. ASSUME NEW w \in Workers, FailWrite(w)  PROVE BackedInv'
  <2>1. workers[w].pc # "idle" /\ Overwrite(w) /\ Drop(w)
    BY <1>17 DEF FailWrite
  <2>2. QED
    BY <2>1, DropBacked, WriteStepBacked
<1>18. ASSUME NEW w \in Workers, FinalGet(w)  PROVE BackedInv'
  <2>1. workers[w].pc # "idle" /\ SheetsUnchanged /\ Persisted(w)
    BY <1>18 DEF FinalGet, Persisted, PersistedPcs
  <2>2. QED
    BY <1>18, <2>1, <1>d, <1>g, PcsKnown DEF FinalGet
<1>19. ASSUME NEW w \in Workers, FinalRead(w)  PROVE BackedInv'
  <2> DEFINE row == [jobs[workers[w].job] EXCEPT !.status = "succeeded",
                        !.authority = workers[w].run, !.error = "none"]
  <2>1. /\ workers[w].pc # "idle"
        /\ SheetsUnchanged
        /\ Hold(w, "finalWrite", row)
        /\ workers[w].run \in Runs
        /\ workers[w].run \in results[workers[w].job]
        /\ jobs[workers[w].job] \in Row
    BY <1>19, <1>s DEF FinalRead, Persisted, PersistedPcs, TypeOK
  <2>2. RowBacked(workers[w].job, row)
    BY <2>1 DEF RowBacked, Row
  <2>3. "finalWrite" \in Pcs /\ "finalWrite" \notin FailurePcs
    BY PcsKnown DEF FailurePcs
  <2>4. QED
    BY <2>1, <2>2, <2>3, <1>u, <1>r, HoldBacked
<1>20. ASSUME NEW w \in Workers, FinalWrite(w)  PROVE BackedInv'
  <2>1. workers[w].pc # "idle" /\ Overwrite(w) /\ Drop(w)
    BY <1>20 DEF FinalWrite
  <2>2. QED
    BY <2>1, DropBacked, WriteStepBacked
<1>21. ASSUME NEW w \in Workers, Raise(w) \/ Crash(w)  PROVE BackedInv'
  BY <1>21, <1>d DEF Raise, Crash
<1>22. CASE Tick
  <2>1. ASSUME NEW row \in Row
        PROVE  /\ Aged(row).authority = row.authority
               /\ Aged(row).status = row.status
    BY DEF Aged, Row
  <2>2. ASSUME NEW j \in Jobs  PROVE RowBacked(j, jobs[j])'
    <3>1. jobs[j] \in Row /\ jobs'[j] = Aged(jobs[j]) /\ UNCHANGED results
      BY <1>22 DEF Tick, TypeOK
    <3>2. QED
      BY <2>1, <3>1 DEF BackedInv, RowBacked
  <2>3. ASSUME NEW w \in Workers  PROVE WorkerBacked(w)'
    <3>1. /\ workers[w] \in Memory
          /\ workers[w].row \in Row
          /\ workers'[w] = [workers[w] EXCEPT !.row = Aged(workers[w].row)]
          /\ UNCHANGED results
      BY <1>22 DEF Tick, TypeOK, Memory
    <3>2. workers'[w].row = Aged(workers[w].row)
      BY <3>1 DEF Memory
    <3>3. /\ workers'[w].pc = workers[w].pc
          /\ workers'[w].job = workers[w].job
          /\ workers'[w].run = workers[w].run
          /\ workers'[w].code = workers[w].code
      BY <3>1 DEF Memory
    <3>4. QED
      BY <2>1, <3>1, <3>2, <3>3 DEF BackedInv, WorkerBacked, RowBacked, Persisted
  <2>4. QED
    BY <2>2, <2>3 DEF BackedInv, WorkerBacked
<1>23. CASE UNCHANGED vars
  BY <1>23 DEF vars, BackedInv, RowBacked, Persisted
<1>24. QED
  BY <1>1, <1>2, <1>3, <1>4, <1>5, <1>6, <1>7, <1>8, <1>9, <1>10, <1>11,
     <1>12, <1>13, <1>14, <1>15, <1>16, <1>17, <1>18, <1>19, <1>20, <1>21,
     <1>22, <1>23 DEF Next, Attempt

\* Whatever the number of workers, however their stale whole-row overwrites
\* interleave and whatever fails, a job's authority has its result row and a
\* succeeded job has an authority.
THEOREM AuthorityAlwaysBacked == Spec => []AuthorityBacked
<1>1. Init => BackedInv
  BY InitBacked
<1>2. TypeOK /\ BackedInv /\ [Next]_vars => BackedInv'
  BY NextBacked
<1>3. BackedInv => AuthorityBacked
  BY DEF BackedInv, RowBacked, AuthorityBacked
<1>4. QED
  BY <1>1, <1>2, <1>3, TypeCorrect, PTL DEF Spec

-----------------------------------------------------------------------------
(* What a step does to the memory of the worker that takes it *)

\* Worker w goes to p with the code c, keeps its job and run, and the other
\* workers keep everything.
Moves(w, p, c) ==
    /\ \A v \in Workers \ {w} : workers'[v] = workers[v]
    /\ workers'[w].pc = p /\ workers'[w].code = c
    /\ workers'[w].job = workers[w].job /\ workers'[w].run = workers[w].run

Quits(w) ==
    /\ \A v \in Workers \ {w} : workers'[v] = workers[v]
    /\ workers'[w] = Idle

LEMMA GotoMoves ==
  ASSUME TypeOK, NEW w \in Workers, NEW p, Goto(w, p)
  PROVE  Moves(w, p, workers[w].code) /\ workers'[w].row = workers[w].row
<1>1. workers' = [workers EXCEPT ![w] = [workers[w] EXCEPT !.pc = p]]
  BY DEF Goto
<1>2. /\ workers'[w] = [workers[w] EXCEPT !.pc = p]
      /\ \A v \in Workers \ {w} : workers'[v] = workers[v]
  BY <1>1 DEF TypeOK
<1>3. QED
  BY <1>2 DEF Moves, TypeOK, Memory

LEMMA HoldMoves ==
  ASSUME TypeOK, NEW w \in Workers, NEW p, NEW row, Hold(w, p, row)
  PROVE  Moves(w, p, workers[w].code) /\ workers'[w].row = row
<1>1. workers' = [workers EXCEPT ![w] = [workers[w] EXCEPT !.pc = p, !.row = row]]
  BY DEF Hold
<1>2. /\ workers'[w] = [workers[w] EXCEPT !.pc = p, !.row = row]
      /\ \A v \in Workers \ {w} : workers'[v] = workers[v]
  BY <1>1 DEF TypeOK
<1>3. QED
  BY <1>2 DEF Moves, TypeOK, Memory

LEMMA HandleMoves ==
  ASSUME TypeOK, NEW w \in Workers, NEW c, Handle(w, c)
  PROVE  Moves(w, "gateError", c) /\ workers'[w].row = workers[w].row
<1>1. workers' = [workers EXCEPT ![w] =
                    [workers[w] EXCEPT !.pc = "gateError", !.code = c]]
  BY DEF Handle
<1>2. /\ workers'[w] = [workers[w] EXCEPT !.pc = "gateError", !.code = c]
      /\ \A v \in Workers \ {w} : workers'[v] = workers[v]
  BY <1>1 DEF TypeOK
<1>3. QED
  BY <1>2 DEF Moves, TypeOK, Memory

LEMMA DropQuits ==
  ASSUME TypeOK, NEW w \in Workers, Drop(w)
  PROVE  Quits(w)
  BY DEF TypeOK, Drop, Quits

-----------------------------------------------------------------------------
(* The evidence a failed attempt leaves does not contradict itself *)

\* The attempt has neither logged a failure nor tried to append its result.
EarlyPcs == {"claimRead", "claimWrite", "claimConfirm", "gateStart", "startRead",
             "startWrite", "gateStarted", "parse", "gatePersist", "checkResult",
             "appendResult"}

\* The attempt ends with a parser failure that is not logged yet.
ParserFailing(w) ==
    workers[w].pc \in FailurePcs /\ workers[w].code = "PARSER_FAILED"

NoResult(r) == \A j \in Jobs : r \notin results[j]

\* What run r of an attempt at p, with the code c, has left in the sheets.
Untold(r, p, c) ==
    /\ p \in EarlyPcs => NoResult(r) /\ <<r, "PARSER_FAILED">> \notin errors
    /\ p \in FailurePcs /\ c = "PARSER_FAILED" => NoResult(r)

UniqueRuns ==
    \A v, w \in Workers :
        workers[v].pc # "idle" /\ workers[w].pc # "idle" /\ v # w =>
            workers[v].run # workers[w].run

EvidenceInv ==
    /\ UniqueRuns
    /\ \A w \in Workers : workers[w].pc # "idle" =>
          Untold(workers[w].run, workers[w].pc, workers[w].code)
    /\ \A r \in Runs : <<r, "PARSER_FAILED">> \in errors => NoResult(r)
    /\ resolved \subseteq UNION {results[j] : j \in Jobs}

\* A run that is not in use is named nowhere.
LEMMA UnusedRun ==
  ASSUME NEW r, r \notin UsedRuns
  PROVE  /\ \A j \in Jobs : r \notin results[j]
         /\ \A j \in Jobs : jobs[j].lastRun # r /\ jobs[j].authority # r
         /\ \A c : <<r, c>> \notin errors
         /\ \A v \in Workers : workers[v].run # r
<1> DEFINE A == UNION {results[j] : j \in Jobs}
           B == {jobs[j].lastRun : j \in Jobs}
           C == {jobs[j].authority : j \in Jobs}
           D == {e[1] : e \in errors}
           E == {workers[w].run : w \in Workers}
           F == {workers[w].row.lastRun : w \in Workers}
<1>1. UsedRuns = A \cup B \cup C \cup D \cup E \cup F
  BY DEF UsedRuns
<1>2. r \notin A /\ r \notin B /\ r \notin C /\ r \notin D /\ r \notin E
  <2> HIDE DEF A, B, C, D, E, F
  <2>1. QED
    BY <1>1
<1>3. \A j \in Jobs : r \notin results[j]
  BY <1>2
<1>4. \A j \in Jobs : jobs[j].lastRun # r /\ jobs[j].authority # r
  BY <1>2
<1>5. ASSUME NEW c, <<r, c>> \in errors PROVE FALSE
  <2>1. <<r, c>>[1] \in D
    BY <1>5
  <2>2. QED
    BY <1>2, <2>1
<1>6. \A v \in Workers : workers[v].run # r
  BY <1>2
<1>7. QED
  BY <1>3, <1>4, <1>5, <1>6

LEMMA InitEvidence == Init => EvidenceInv
  BY DEF Init, EvidenceInv, UniqueRuns, Idle

\* Quitting, or going on without having touched the sheets, to a point where
\* nothing more is claimed than before.
LEMMA QuietEvidence ==
  ASSUME TypeOK, EvidenceInv, NEW w \in Workers, workers[w].pc # "idle",
         UNCHANGED <<results, resolved, errors>>,
         Quits(w) \/ \E p, c :
            /\ Moves(w, p, c)
            /\ p \in EarlyPcs => workers[w].pc \in EarlyPcs
            /\ p \in FailurePcs /\ c = "PARSER_FAILED" =>
                  workers[w].pc \in EarlyPcs \/ ParserFailing(w)
  PROVE  EvidenceInv'
<1>1. UniqueRuns'
  BY DEF EvidenceInv, UniqueRuns, Quits, Moves, Idle
<1>2. \A r : NoResult(r)' <=> NoResult(r)
  BY DEF NoResult
<1>3. ASSUME NEW v \in Workers, workers'[v].pc # "idle"
      PROVE  Untold(workers[v].run, workers[v].pc, workers[v].code)'
  <2>1. CASE v # w
    BY <1>2, <1>3, <2>1 DEF EvidenceInv, Quits, Moves, Untold
  <2>2. CASE v = w
    BY <1>2, <1>3, <2>2 DEF EvidenceInv, Quits, Moves, Untold, ParserFailing, Idle
  <2>3. QED
    BY <2>1, <2>2
<1>4. QED
  BY <1>1, <1>2, <1>3 DEF EvidenceInv

LEMMA NextEvidence ==
  ASSUME TypeOK, BackedInv, EvidenceInv, [Next]_vars
  PROVE  EvidenceInv'
<1> USE DEF At
<1>s. SheetsUnchanged => UNCHANGED <<results, resolved, errors>>
  BY DEF SheetsUnchanged
<1>o. \A w \in Workers : Overwrite(w) => UNCHANGED <<results, resolved, errors>>
  BY DEF Overwrite
<1>1. ASSUME NEW w \in Workers, Poll(w)  PROVE EvidenceInv'
  <2>1. PICK j \in Jobs, r \in Runs \ UsedRuns :
          workers' = [workers EXCEPT ![w] =
             [Idle EXCEPT !.pc = "claimRead", !.job = j, !.run = r]]
    BY <1>1 DEF Poll
  <2>2. /\ workers'[w].pc = "claimRead" /\ workers'[w].run = r
        /\ \A v \in Workers \ {w} : workers'[v] = workers[v]
    BY <2>1 DEF TypeOK, Idle
  <2>3. /\ NoResult(r) /\ <<r, "PARSER_FAILED">> \notin errors
        /\ \A v \in Workers : workers[v].run # r
    BY UnusedRun DEF NoResult
  <2>4. UNCHANGED <<results, resolved, errors>>
    BY <1>1, <1>s DEF Poll
  <2>5. UniqueRuns'
    BY <2>2, <2>3 DEF EvidenceInv, UniqueRuns
  <2>6. \A q : NoResult(q)' <=> NoResult(q)
    BY <2>4 DEF NoResult
  <2>7. \A v \in Workers : workers'[v].pc # "idle" =>
          Untold(workers[v].run, workers[v].pc, workers[v].code)'
    BY <2>2, <2>3, <2>4, <2>6 DEF EvidenceInv, Untold, FailurePcs
  <2>8. QED
    BY <2>4, <2>5, <2>6, <2>7 DEF EvidenceInv
<1>q. ASSUME NEW w \in Workers, workers[w].pc # "idle", Drop(w),
             UNCHANGED <<results, resolved, errors>>
      PROVE  EvidenceInv'
  BY <1>q, DropQuits, QuietEvidence
<1>g. ASSUME NEW w \in Workers, workers[w].pc # "idle", NEW p, Goto(w, p),
             p \in EarlyPcs => workers[w].pc \in EarlyPcs,
             p \in FailurePcs => workers[w].pc \in FailurePcs,
             UNCHANGED <<results, resolved, errors>>
      PROVE  EvidenceInv'
  <2>1. Moves(w, p, workers[w].code)
    BY <1>g, GotoMoves
  <2>2. QED
    BY <1>g, <2>1, QuietEvidence DEF ParserFailing
<1>k. ASSUME NEW w \in Workers, workers[w].pc # "idle", NEW p, NEW row,
             Hold(w, p, row),
             p \in EarlyPcs => workers[w].pc \in EarlyPcs,
             p \notin FailurePcs,
             UNCHANGED <<results, resolved, errors>>
      PROVE  EvidenceInv'
  <2>1. Moves(w, p, workers[w].code)
    BY <1>k, HoldMoves
  <2>2. QED
    BY <1>k, <2>1, QuietEvidence
<1>e. ASSUME NEW w \in Workers, workers[w].pc # "idle", NEW c, Handle(w, c),
             c = "PARSER_FAILED" => workers[w].pc \in EarlyPcs,
             UNCHANGED <<results, resolved, errors>>
      PROVE  EvidenceInv'
  <2>1. Moves(w, "gateError", c)
    BY <1>e, HandleMoves
  <2>2. "gateError" \notin EarlyPcs
    BY DEF EarlyPcs
  <2>3. QED
    BY <1>e, <2>1, <2>2, QuietEvidence
<1> USE <1>s, <1>o DEF EarlyPcs, FailurePcs
<1>2. ASSUME NEW w \in Workers, ClaimRead(w)  PROVE EvidenceInv'
  BY <1>2, <1>k, <1>q DEF ClaimRead
<1>3. ASSUME NEW w \in Workers, ClaimWrite(w)  PROVE EvidenceInv'
  BY <1>3, <1>g DEF ClaimWrite
<1>4. ASSUME NEW w \in Workers, ClaimConfirm(w)  PROVE EvidenceInv'
  BY <1>4, <1>k, <1>q DEF ClaimConfirm
<1>5. ASSUME NEW w \in Workers, Gate(w)  PROVE EvidenceInv'
  <2> DEFINE g == workers[w].pc
  <2>1. g \in Gates /\ g # "idle" /\ UNCHANGED <<results, resolved, errors>>
    BY <1>5 DEF Gate, Gates
  <2>2. /\ AfterGate(g) \in EarlyPcs => g \in EarlyPcs
        /\ AfterGate(g) \in FailurePcs => g \in FailurePcs
    BY <2>1 DEF AfterGate, Gates
  <2>3. CASE Goto(w, AfterGate(g))
    BY <2>1, <2>2, <2>3, <1>g
  <2>4. CASE Goto(w, "gateFinal")
    BY <2>1, <2>4, <1>g
  <2>5. QED
    BY <1>5, <2>1, <2>3, <2>4, <1>q DEF Gate
<1>6. ASSUME NEW w \in Workers, StartRead(w)  PROVE EvidenceInv'
  BY <1>6, <1>k DEF StartRead
<1>7. ASSUME NEW w \in Workers, StartWrite(w)  PROVE EvidenceInv'
  BY <1>7, <1>k DEF StartWrite
<1>8. ASSUME NEW w \in Workers, Parse(w)  PROVE EvidenceInv'
  BY <1>8, <1>g, <1>e DEF Parse
<1>9. ASSUME NEW w \in Workers, CheckResult(w)  PROVE EvidenceInv'
  BY <1>9, <1>g, <1>e DEF CheckResult
<1>10. ASSUME NEW w \in Workers, AppendResult(w)  PROVE EvidenceInv'
  <2> DEFINE job == workers[w].job
             run == workers[w].run
  <2>1. /\ workers[w].pc = "appendResult" /\ job \in Jobs /\ run \in Runs
        /\ UNCHANGED <<resolved, errors>>
    BY <1>10 DEF AppendResult, TypeOK
  <2>2. \E c : \E p \in {"gateResolve", "gateError"} :
           Moves(w, p, c) /\ (p = "gateError" => c # "PARSER_FAILED")
    BY <1>10, GotoMoves, HandleMoves DEF AppendResult
  <2>3. CASE UNCHANGED results
    BY <2>1, <2>2, <2>3, QuietEvidence
  <2>4. CASE results' = [results EXCEPT ![job] = @ \cup {run}]
    <3>1. \A r : r # run => (NoResult(r)' <=> NoResult(r))
      BY <2>1, <2>4 DEF NoResult, TypeOK
    <3>2. <<run, "PARSER_FAILED">> \notin errors
      BY <2>1 DEF EvidenceInv, Untold
    <3>3. UniqueRuns'
      BY <2>1, <2>2 DEF EvidenceInv, UniqueRuns, Moves
    <3>4. ASSUME NEW v \in Workers, workers'[v].pc # "idle"
          PROVE  Untold(workers[v].run, workers[v].pc, workers[v].code)'
      <4>1. CASE v # w
        <5>1. /\ workers'[v] = workers[v] /\ workers[v].run # run
              /\ Untold(workers[v].run, workers[v].pc, workers[v].code)
          BY <2>1, <2>2, <3>4, <4>1 DEF Moves, EvidenceInv, UniqueRuns
        <5>2. QED
          BY <2>1, <3>1, <5>1 DEF Untold
      <4>2. CASE v = w
        BY <2>2, <4>2 DEF Moves, Untold
      <4>3. QED
        BY <4>1, <4>2
    <3>5. \A r \in Runs : <<r, "PARSER_FAILED">> \in errors' => NoResult(r)'
      BY <2>1, <3>1, <3>2 DEF EvidenceInv
    <3>6. \A j \in Jobs : results[j] \subseteq results'[j]
      BY <2>1, <2>4 DEF TypeOK
    <3>7. resolved' \subseteq UNION {results'[j] : j \in Jobs}
      BY <2>1, <3>6 DEF EvidenceInv
    <3>8. QED
      BY <3>3, <3>4, <3>5, <3>7 DEF EvidenceInv
  <2>5. QED
    BY <1>10, <2>3, <2>4 DEF AppendResult
<1>11. ASSUME NEW w \in Workers, Resolve(w)  PROVE EvidenceInv'
  BY <1>11, <1>g, <1>e DEF Resolve
<1>12. ASSUME NEW w \in Workers, EnrichRead(w)  PROVE EvidenceInv'
  BY <1>12, <1>g, <1>e DEF EnrichRead
<1>13. ASSUME NEW w \in Workers, EnrichWrite(w)  PROVE EvidenceInv'
  <2>1. /\ workers[w].pc = "enrichWrite" /\ workers[w].job \in Jobs
        /\ UNCHANGED <<results, errors>>
        /\ resolved' \subseteq resolved \cup {workers[w].run}
    BY <1>13 DEF EnrichWrite, TypeOK
  <2>2. \E c : \E p \in {"gateFinal", "gateError"} :
           Moves(w, p, c) /\ (p = "gateError" => c # "PARSER_FAILED")
    BY <1>13, GotoMoves, HandleMoves DEF EnrichWrite
  <2>3. workers[w].run \in results[workers[w].job]
    BY <2>1 DEF BackedInv, Persisted, PersistedPcs
  <2>4. resolved' \subseteq UNION {results'[j] : j \in Jobs}
    BY <2>1, <2>3 DEF EvidenceInv
  <2>5. UniqueRuns'
    BY <2>1, <2>2 DEF EvidenceInv, UniqueRuns, Moves
  <2>6. \A r : NoResult(r)' <=> NoResult(r)
    BY <2>1 DEF NoResult
  <2>7. \A v \in Workers : workers'[v].pc # "idle" =>
          Untold(workers[v].run, workers[v].pc, workers[v].code)'
    BY <2>1, <2>2, <2>6 DEF EvidenceInv, Moves, Untold
  <2>8. QED
    BY <2>1, <2>4, <2>5, <2>6, <2>7 DEF EvidenceInv
<1>14. ASSUME NEW w \in Workers, AppendError(w)  PROVE EvidenceInv'
  <2> DEFINE run == workers[w].run
             code == workers[w].code
  <2>1. /\ workers[w].pc = "appendError" /\ run \in Runs
        /\ UNCHANGED <<results, resolved>>
        /\ errors' \subseteq errors \cup {<<run, code>>}
    BY <1>14 DEF AppendError, TypeOK
  <2>2. \E p \in {"gateRetry", "gateFinal"} : Moves(w, p, code)
    BY <1>14, GotoMoves DEF AppendError
  <2>3. \A r : NoResult(r)' <=> NoResult(r)
    BY <2>1 DEF NoResult
  <2>4. code = "PARSER_FAILED" => NoResult(run)
    BY <2>1 DEF EvidenceInv, Untold
  <2>5. \A r : <<r, "PARSER_FAILED">> \in errors' =>
          \/ <<r, "PARSER_FAILED">> \in errors
          \/ r = run /\ code = "PARSER_FAILED"
    BY <2>1
  <2>6. UniqueRuns'
    BY <2>1, <2>2 DEF EvidenceInv, UniqueRuns, Moves
  <2>7. ASSUME NEW v \in Workers, workers'[v].pc # "idle"
        PROVE  Untold(workers[v].run, workers[v].pc, workers[v].code)'
    <3>1. CASE v # w
      <4>1. /\ workers'[v] = workers[v] /\ workers[v].run # run
            /\ Untold(workers[v].run, workers[v].pc, workers[v].code)
        BY <2>1, <2>2, <2>7, <3>1 DEF Moves, EvidenceInv, UniqueRuns
      <4>2. QED
        BY <2>3, <2>5, <4>1 DEF Untold
    <3>2. CASE v = w
      BY <2>2, <3>2 DEF Moves, Untold
    <3>3. QED
      BY <3>1, <3>2
  <2>8. \A r \in Runs : <<r, "PARSER_FAILED">> \in errors' => NoResult(r)'
    BY <2>3, <2>4, <2>5 DEF EvidenceInv
  <2>9. resolved' \subseteq UNION {results'[j] : j \in Jobs}
    BY <2>1 DEF EvidenceInv
  <2>10. QED
    BY <2>6, <2>7, <2>8, <2>9 DEF EvidenceInv
<1>15. ASSUME NEW w \in Workers, FailGet(w)  PROVE EvidenceInv'
  BY <1>15, <1>k DEF FailGet
<1>16. ASSUME NEW w \in Workers, FailRead(w)  PROVE EvidenceInv'
  BY <1>16, <1>k, <1>q DEF FailRead
<1>17. ASSUME NEW w \in Workers, FailWrite(w)  PROVE EvidenceInv'
  BY <1>17, <1>q DEF FailWrite
<1>18. ASSUME NEW w \in Workers, FinalGet(w)  PROVE EvidenceInv'
  BY <1>18, <1>g, <1>q DEF FinalGet
<1>19. ASSUME NEW w \in Workers, FinalRead(w)  PROVE EvidenceInv'
  BY <1>19, <1>k DEF FinalRead
<1>20. ASSUME NEW w \in Workers, FinalWrite(w)  PROVE EvidenceInv'
  BY <1>20, <1>q DEF FinalWrite
<1>21. ASSUME NEW w \in Workers, Raise(w) \/ Crash(w)  PROVE EvidenceInv'
  <2>1. workers[w].pc # "idle"
    BY <1>21 DEF Raise, Crash, EscapePcs, Gates
  <2>2. QED
    BY <1>21, <2>1, <1>q DEF Raise, Crash
<1>22. CASE Tick
  <2>1. UNCHANGED <<results, resolved, errors>>
    BY <1>22 DEF Tick
  <2>2. \A w \in Workers : /\ workers'[w].pc = workers[w].pc
                           /\ workers'[w].run = workers[w].run
                           /\ workers'[w].code = workers[w].code
    BY <1>22 DEF Tick, TypeOK, Memory
  <2>3. \A r : NoResult(r)' <=> NoResult(r)
    BY <2>1 DEF NoResult
  <2>4. UniqueRuns'
    BY <2>2 DEF EvidenceInv, UniqueRuns
  <2>5. \A w \in Workers : workers'[w].pc # "idle" =>
          Untold(workers[w].run, workers[w].pc, workers[w].code)'
    BY <2>1, <2>2, <2>3 DEF EvidenceInv, Untold
  <2>6. QED
    BY <2>1, <2>3, <2>4, <2>5 DEF EvidenceInv
<1>23. CASE UNCHANGED vars
  BY <1>23 DEF vars, EvidenceInv, UniqueRuns, NoResult, Untold
<1>24. QED
  BY <1>1, <1>2, <1>3, <1>4, <1>5, <1>6, <1>7, <1>8, <1>9, <1>10, <1>11,
     <1>12, <1>13, <1>14, <1>15, <1>16, <1>17, <1>18, <1>19, <1>20, <1>21,
     <1>22, <1>23 DEF Next, Attempt

\* Whatever the number of workers and of failures: a run whose attempt reported
\* PARSER_FAILED has no result row in any job and is nobody's authority, and
\* resolver output is only ever found on a result row that exists.
THEOREM EvidenceAgrees == Spec => []FailureEvidenceConsistent
<1>1. Init => BackedInv /\ EvidenceInv
  BY InitBacked, InitEvidence
<1>2. TypeOK /\ BackedInv /\ EvidenceInv /\ [Next]_vars
        => BackedInv' /\ EvidenceInv'
  BY NextBacked, NextEvidence
<1>3. TypeOK /\ BackedInv /\ EvidenceInv => FailureEvidenceConsistent
  <2> SUFFICES ASSUME TypeOK, BackedInv, EvidenceInv
               PROVE  FailureEvidenceConsistent
    OBVIOUS
  <2>1. ASSUME NEW e \in errors, e[2] = "PARSER_FAILED", NEW j \in Jobs
        PROVE  e[1] \notin results[j] /\ jobs[j].authority # e[1]
    <3>1. e[1] \in Runs /\ e = <<e[1], "PARSER_FAILED">>
      BY <2>1 DEF TypeOK
    <3>2. e[1] \notin results[j]
      BY <2>1, <3>1 DEF EvidenceInv, NoResult
    <3>3. QED
      BY <3>1, <3>2 DEF BackedInv, RowBacked
  <2>2. QED
    BY <2>1 DEF EvidenceInv, FailureEvidenceConsistent
<1>4. QED
  BY <1>1, <1>2, <1>3, TypeCorrect, PTL DEF Spec
=============================================================================
