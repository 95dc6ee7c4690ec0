--------------------------- MODULE SingleWorkerProofs ---------------------------
(***************************************************************************)
(* Theorems about ParserWorker in the supported deployment, one polling    *)
(* worker, for every number of jobs and runs, every attempt budget, lease  *)
(* and delay, and every set of faults.                                     *)
(*                                                                         *)
(* With one worker only the clock moves a row between the worker's read    *)
(* and its write, so that a copy of a row stays a copy of the row in all   *)
(* that readers see.  This is what the invariant SoloInv says, and what    *)
(* two workers break.                                                      *)
(***************************************************************************)
EXTENDS ParserWorkerProofs, FiniteSetTheorems

USE ConstantsAssumption DEF ConstantsAssumption

\* The deployment the theorems are about.
OneWorker == \A v, w \in Workers : v = w

-----------------------------------------------------------------------------
(* The invariant *)

ClaimingPcs == {"claimRead", "claimWrite"}

\* The worker holds a copy of its row that it will write, or decide from.
CopyingPcs == {"startWrite", "failRead", "failWrite", "finalWrite"}

\* The attempt of worker w has been counted in its row.
Counting(w) == workers[w].pc \notin {"idle"} \cup ClaimingPcs

\* No row names run r yet.
FreshRun(r) == \A j \in Jobs :
    r \notin results[j] /\ jobs[j].lastRun # r /\ jobs[j].authority # r

\* The copy a claim writes.
ClaimCopy(copy, row, r) ==
    /\ Claimable(row)
    /\ copy.status = "running" /\ copy.attempts = row.attempts + 1
    /\ copy.lastRun = r /\ copy.authority = row.authority

SameAttempt(copy, row) ==
    copy.attempts = row.attempts /\ copy.lastRun = row.lastRun

\* The copy in a worker's memory still agrees with the row it was read from.
CopyOK(w) ==
    LET m   == workers[w]
        row == jobs[workers[w].job]
    IN  /\ m.pc \in ClaimingPcs => FreshRun(m.run)
        /\ m.pc = "claimWrite" => ClaimCopy(m.row, row, m.run)
        /\ m.pc = "startWrite" =>
              /\ SameAttempt(m.row, row)
              /\ m.row.status = "running" /\ m.row.authority = row.authority
        /\ m.pc = "failRead" => m.row.attempts = row.attempts
        /\ m.pc = "failWrite" =>
              /\ SameAttempt(m.row, row) /\ m.row.authority = row.authority
              /\ m.row.status = IF row.attempts = MaxAttempts THEN "failed"
                                ELSE "retry_scheduled"
        /\ m.pc = "finalWrite" =>
              /\ SameAttempt(m.row, row)
              /\ m.row.status = "succeeded" /\ m.row.authority = m.run
        /\ m.pc \notin {"idle"} \cup ClaimingPcs =>
              row.status = "running" /\ row.lastRun = m.run

\* The runs whose attempt the row of j has been charged for.
Charged(j) == results[j] \cup ({jobs[j].lastRun} \ {NoRun})

JobOK(j) ==
    /\ IsFiniteSet(results[j])
    /\ Cardinality(Charged(j)) <= jobs[j].attempts
    /\ jobs[j].status = "failed" => jobs[j].attempts = MaxAttempts
    /\ jobs[j].authority # NoRun => jobs[j].status = "succeeded"

SoloInv ==
    /\ \A w \in Workers : workers[w].pc # "idle" => CopyOK(w)
    /\ \A j \in Jobs : JobOK(j)

LEMMA InitSolo == Init => SoloInv
<1> SUFFICES ASSUME Init PROVE SoloInv
  OBVIOUS
<1>1. \A w \in Workers : workers[w].pc = "idle"
  BY DEF Init, Idle
<1>2. ASSUME NEW j \in Jobs PROVE JobOK(j)
  <2>1. /\ results[j] = {} /\ jobs[j].lastRun = NoRun /\ jobs[j].attempts = 0
        /\ jobs[j].status = "queued" /\ jobs[j].authority = NoRun
    BY DEF Init, QueuedRow
  <2>2. Charged(j) = {}
    BY <2>1 DEF Charged
  <2>3. QED
    BY <2>1, <2>2, FS_EmptySet DEF JobOK
<1>3. QED
  BY <1>1, <1>2 DEF SoloInv

-----------------------------------------------------------------------------
(* What readers see of a step *)

\* Nothing a reader relies on changes in the row of j.
Unseen(j) ==
    /\ jobs'[j].status = jobs[j].status
    /\ jobs'[j].attempts = jobs[j].attempts
    /\ jobs'[j].lastRun = jobs[j].lastRun
    /\ jobs'[j].authority = jobs[j].authority

Starts(j, r) ==
    /\ Claimable(jobs[j]) /\ FreshRun(r) /\ r \in Runs
    /\ jobs'[j].status = "running"
    /\ jobs'[j].attempts = jobs[j].attempts + 1
    /\ jobs'[j].lastRun = r
    /\ jobs'[j].authority = jobs[j].authority

\* The attempt that is running ends with the given outcome.
Ends(j, status, authority) ==
    /\ jobs[j].status = "running"
    /\ jobs'[j].status = status
    /\ jobs'[j].attempts = jobs[j].attempts
    /\ jobs'[j].lastRun = jobs[j].lastRun
    /\ jobs'[j].authority = authority

SeenOf(j) ==
    \/ \E r \in Runs : Starts(j, r)
    \/ jobs[j].attempts < MaxAttempts
       /\ Ends(j, "retry_scheduled", jobs[j].authority)
    \/ jobs[j].attempts = MaxAttempts /\ Ends(j, "failed", jobs[j].authority)
    \/ Ends(j, "succeeded", jobs[j].lastRun)

\* A step changes at most one row for its readers, and in one of these ways.
SeenStep ==
    \/ \A j \in Jobs : Unseen(j)
    \/ \E j \in Jobs :
          /\ \A i \in Jobs \ {j} : jobs'[i] = jobs[i]
          /\ SeenOf(j)

\* Result rows: none, or the one of the run that is charged.
ResultsStep == \A j \in Jobs :
    \/ results'[j] = results[j]
    \/ /\ Unseen(j) /\ jobs[j].lastRun \in Runs
       /\ results'[j] = results[j] \cup {jobs[j].lastRun}

LEMMA ChargeOne ==
  ASSUME NEW S, IsFiniteSet(S), NEW x, NEW n \in Nat,
         Cardinality(S) <= n
  PROVE  IsFiniteSet(S \cup {x}) /\ Cardinality(S \cup {x}) <= n + 1
<1>1. /\ IsFiniteSet(S \cup {x})
      /\ Cardinality(S \cup {x}) = Cardinality(S)
            \/ Cardinality(S \cup {x}) = Cardinality(S) + 1
  BY FS_AddElement
<1>2. Cardinality(S) \in Nat
  BY FS_CardinalityType
<1>3. QED
  BY <1>1, <1>2

LEMMA JobOKStep ==
  ASSUME TypeOK, TypeOK', \A j \in Jobs : JobOK(j), SeenStep, ResultsStep
  PROVE  \A j \in Jobs : JobOK(j)'
<1> SUFFICES ASSUME NEW j \in Jobs PROVE JobOK(j)'
  OBVIOUS
<1>1. /\ JobOK(j) /\ jobs[j].attempts \in Nat
      /\ IsFiniteSet(Charged(j)) /\ IsFiniteSet(results[j])
      /\ results[j] \subseteq Charged(j)
      /\ NoRun \notin Runs
  <2>1. JobOK(j) /\ IsFiniteSet(results[j])
    BY DEF JobOK
  <2>2. IsFiniteSet({jobs[j].lastRun} \ {NoRun})
    BY FS_Singleton, FS_Subset
  <2>3. IsFiniteSet(Charged(j))
    BY <2>1, <2>2, FS_Union DEF Charged
  <2>4. QED
    BY <2>1, <2>3 DEF TypeOK, Row, Charged
<1>2. CASE Unseen(j)
  <2>1. \/ results'[j] = results[j]
        \/ results'[j] = results[j] \cup {jobs[j].lastRun} /\ jobs[j].lastRun \in Runs
    BY DEF ResultsStep
  <2>2. Charged(j)' = Charged(j)
    BY <1>1, <1>2, <2>1 DEF Charged, Unseen
  <2>3. IsFiniteSet(results'[j])
    BY <1>1, <2>1, FS_AddElement
  <2>4. QED
    BY <1>1, <1>2, <2>2, <2>3 DEF JobOK, Unseen
<1>3. CASE ~Unseen(j)
  <2>1. SeenOf(j) /\ results'[j] = results[j]
    BY <1>3 DEF SeenStep, ResultsStep, Unseen
  <2>2. CASE \E r \in Runs : Starts(j, r)
    <3>1. PICK r \in Runs : Starts(j, r)
      BY <2>2
    <3>2. Charged(j)' \subseteq Charged(j) \cup {r}
      BY <2>1, <3>1 DEF Charged, Starts
    <3>3. /\ IsFiniteSet(Charged(j) \cup {r})
          /\ Cardinality(Charged(j) \cup {r}) <= jobs[j].attempts + 1
      BY <1>1, ChargeOne DEF JobOK
    <3>4. /\ Cardinality(Charged(j)') <= Cardinality(Charged(j) \cup {r})
          /\ Cardinality(Charged(j)') \in Nat
          /\ Cardinality(Charged(j) \cup {r}) \in Nat
      BY <3>2, <3>3, FS_Subset, FS_CardinalityType
    <3>5. jobs[j].status # "succeeded"
      BY <3>1 DEF Starts, Claimable
    <3>6. Cardinality(Charged(j)') <= jobs'[j].attempts
      BY <1>1, <3>1, <3>3, <3>4 DEF Starts
    <3>7. QED
      BY <1>1, <2>1, <3>1, <3>5, <3>6 DEF JobOK, Starts
  <2>3. CASE ~\E r \in Runs : Starts(j, r)
    <3>1. Charged(j)' = Charged(j)
      BY <2>1, <2>3 DEF Charged, SeenOf, Ends
    <3>2. QED
      BY <1>1, <2>1, <2>3, <3>1 DEF JobOK, SeenOf, Ends
  <2>4. QED
    BY <2>2, <2>3
<1>4. QED
  BY <1>2, <1>3

-----------------------------------------------------------------------------
(* Each step of the worker *)

\* The worker goes on after its claim without touching rows, to a point where
\* it holds no copy.
LEMMA PlainStep ==
  ASSUME TypeOK, NEW w \in Workers, CopyOK(w), Counting(w), UNCHANGED jobs,
         NEW p, NEW c, Moves(w, p, c),
         p \notin {"idle"} \cup ClaimingPcs \cup CopyingPcs
  PROVE  CopyOK(w)'
  BY DEF CopyOK, Counting, Moves, ClaimingPcs, CopyingPcs

LEMMA UnchangedSeen ==
  ASSUME UNCHANGED <<jobs, results>>
  PROVE  SeenStep /\ ResultsStep
  BY DEF SeenStep, ResultsStep, Unseen

\* What is to be shown of a step of w.
StepOK(w) ==
    /\ workers'[w].pc # "idle" => CopyOK(w)'
    /\ SeenStep /\ ResultsStep

LEMMA WorkerStepOK ==
  ASSUME TypeOK, TypeOK', NEW w \in Workers,
         workers[w].pc # "idle" => CopyOK(w), \A j \in Jobs : JobOK(j),
         \/ Poll(w) \/ ClaimRead(w) \/ ClaimWrite(w) \/ Attempt(w)
         \/ Raise(w) \/ Crash(w)
  PROVE  StepOK(w)
<1> DEFINE J == workers[w].job
           R == workers[w].run
           row == jobs[workers[w].job]
<1> USE DEF At
<1>t. workers[w].pc # "idle" =>
         J \in Jobs /\ R \in Runs /\ row \in Row /\ workers[w].row \in Row
  BY DEF TypeOK, Memory
<1>d. ASSUME Drop(w), UNCHANGED <<jobs, results>> PROVE StepOK(w)
  BY <1>d, DropQuits, UnchangedSeen DEF StepOK, Quits, Idle
<1>p. ASSUME Counting(w), UNCHANGED <<jobs, results>>,
             NEW p, NEW c, Moves(w, p, c),
             p \notin {"idle"} \cup ClaimingPcs \cup CopyingPcs
      PROVE  StepOK(w)
  BY <1>p, PlainStep, UnchangedSeen DEF StepOK, Counting
<1>1. CASE Poll(w)
  <2>1. PICK j \in Jobs, r \in Runs \ UsedRuns :
          workers' = [workers EXCEPT ![w] =
             [Idle EXCEPT !.pc = "claimRead", !.job = j, !.run = r]]
    BY <1>1 DEF Poll
  <2>2. workers'[w].pc = "claimRead" /\ workers'[w].run = r
    BY <2>1 DEF TypeOK, Idle
  <2>3. UNCHANGED <<jobs, results>>
    BY <1>1 DEF Poll, SheetsUnchanged
  <2>4. FreshRun(r)
    BY UnusedRun DEF FreshRun
  <2>5. CopyOK(w)'
    BY <2>2, <2>3, <2>4 DEF CopyOK, FreshRun, ClaimingPcs
  <2>6. QED
    BY <2>3, <2>5, UnchangedSeen DEF StepOK
<1>2. CASE ClaimRead(w)
  <2>1. workers[w].pc = "claimRead" /\ UNCHANGED <<jobs, results>>
    BY <1>2 DEF ClaimRead, SheetsUnchanged
  <2>2. CASE Claimable(row) /\ Hold(w, "claimWrite", Claimed(row, w, R))
    <3>1. /\ workers'[w].pc = "claimWrite" /\ workers'[w].job = J
          /\ workers'[w].run = R /\ workers'[w].row = Claimed(row, w, R)
      BY <2>2, HoldMoves DEF Moves
    <3>2. ClaimCopy(Claimed(row, w, R), row, R)
      BY <1>t, <2>1, <2>2 DEF ClaimCopy, Claimed, Row
    <3>3. FreshRun(workers[w].run)'
      BY <2>1, <3>1 DEF CopyOK, FreshRun, ClaimingPcs
    <3>4. ClaimCopy(workers[w].row, jobs[workers[w].job], workers[w].run)'
      BY <2>1, <3>1, <3>2 DEF ClaimCopy, Claimable
    <3>5. CopyOK(w)'
      BY <3>1, <3>3, <3>4 DEF CopyOK, ClaimingPcs
    <3>6. QED
      BY <2>1, <3>5, UnchangedSeen DEF StepOK
  <2>3. QED
    BY <1>2, <1>d, <2>1, <2>2 DEF ClaimRead
<1>3. CASE ClaimWrite(w)
  <2>1. /\ workers[w].pc = "claimWrite" /\ UNCHANGED results
        /\ jobs' = [jobs EXCEPT ![J] = workers[w].row]
    BY <1>3 DEF ClaimWrite, Overwrite
  <2>2. FreshRun(R) /\ ClaimCopy(workers[w].row, row, R)
    BY <2>1 DEF CopyOK, ClaimingPcs
  <2>3. /\ jobs'[J] = workers[w].row
        /\ \A i \in Jobs \ {J} : jobs'[i] = jobs[i]
    BY <1>t, <2>1 DEF TypeOK
  <2>4. workers'[w].pc = "claimConfirm" /\ workers'[w].job = J
        /\ workers'[w].run = R
    BY <1>3, GotoMoves DEF ClaimWrite, Moves
  <2>5. CopyOK(w)'
    BY <2>2, <2>3, <2>4 DEF CopyOK, ClaimingPcs, ClaimCopy
  <2>6. Starts(J, R)
    BY <1>t, <2>1, <2>2, <2>3 DEF Starts, ClaimCopy
  <2>7. SeenStep
    BY <1>t, <2>1, <2>3, <2>6 DEF SeenStep, SeenOf
  <2>8. QED
    BY <2>1, <2>5, <2>7 DEF StepOK, ResultsStep
<1>4. CASE ClaimConfirm(w)
  <2>1. workers[w].pc = "claimConfirm" /\ UNCHANGED <<jobs, results>>
    BY <1>4 DEF ClaimConfirm, SheetsUnchanged
  <2>2. Counting(w)
    BY <2>1 DEF Counting, ClaimingPcs
  <2>3. CASE Hold(w, "gateStart", QueuedRow)
    BY <1>p, <2>1, <2>2, <2>3, HoldMoves DEF ClaimingPcs, CopyingPcs
  <2>4. QED
    BY <1>4, <1>d, <2>1, <2>3 DEF ClaimConfirm
<1>g. ASSUME Counting(w), UNCHANGED <<jobs, results>>, NEW p, Goto(w, p),
             p \notin {"idle"} \cup ClaimingPcs \cup CopyingPcs
      PROVE  StepOK(w)
  BY <1>g, <1>p, GotoMoves
<1>h. ASSUME Counting(w), UNCHANGED <<jobs, results>>, NEW c, Handle(w, c)
      PROVE  StepOK(w)
  BY <1>h, <1>p, HandleMoves DEF ClaimingPcs, CopyingPcs
<1>s. SheetsUnchanged => UNCHANGED <<jobs, results>>
  BY DEF SheetsUnchanged
<1>c. /\ \A x : x \in ClaimingPcs <=> x \in {"claimRead", "claimWrite"}
      /\ \A x : x \in CopyingPcs <=>
            x \in {"startWrite", "failRead", "failWrite", "finalWrite"}
      /\ Counting(w) <=> workers[w].pc \notin {"idle", "claimRead", "claimWrite"}
  BY DEF ClaimingPcs, CopyingPcs, Counting
<1>5. CASE Gate(w)
  <2> DEFINE g == workers[w].pc
  <2>1. g \in Gates /\ Counting(w) /\ UNCHANGED <<jobs, results>>
    BY <1>5, <1>s, <1>c DEF Gate, Gates
  <2>2. AfterGate(g) \notin {"idle"} \cup ClaimingPcs \cup CopyingPcs
    BY <1>c, <2>1 DEF AfterGate, Gates
  <2>3. CASE Goto(w, AfterGate(g))
    BY <2>1, <2>2, <2>3, <1>g
  <2>4. CASE Goto(w, "gateFinal")
    BY <2>1, <2>4, <1>g, <1>c
  <2>5. QED
    BY <1>5, <2>1, <2>3, <2>4, <1>d DEF Gate
<1>6. CASE StartRead(w)
  <2>1. /\ workers[w].pc = "startRead" /\ UNCHANGED <<jobs, results>>
        /\ Hold(w, "startWrite", row)
    BY <1>6, <1>s DEF StartRead
  <2>2. /\ workers'[w].pc = "startWrite" /\ workers'[w].job = J
        /\ workers'[w].run = R /\ workers'[w].row = row
    BY <2>1, HoldMoves DEF Moves
  <2>3. row.status = "running" /\ row.lastRun = R
    BY <1>c, <2>1 DEF CopyOK
  <2>4. CopyOK(w)'
    BY <1>c, <2>1, <2>2, <2>3 DEF CopyOK, SameAttempt
  <2>5. QED
    BY <2>1, <2>4, UnchangedSeen DEF StepOK
<1>7. CASE StartWrite(w)
  <2>1. /\ workers[w].pc = "startWrite" /\ UNCHANGED results
        /\ jobs' = [jobs EXCEPT ![J] = workers[w].row]
        /\ Hold(w, "gateStarted", QueuedRow)
    BY <1>7 DEF StartWrite, Overwrite
  <2>2. /\ jobs'[J] = workers[w].row
        /\ \A i \in Jobs \ {J} : jobs'[i] = jobs[i]
    BY <1>t, <2>1 DEF TypeOK
  <2>3. /\ SameAttempt(workers[w].row, row)
        /\ workers[w].row.status = row.status
        /\ workers[w].row.authority = row.authority
        /\ row.status = "running" /\ row.lastRun = R
    BY <1>c, <2>1 DEF CopyOK
  <2>4. /\ workers'[w].pc = "gateStarted" /\ workers'[w].job = J
        /\ workers'[w].run = R
    BY <2>1, HoldMoves DEF Moves
  <2>5. CopyOK(w)'
    BY <1>c, <2>2, <2>3, <2>4 DEF CopyOK, SameAttempt
  <2>6. \A j \in Jobs : Unseen(j)
    BY <2>2, <2>3 DEF Unseen, SameAttempt
  <2>7. QED
    BY <2>1, <2>5, <2>6 DEF StepOK, SeenStep, ResultsStep
<1>8. CASE Parse(w)
  BY <1>8, <1>c, <1>g, <1>h, <1>s DEF Parse
<1>9. CASE CheckResult(w)
  BY <1>9, <1>c, <1>g, <1>h, <1>s DEF CheckResult
<1>10. CASE AppendResult(w)
  <2>1. /\ workers[w].pc = "appendResult" /\ UNCHANGED jobs /\ Counting(w)
        /\ \/ UNCHANGED results
           \/ results' = [results EXCEPT ![J] = @ \cup {R}]
    BY <1>10, <1>c DEF AppendResult
  <2>2. \E c : \E p \in {"gateResolve", "gateError"} : Moves(w, p, c)
    BY <1>10, GotoMoves, HandleMoves DEF AppendResult
  <2>3. CopyOK(w)'
    BY <1>c, <2>1, <2>2, PlainStep
  <2>4. row.lastRun = R
    BY <1>c, <2>1 DEF CopyOK
  <2>5. \A j \in Jobs : Unseen(j)
    BY <2>1 DEF Unseen
  <2>6. ResultsStep
    BY <1>t, <2>1, <2>4, <2>5 DEF ResultsStep, TypeOK
  <2>7. QED
    BY <2>3, <2>5, <2>6 DEF StepOK, SeenStep
<1>11. CASE Resolve(w)
  BY <1>11, <1>c, <1>g, <1>h, <1>s DEF Resolve
<1>12. CASE EnrichRead(w)
  BY <1>12, <1>c, <1>g, <1>h, <1>s DEF EnrichRead
<1>13. CASE EnrichWrite(w)
  BY <1>13, <1>c, <1>g, <1>h DEF EnrichWrite
<1>14. CASE AppendError(w)
  BY <1>14, <1>c, <1>g DEF AppendError
<1>15. CASE FailGet(w)
  <2> DEFINE decided == [row EXCEPT !.delay = IF Spent(row) THEN 0
                                              ELSE RetryDelay(row.attempts),
                                    !.error = workers[w].code]
  <2>1. /\ workers[w].pc = "failGet" /\ UNCHANGED <<jobs, results>>
        /\ Hold(w, "failRead", decided)
    BY <1>15, <1>s DEF FailGet
  <2>2. decided.attempts = row.attempts
    BY <1>t, <2>1 DEF Row
  <2> HIDE DEF decided
  <2>3. /\ workers'[w].pc = "failRead" /\ workers'[w].job = J
        /\ workers'[w].run = R /\ workers'[w].row = decided
    BY <2>1, HoldMoves DEF Moves
  <2>4. CopyOK(w)'
    BY <1>c, <2>1, <2>2, <2>3 DEF CopyOK
  <2>5. QED
    BY <2>1, <2>4, UnchangedSeen DEF StepOK
<1>16. CASE FailRead(w)
  <2> DEFINE released == Released(row, workers[w].row)
  <2>1. workers[w].pc = "failRead" /\ UNCHANGED <<jobs, results>>
    BY <1>16, <1>s DEF FailRead
  <2>2. CASE Hold(w, "failWrite", released)
    <3>1. workers[w].row.attempts = row.attempts /\ row.attempts \in 0..MaxAttempts
      BY <1>t, <2>1 DEF CopyOK, Row
    <3>2. Spent(workers[w].row) <=> row.attempts = MaxAttempts
      BY <3>1 DEF Spent
    <3>3. /\ released.attempts = row.attempts
          /\ released.lastRun = row.lastRun
          /\ released.authority = row.authority
          /\ released.status = IF row.attempts = MaxAttempts THEN "failed"
                               ELSE "retry_scheduled"
      BY <1>t, <2>1, <3>2 DEF Released, Row
    <3> HIDE DEF released
    <3>4. /\ workers'[w].pc = "failWrite" /\ workers'[w].job = J
          /\ workers'[w].run = R /\ workers'[w].row = released
      BY <2>2, HoldMoves DEF Moves
    <3>5. CopyOK(w)'
      BY <1>c, <2>1, <3>3, <3>4 DEF CopyOK, SameAttempt
    <3>6. QED
      BY <2>1, <3>5, UnchangedSeen DEF StepOK
  <2>3. QED
    BY <1>16, <1>d, <2>1, <2>2 DEF FailRead
<1>17. CASE FailWrite(w)
  <2>1. /\ workers[w].pc = "failWrite" /\ UNCHANGED results /\ Drop(w)
        /\ jobs' = [jobs EXCEPT ![J] = workers[w].row]
    BY <1>17 DEF FailWrite, Overwrite
  <2>2. /\ jobs'[J] = workers[w].row
        /\ \A i \in Jobs \ {J} : jobs'[i] = jobs[i]
    BY <1>t, <2>1 DEF TypeOK
  <2>3. /\ SameAttempt(workers[w].row, row)
        /\ workers[w].row.authority = row.authority
        /\ workers[w].row.status = IF row.attempts = MaxAttempts THEN "failed"
                                   ELSE "retry_scheduled"
        /\ row.status = "running"
    BY <1>c, <2>1 DEF CopyOK
  <2>4. row.attempts \in 0..MaxAttempts
    BY <1>t, <2>1 DEF Row
  <2>5. SeenOf(J)
    BY <2>2, <2>3, <2>4 DEF SeenOf, Ends, SameAttempt
  <2>6. SeenStep
    BY <1>t, <2>1, <2>2, <2>5 DEF SeenStep
  <2>7. QED
    BY <2>1, <2>6, DropQuits DEF StepOK, ResultsStep, Quits, Idle
<1>18. CASE FinalGet(w)
  BY <1>18, <1>c, <1>d, <1>g, <1>s DEF FinalGet
<1>19. CASE FinalRead(w)
  <2> DEFINE final == [row EXCEPT !.status = "succeeded", !.authority = R,
                                  !.error = "none"]
  <2>1. /\ workers[w].pc = "finalRead" /\ UNCHANGED <<jobs, results>>
        /\ Hold(w, "finalWrite", final)
    BY <1>19, <1>s DEF FinalRead
  <2>2. /\ final.attempts = row.attempts /\ final.lastRun = row.lastRun
        /\ final.status = "succeeded" /\ final.authority = R
    BY <1>t, <2>1 DEF Row
  <2> HIDE DEF final
  <2>3. /\ workers'[w].pc = "finalWrite" /\ workers'[w].job = J
        /\ workers'[w].run = R /\ workers'[w].row = final
    BY <2>1, HoldMoves DEF Moves
  <2>4. CopyOK(w)'
    BY <1>c, <2>1, <2>2, <2>3 DEF CopyOK, SameAttempt
  <2>5. QED
    BY <2>1, <2>4, UnchangedSeen DEF StepOK
<1>20. CASE FinalWrite(w)
  <2>1. /\ workers[w].pc = "finalWrite" /\ UNCHANGED results /\ Drop(w)
        /\ jobs' = [jobs EXCEPT ![J] = workers[w].row]
    BY <1>20 DEF FinalWrite, Overwrite
  <2>2. /\ jobs'[J] = workers[w].row
        /\ \A i \in Jobs \ {J} : jobs'[i] = jobs[i]
    BY <1>t, <2>1 DEF TypeOK
  <2>3. /\ SameAttempt(workers[w].row, row)
        /\ workers[w].row.authority = row.lastRun
        /\ workers[w].row.status = "succeeded"
        /\ row.status = "running"
    BY <1>c, <2>1 DEF CopyOK
  <2>4. SeenOf(J)
    BY <2>2, <2>3 DEF SeenOf, Ends, SameAttempt
  <2>5. SeenStep
    BY <1>t, <2>1, <2>2, <2>4 DEF SeenStep
  <2>6. QED
    BY <2>1, <2>5, DropQuits DEF StepOK, ResultsStep, Quits, Idle
<1>21. CASE Raise(w) \/ Crash(w)
  BY <1>21, <1>d, <1>s DEF Raise, Crash
<1>22. QED
  BY <1>1, <1>2, <1>3, <1>4, <1>5, <1>6, <1>7, <1>8, <1>9, <1>10, <1>11,
     <1>12, <1>13, <1>14, <1>15, <1>16, <1>17, <1>18, <1>19, <1>20, <1>21
     DEF Attempt

\* Ageing changes nothing readers see, and what is due stays due.
LEMMA AgedSeen ==
  ASSUME NEW r \in Row
  PROVE  /\ Aged(r).status = r.status /\ Aged(r).attempts = r.attempts
         /\ Aged(r).lastRun = r.lastRun /\ Aged(r).authority = r.authority
         /\ Claimable(r) => Claimable(Aged(r))
  BY DEF Aged, Row, Claimable, Sooner

\* Time ages the row and its copy alike.
LEMMA TickOK ==
  ASSUME TypeOK, Tick, NEW w \in Workers, workers[w].pc # "idle", CopyOK(w)
  PROVE  CopyOK(w)'
<1>1. ASSUME NEW r \in Row
      PROVE  /\ Aged(r).status = r.status /\ Aged(r).attempts = r.attempts
             /\ Aged(r).lastRun = r.lastRun /\ Aged(r).authority = r.authority
             /\ Claimable(r) => Claimable(Aged(r))
  BY AgedSeen
<1>2. /\ workers[w].job \in Jobs /\ workers[w].row \in Row
      /\ \A j \in Jobs : jobs[j] \in Row /\ jobs'[j] = Aged(jobs[j])
      /\ UNCHANGED results
  BY DEF Tick, TypeOK, Memory
<1>3. /\ workers'[w].pc = workers[w].pc /\ workers'[w].job = workers[w].job
      /\ workers'[w].run = workers[w].run
      /\ workers'[w].row = Aged(workers[w].row)
  BY DEF Tick, TypeOK, Memory
<1>4. FreshRun(workers[w].run) => FreshRun(workers[w].run)'
  BY <1>1, <1>2, <1>3 DEF FreshRun
<1>5. CopyOK(w)'
  BY <1>1, <1>2, <1>3, <1>4 DEF CopyOK, ClaimCopy, SameAttempt
<1>6. QED
  BY <1>5

LEMMA SoloStep ==
  ASSUME OneWorker, TypeOK, TypeOK', SoloInv, [Next]_vars
  PROVE  SoloInv' /\ SeenStep /\ ResultsStep
<1>1. /\ \A w \in Workers : workers[w].pc # "idle" => CopyOK(w)
      /\ \A j \in Jobs : JobOK(j)
  BY DEF SoloInv
<1>2. ASSUME NEW w \in Workers,
             \/ Poll(w) \/ ClaimRead(w) \/ ClaimWrite(w) \/ Attempt(w)
             \/ Raise(w) \/ Crash(w)
      PROVE  SoloInv' /\ SeenStep /\ ResultsStep
  <2>1. StepOK(w)
    BY <1>1, <1>2, WorkerStepOK
  <2>2. \A j \in Jobs : JobOK(j)'
    BY <1>1, <2>1, JobOKStep DEF StepOK
  <2>3. \A v \in Workers : workers'[v].pc # "idle" => CopyOK(v)'
    BY <2>1 DEF StepOK, OneWorker
  <2>4. QED
    BY <2>1, <2>2, <2>3 DEF SoloInv, StepOK
<1>3. CASE Tick
  <2>1. \A w \in Workers : workers'[w].pc # "idle" => CopyOK(w)'
    <3>1. \A w \in Workers : workers'[w].pc = workers[w].pc
      BY <1>3 DEF Tick, TypeOK, Memory
    <3>2. QED
      BY <1>1, <1>3, <3>1, TickOK
  <2>2. \A j \in Jobs : Unseen(j)
    <3>1. \A j \in Jobs : jobs[j] \in Row /\ jobs'[j] = Aged(jobs[j])
      BY <1>3 DEF Tick, TypeOK
    <3>2. QED
      BY <3>1, AgedSeen DEF Unseen
  <2>3. SeenStep /\ ResultsStep
    BY <1>3, <2>2 DEF SeenStep, ResultsStep, Tick
  <2>4. \A j \in Jobs : JobOK(j)'
    BY <1>1, <2>3, JobOKStep
  <2>5. QED
    BY <2>1, <2>3, <2>4 DEF SoloInv
<1>4. CASE UNCHANGED vars
  <2>1. UNCHANGED <<jobs, results, workers>>
    BY <1>4 DEF vars
  <2>2. \A w \in Workers : workers'[w].pc # "idle" => CopyOK(w)'
    BY <1>1, <2>1 DEF CopyOK, FreshRun, ClaimCopy, SameAttempt, Claimable
  <2>3. SeenStep /\ ResultsStep
    BY <2>1, UnchangedSeen
  <2>4. \A j \in Jobs : JobOK(j)'
    BY <1>1, <2>3, JobOKStep
  <2>5. QED
    BY <2>2, <2>3, <2>4 DEF SoloInv
<1>5. QED
  BY <1>2, <1>3, <1>4 DEF Next

LEMMA SoloAlways == ASSUME OneWorker PROVE Spec => []SoloInv
<1>1. Init => SoloInv
  BY InitSolo
<1>2. TypeOK /\ TypeOK' /\ SoloInv /\ [Next]_vars => SoloInv'
  BY SoloStep
<1>3. QED
  BY <1>1, <1>2, TypeCorrect, PTL DEF Spec

-----------------------------------------------------------------------------
(* The theorems *)

\* However often attempts crash, time out or are retried, a job never has more
\* result rows than counted attempts, and is reported failed only with its
\* budget spent and no authority.
THEOREM BudgetKept == ASSUME OneWorker PROVE Spec => []AttemptBudget
<1>1. TypeOK /\ SoloInv => AttemptBudget
  <2> SUFFICES ASSUME TypeOK, SoloInv, NEW j \in Jobs
               PROVE  /\ Cardinality(results[j]) <= jobs[j].attempts
                      /\ jobs[j].status = "failed" =>
                            /\ jobs[j].attempts = MaxAttempts
                            /\ jobs[j].authority = NoRun
    BY DEF AttemptBudget
  <2>1. JobOK(j) /\ jobs[j].attempts \in Nat
    BY DEF SoloInv, TypeOK, Row
  <2>2. IsFiniteSet({jobs[j].lastRun} \ {NoRun})
    BY FS_Singleton, FS_Subset
  <2>3. IsFiniteSet(Charged(j)) /\ results[j] \subseteq Charged(j)
    BY <2>1, <2>2, FS_Union DEF JobOK, Charged
  <2>4. /\ Cardinality(results[j]) <= Cardinality(Charged(j))
        /\ Cardinality(results[j]) \in Nat /\ Cardinality(Charged(j)) \in Nat
    BY <2>3, FS_Subset, FS_CardinalityType
  <2>5. QED
    BY <2>1, <2>4 DEF JobOK
<1>2. QED
  BY <1>1, SoloAlways, TypeCorrect, PTL

\* No write an earlier attempt still had to make reopens, re-counts or
\* re-points a job that is succeeded or failed.
THEOREM TerminalStays == ASSUME OneWorker PROVE Spec => TerminalIsFinal
<1> DEFINE Kept == \A j \in Jobs : Terminal(j) =>
              /\ jobs'[j].status = jobs[j].status
              /\ jobs'[j].authority = jobs[j].authority
              /\ jobs'[j].attempts = jobs[j].attempts
<1>1. SeenStep => Kept
  BY DEF SeenStep, SeenOf, Starts, Ends, Unseen, Terminal, Claimable
<1>2. TypeOK /\ TypeOK' /\ SoloInv /\ [Next]_vars => [Kept]_jobs
  BY <1>1, SoloStep
<1> HIDE DEF Kept
<1>3. Spec => [][Kept]_jobs
  BY <1>2, SoloAlways, TypeCorrect, PTL DEF Spec
<1>4. QED
  BY <1>3 DEF TerminalIsFinal, Kept

\* A running row gets a new run only once its lease has expired, and each new
\* run is one more counted attempt.
THEOREM LeaseNotStolen == ASSUME OneWorker PROVE Spec => NoStolenLease
<1> DEFINE Paid == \A j \in Jobs : jobs'[j].lastRun # jobs[j].lastRun =>
              /\ jobs[j].status = "running" => jobs[j].lease = 0
              /\ jobs'[j].attempts = jobs[j].attempts + 1
<1>1. SeenStep => Paid
  BY DEF SeenStep, SeenOf, Starts, Ends, Unseen, Claimable
<1>2. TypeOK /\ TypeOK' /\ SoloInv /\ [Next]_vars => [Paid]_jobs
  BY <1>1, SoloStep
<1> HIDE DEF Paid
<1>3. Spec => [][Paid]_jobs
  BY <1>2, SoloAlways, TypeCorrect, PTL DEF Spec
<1>4. QED
  BY <1>3 DEF NoStolenLease, Paid

-----------------------------------------------------------------------------
(* The worker implements the job lifecycle *)

LEMMA Phases ==
  /\ PhaseOf("queued") = "waiting" /\ PhaseOf("retry_scheduled") = "waiting"
  /\ PhaseOf("running") = "attempting"
  /\ PhaseOf("succeeded") = "succeeded" /\ PhaseOf("failed") = "failed"
<1>1. PhaseOf("queued") = "waiting" /\ PhaseOf("retry_scheduled") = "waiting"
  BY DEF PhaseOf
<1>2. PhaseOf("running") = "attempting"
  BY DEF PhaseOf
<1>3. PhaseOf("succeeded") = "succeeded" /\ PhaseOf("failed") = "failed"
  BY DEF PhaseOf
<1>4. QED
  BY <1>1, <1>2, <1>3

LEMMA InitLifecycle == Init => Lifecycle!Init
  BY Phases DEF Init, Lifecycle!Init, QueuedRow

LEMMA StepLifecycle ==
  ASSUME TypeOK, TypeOK', SeenStep
  PROVE  [Lifecycle!Next]_(Lifecycle!vars)
<1> DEFINE phase    == [j \in Jobs |-> PhaseOf(jobs[j].status)]
           attempts == [j \in Jobs |-> jobs[j].attempts]
           current  == [j \in Jobs |-> jobs[j].lastRun]
           chosen   == [j \in Jobs |-> jobs[j].authority]
<1>1. CASE \A j \in Jobs : Unseen(j)
  <2>1. phase' = phase /\ attempts' = attempts
    BY <1>1 DEF Unseen
  <2>2. current' = current /\ chosen' = chosen
    BY <1>1 DEF Unseen
  <2>3. QED
    BY <2>1, <2>2 DEF Lifecycle!vars
<1>2. ASSUME NEW j \in Jobs, \A i \in Jobs \ {j} : jobs'[i] = jobs[i], SeenOf(j)
      PROVE  Lifecycle!Next
  <2>1. ASSUME NEW p, PhaseOf(jobs'[j].status) = p
        PROVE  phase' = [phase EXCEPT ![j] = p]
    BY <1>2, <2>1
  <2>2. ASSUME NEW n, jobs'[j].attempts = n
        PROVE  attempts' = [attempts EXCEPT ![j] = n]
    BY <1>2, <2>2
  <2>3. ASSUME NEW r, jobs'[j].lastRun = r
        PROVE  current' = [current EXCEPT ![j] = r]
    BY <1>2, <2>3
  <2>4. ASSUME NEW r, jobs'[j].authority = r
        PROVE  chosen' = [chosen EXCEPT ![j] = r]
    BY <1>2, <2>4
  <2>5. /\ jobs'[j].attempts = jobs[j].attempts => attempts' = attempts
        /\ jobs'[j].lastRun = jobs[j].lastRun => current' = current
        /\ jobs'[j].authority = jobs[j].authority => chosen' = chosen
    BY <1>2
  <2>6. ASSUME NEW r \in Runs, Starts(j, r)
        PROVE  Lifecycle!Start(j, r)
    <3>1. phase[j] \in {"waiting", "attempting"}
      BY <2>6, Phases DEF Starts, Claimable
    <3>2. phase' = [phase EXCEPT ![j] = "attempting"]
      BY <2>1, <2>6, Phases DEF Starts
    <3>3. attempts' = [attempts EXCEPT ![j] = attempts[j] + 1]
      BY <2>2, <2>6 DEF Starts
    <3>4. current' = [current EXCEPT ![j] = r] /\ chosen' = chosen
      BY <2>3, <2>5, <2>6 DEF Starts
    <3>5. \A i \in Jobs : r # current[i] /\ r # chosen[i]
      BY <2>6 DEF Starts, FreshRun
    <3>6. attempts[j] < MaxAttempts
      BY <2>6 DEF Starts, Claimable
    <3>7. QED
      BY <3>1, <3>2, <3>3, <3>4, <3>5, <3>6 DEF Lifecycle!Start
  <2>7. ASSUME NEW status, NEW authority, Ends(j, status, authority)
        PROVE  /\ phase[j] = "attempting" /\ attempts' = attempts
               /\ current' = current
               /\ phase' = [phase EXCEPT ![j] = PhaseOf(status)]
               /\ chosen' = [chosen EXCEPT ![j] = authority]
               /\ authority = jobs[j].authority => chosen' = chosen
    BY <2>1, <2>4, <2>5, <2>7, Phases DEF Ends
  <2>8. ASSUME jobs[j].attempts < MaxAttempts,
               Ends(j, "retry_scheduled", jobs[j].authority)
        PROVE  Lifecycle!Retry(j)
    <3>1. /\ phase[j] = "attempting" /\ attempts' = attempts
          /\ current' = current /\ chosen' = chosen
          /\ phase' = [phase EXCEPT ![j] = PhaseOf("retry_scheduled")]
      BY <2>7, <2>8
    <3>2. attempts[j] < MaxAttempts
      BY <2>8
    <3>3. QED
      BY <3>1, <3>2, Phases DEF Lifecycle!Retry
  <2>9. ASSUME jobs[j].attempts = MaxAttempts,
               Ends(j, "failed", jobs[j].authority)
        PROVE  Lifecycle!Fail(j)
    BY <2>7, <2>9, Phases DEF Lifecycle!Fail
  <2>10. ASSUME Ends(j, "succeeded", jobs[j].lastRun)
         PROVE  Lifecycle!Succeed(j)
    BY <2>7, <2>10, Phases DEF Lifecycle!Succeed
  <2>11. QED
    BY <1>2, <2>6, <2>8, <2>9, <2>10 DEF SeenOf, Lifecycle!Next
<1>3. QED
  BY <1>1, <1>2 DEF SeenStep

\* The detailed worker, with its copies, leases, failing calls and crashes,
\* implements the abstract lifecycle its readers rely on.
THEOREM LifecycleImplemented == ASSUME OneWorker PROVE Spec => ImplementsLifecycle
<1>1. Init => Lifecycle!Init
  BY InitLifecycle
<1>2. TypeOK /\ TypeOK' /\ SoloInv /\ [Next]_vars
        => [Lifecycle!Next]_(Lifecycle!vars)
  BY SoloStep, StepLifecycle
<1>3. Spec => Lifecycle!Spec
  BY <1>1, <1>2, SoloAlways, TypeCorrect, PTL DEF Spec, Lifecycle!Spec
<1>4. QED
  BY <1>3 DEF ImplementsLifecycle
=================================================================================
