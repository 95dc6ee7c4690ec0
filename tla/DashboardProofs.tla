-------------------------- MODULE DashboardProofs --------------------------
(***************************************************************************)
(* What a reader of several sheets is shown, for every number of jobs and  *)
(* runs, every attempt budget, lease and delay, and every set of faults.   *)
(*                                                                         *)
(* For any number of workers, the stores of one moment never contradict    *)
(* each other, a torn read only does if a row came between its calls, and  *)
(* parsed output stays shown.  With one worker, the order the reader sees  *)
(* is that of the attempts, so that a job that ended is shown as what it   *)
(* is.                                                                     *)
(***************************************************************************)
EXTENDS SnapshotProofs, SingleWorkerProofs, SequenceTheorems

-----------------------------------------------------------------------------
(* Rows and their selection *)

\* The row the job layer reads is none or well formed.
LEMMA JobRowType ==
    ASSUME TypeOK, NEW j \in Jobs
    PROVE  /\ JobRow(j) = NoRow \/ JobRow(j) \in JobCells
           /\ JobRow(j) = NoRow => intake[j] # "queued"
           /\ intake[j] = "queued" =>
                 /\ JobRow(j) # NoRow
                 /\ JobRow(j).status = jobs[j].status
                 /\ JobRow(j).authority = jobs[j].authority
                 /\ JobRow(j).counted = TRUE
                 /\ JobRow(j).lease \in {"live", "expired"}
<1>1. CASE intake[j] # "queued"
  BY <1>1 DEF JobRow
<1>2. CASE intake[j] = "queued"
  <2>. DEFINE row == [status |-> jobs[j].status, authority |-> jobs[j].authority,
                      run |-> jobs[j].lastRun, counted |-> TRUE,
                      lease |-> IF jobs[j].lease > 0 THEN "live" ELSE "expired"]
  <2>1. JobRow(j) = row
    BY <1>2, Zenon DEF JobRow
  <2>2. /\ jobs[j].status \in Statuses
        /\ jobs[j].authority \in Runs \cup {NoRun}
        /\ jobs[j].lastRun \in Runs \cup {NoRun}
    BY DEF TypeOK, Row
  <2>3. row \in JobCells
    BY <2>2 DEF JobCells
  <2>4. row # NoRow
    BY <2>3, NoRowAssumption
  <2>. QED
    BY <1>2, <2>1, <2>3, <2>4
<1>. QED
  BY <1>1, <1>2

\* With rows for every run of the job, an authority that is backed selects one
\* of them, and without an authority any row at all is selected.
LEMMA SelectionFinds ==
    ASSUME NEW e, e.results \in Seq(ResultCells),
           \/ /\ Authority(e) # NoRun
              /\ \E i \in 1..Len(e.results) : e.results[i].run = Authority(e)
           \/ /\ Authority(e) = NoRun
              /\ JobStatus(e) # "succeeded"
              /\ e.results # <<>>
    PROVE  HasParserRow(e)
<1>0. DOMAIN e.results = 1..Len(e.results) /\ Len(e.results) \in Nat
  OBVIOUS
<1>1. CASE Authority(e) # NoRun
  <2>. DEFINE named == {i \in DOMAIN e.results : e.results[i].run = Authority(e)}
              first == CHOOSE i \in named : \A k \in named : i <= k
  <2>1. named # {} /\ named \subseteq Nat
    BY <1>0, <1>1
  <2>2. \E i \in named : \A k \in named : i <= k
    <3>. HIDE DEF named
    <3>. QED
      BY <2>1, FirstPosition
  <2>3. first \in named
    BY <2>2
  <2>4. SelectParserResult(e) = e.results[first]
    BY <1>1, <2>1 DEF SelectParserResult
  <2>5. e.results[first] \in ResultCells
    <3>1. first \in 1..Len(e.results)
      BY <1>0, <2>3
    <3>. HIDE DEF first
    <3>. QED
      BY <3>1
  <2>. QED
    BY <2>4, <2>5, NoRowAssumption DEF HasParserRow
<1>2. CASE Authority(e) = NoRun
  <2>1. SelectParserResult(e) = e.results[Len(e.results)]
    BY <1>2 DEF SelectParserResult
  <2>2. e.results[Len(e.results)] \in ResultCells
    BY <1>0, <1>2
  <2>. QED
    BY <2>1, <2>2, NoRowAssumption DEF HasParserRow
<1>. QED
  BY <1>1, <1>2

\* A record is broken for want of a backed success or of the output its
\* resolver failed on, and for no other reason.
LEMMA UploadedNotBroken ==
    ASSUME NEW e, e.source = TRUE, ResumeState(e) = "uploaded",
           ~UnresolvableSuccess(e),
           LatestErrorCode(e) = "RESOLVER_FAILED" => HasParserRow(e)
    PROVE  Record(e).health \notin {"broken_pipeline", "coordination_only"}
<1>1. CASE HasParserRow(e)
  <2>1. ParserState(e) = "succeeded"
    BY <1>1 DEF ParserState
  <2>2. ResolverState(e) \in {"succeeded", "failed", "not_started"}
    BY <2>1 DEF ResolverState
  <2>. QED
    BY <2>1, <2>2, HealthOfRecord DEF DeriveHealth
<1>2. CASE ~HasParserRow(e)
  <2>1. ParserState(e) \in {"failed", "not_started"}
    BY <1>2 DEF ParserState
  <2>2. ResolverState(e) = IF ParserState(e) = "failed"
                           THEN "skipped_no_parser_output" ELSE "not_started"
    BY <1>2 DEF ResolverState, HasResolverOutput
  <2>. QED
    BY <2>1, <2>2, HealthOfRecord DEF DeriveHealth
<1>. QED
  BY <1>1, <1>2

-----------------------------------------------------------------------------
\* Evidence whose rows come from the sheets, none of them missing, is trusted.
LEMMA CompleteEvidenceTrusted ==
    ASSUME TypeOK, AuthorityBacked, NEW j \in Jobs, NEW e,
           e.source = TRUE, e.resume = "uploaded", e.job = JobRow(j),
           e.results \in Seq(ResultCells), e.errors \in Seq(ErrorWords),
           \A r \in results[j] : \E i \in 1..Len(e.results) : e.results[i].run = r,
           (\E i \in 1..Len(e.errors) : e.errors[i] = "RESOLVER_FAILED")
              => results[j] # {}
    PROVE  Trusted(Record(e))
<1>0. ResumeState(e) = "uploaded"
  BY DEF ResumeState
<1>1. /\ Authority(e) # NoRun => Authority(e) \in results[j]
      /\ JobStatus(e) = "succeeded" => Authority(e) # NoRun
  <2>1. CASE e.job = NoRow
    BY <2>1 DEF Authority, JobStatus
  <2>2. CASE e.job # NoRow
    <3>1. intake[j] = "queued"
      BY <2>2 DEF JobRow
    <3>2. Authority(e) = jobs[j].authority /\ JobStatus(e) = jobs[j].status
      BY <2>2, <3>1, JobRowType DEF Authority, JobStatus
    <3>. QED
      BY <3>2 DEF AuthorityBacked
  <2>. QED
    BY <2>1, <2>2
<1>2. Authority(e) # NoRun => HasParserRow(e)
  BY <1>1, SelectionFinds
<1>3. ~UnresolvableSuccess(e)
  BY <1>1, <1>2 DEF UnresolvableSuccess
<1>4. ASSUME LatestErrorCode(e) = "RESOLVER_FAILED"
      PROVE  HasParserRow(e)
  <2>1. e.errors # <<>> /\ e.errors[Len(e.errors)] = "RESOLVER_FAILED"
    BY <1>4 DEF LatestErrorCode
  <2>2. Len(e.errors) \in 1..Len(e.errors)
    BY <2>1
  <2>3. PICK r \in results[j] : TRUE
    BY <2>1, <2>2
  <2>4. e.results # <<>>
    BY <2>3
  <2>. QED
    BY <1>1, <1>2, <2>4, SelectionFinds
<1>5. Record(e).health \notin {"broken_pipeline", "coordination_only"}
  BY <1>0, <1>3, <1>4, UploadedNotBroken
<1>6. ASSUME Record(e).job # NoRow
      PROVE  Record(e).job.quality = "valid"
  <2>1. Record(e).job = JobLayer(e)
    BY HealthOfRecord
  <2>2. e.job # NoRow
    BY <1>6, <2>1 DEF JobLayer
  <2>3. intake[j] = "queued"
    BY <2>2 DEF JobRow
  <2>4. /\ e.job.status = jobs[j].status
        /\ e.job.counted = TRUE
        /\ e.job.lease \in {"live", "expired"}
    BY <2>3, JobRowType
  <2>5. JobStatus(e) \in JobStatuses
    BY <2>2, <2>4 DEF JobStatus, JobStatuses, TypeOK, Row, Statuses
  <2>6. Stale(e) # "unknown"
    BY <2>4 DEF Stale
  <2>. QED
    BY <1>3, <2>1, <2>2, <2>4, <2>5, <2>6 DEF JobLayer
<1>. QED
  BY <1>5, <1>6 DEF Trusted

-----------------------------------------------------------------------------
(* The inductive invariant *)

\* A resolver error is only there where an output is.
Explained(j, words) ==
    (\E i \in 1..Len(words) : words[i] = "RESOLVER_FAILED") => results[j] # {}

\* The shelf holds every result row, and its errors are explained.
ShelfOK ==
    /\ shelf \in [Jobs -> [results : Seq(Runs), errors : Seq(ErrorWords)]]
    /\ \A j \in Jobs : \A r \in results[j] :
          \E i \in 1..Len(shelf[j].results) : shelf[j].results[i] = r
    /\ \A j \in Jobs : Explained(j, shelf[j].errors)

Reading == [pc : ReaderPcs, filed : SUBSET Jobs, desk : SUBSET Jobs,
            results : [Jobs -> Seq(ResultCells)], errors : [Jobs -> Seq(ErrorWords)]]

\* What the reader holds was on the sheets: result rows only came after it.
Prefix(j) ==
    \A i \in 1..Len(reader.results[j]) :
        /\ i <= Len(shelf[j].results)
        /\ reader.results[j][i].run = shelf[j].results[i]

ReaderOK ==
    /\ reader \in Reading
    /\ \A j \in Jobs : Explained(j, reader.errors[j]) /\ Prefix(j)

\* Only what is filed is reviewed and listed.
DeskOK ==
    /\ intake \in [Jobs -> {"absent", "filed", "queued"}]
    /\ desk \subseteq {j \in Jobs : Filed(j)}
    /\ reader.desk \subseteq desk
    /\ reader.filed \subseteq {j \in Jobs : Filed(j)}

DashboardInv == TypeOK /\ BackedInv /\ ShelfOK /\ ReaderOK /\ DeskOK

LEMMA ErrorCodesAreWords == ErrorCodes \subseteq ErrorWords
  BY DEF ErrorCodes, ErrorWords

LEMMA ExplainedStays ==
    ASSUME NEW j, NEW words, Explained(j, words), results[j] \subseteq results'[j]
    PROVE  (\E i \in 1..Len(words) : words[i] = "RESOLVER_FAILED") => results'[j] # {}
  BY DEF Explained

LEMMA InitDashboardInv == DashboardInit => DashboardInv
<1>. SUFFICES ASSUME DashboardInit PROVE DashboardInv
  OBVIOUS
<1>1. TypeOK /\ BackedInv
  BY InitType, InitBacked DEF DashboardInit
<1>2. ShelfOK
  <2>1. shelf = [j \in Jobs |-> [results |-> <<>>, errors |-> <<>>]]
    BY DEF DashboardInit
  <2>2. shelf \in [Jobs -> [results : Seq(Runs), errors : Seq(ErrorWords)]]
    BY <2>1
  <2>3. \A j \in Jobs : results[j] = {}
    BY DEF DashboardInit, Init
  <2>. QED
    BY <2>1, <2>2, <2>3 DEF ShelfOK, Explained
<1>3. ReaderOK
  BY DEF DashboardInit, NoReading, ReaderOK, Reading, ReaderPcs, Explained, Prefix
<1>4. DeskOK
  BY DEF DashboardInit, NoReading, DeskOK
<1>. QED
  BY <1>1, <1>2, <1>3, <1>4 DEF DashboardInv

-----------------------------------------------------------------------------
(* Steps of the worker *)

\* A step appends at most one result row.
LEMMA NextResults ==
    ASSUME Next
    PROVE  \/ UNCHANGED results
           \/ \E w \in Workers :
                 results' = [results EXCEPT ![workers[w].job] = @ \cup {workers[w].run}]
<1>1. CASE Tick
  BY <1>1 DEF Tick
<1>2. ASSUME NEW w \in Workers, Poll(w) \/ ClaimRead(w) \/ ClaimWrite(w)
      PROVE  UNCHANGED results
  BY <1>2 DEF Poll, ClaimRead, ClaimWrite, SheetsUnchanged, Overwrite
<1>3. ASSUME NEW w \in Workers, Raise(w) \/ Crash(w)
      PROVE  UNCHANGED results
  BY <1>3 DEF Raise, Crash, SheetsUnchanged
<1>4. ASSUME NEW w \in Workers, AppendResult(w)
      PROVE  \/ UNCHANGED results
             \/ results' = [results EXCEPT ![workers[w].job] = @ \cup {workers[w].run}]
  BY <1>4 DEF AppendResult
<1>5. ASSUME NEW w \in Workers, Attempt(w), ~AppendResult(w)
      PROVE  UNCHANGED results
  BY <1>5 DEF Attempt, ClaimConfirm, Gate, StartRead, StartWrite, Parse, CheckResult,
              Resolve, EnrichRead, EnrichWrite, AppendError, FailGet, FailRead,
              FailWrite, FinalGet, FinalRead, FinalWrite, SheetsUnchanged, Overwrite
<1>. QED
  BY <1>1, <1>2, <1>3, <1>4, <1>5 DEF Next

LEMMA ResultsGrow ==
    ASSUME TypeOK, Next, NEW j \in Jobs
    PROVE  /\ results[j] \subseteq results'[j]
           /\ \A r, q \in results'[j] \ results[j] : r = q
<1>1. CASE UNCHANGED results
  BY <1>1
<1>2. ASSUME NEW w \in Workers,
             results' = [results EXCEPT ![workers[w].job] = @ \cup {workers[w].run}]
      PROVE  /\ results[j] \subseteq results'[j]
             /\ \A r, q \in results'[j] \ results[j] : r = q
  BY <1>2 DEF TypeOK
<1>. QED
  BY <1>1, <1>2, NextResults

\* The shelf keeps the order in which rows came, and misses none.
LEMMA ShelvedResults ==
    ASSUME TypeOK, TypeOK', ShelfOK, Next, NEW j \in Jobs
    PROVE  LET s == shelf[j].results
               t == Shelved(j).results
           IN  /\ t \in Seq(Runs)
               /\ Len(s) <= Len(t)
               /\ \A i \in 1..Len(s) : t[i] = s[i]
               /\ \A r \in results'[j] : \E i \in 1..Len(t) : t[i] = r
<1>. DEFINE s == shelf[j].results
            runs == results'[j] \ results[j]
            new == CHOOSE r \in runs : TRUE
            t == Shelved(j).results
<1>1. /\ s \in Seq(Runs)
      /\ \A r \in results[j] : \E i \in 1..Len(s) : s[i] = r
  BY DEF ShelfOK
<1>2. results[j] \subseteq results'[j] /\ \A r, q \in runs : r = q
  BY ResultsGrow
<1>3. CASE runs = {}
  <2>1. t = s
    BY <1>3 DEF Shelved
  <2>2. results'[j] = results[j]
    BY <1>2, <1>3
  <2>. QED
    BY <1>1, <2>1, <2>2
<1>4. CASE runs # {}
  <2>1. t = Append(s, new)
    BY <1>4 DEF Shelved
  <2>2. new \in runs /\ new \in Runs
    BY <1>4 DEF TypeOK
  <2>3. /\ t \in Seq(Runs) /\ Len(t) = Len(s) + 1 /\ Len(s) \in Nat
        /\ \A i \in 1..Len(s) : t[i] = s[i]
        /\ t[Len(t)] = new
    <3>. HIDE DEF t, new, s
    <3>. QED
      BY <1>1, <2>1, <2>2
  <2>4. ASSUME NEW r \in results'[j]
        PROVE  \E i \in 1..Len(t) : t[i] = r
    <3>1. CASE r \in results[j]
      <4>1. PICK i \in 1..Len(s) : s[i] = r
        BY <1>1, <3>1
      <4>. HIDE DEF t, s
      <4>. QED
        BY <2>3, <4>1
    <3>2. CASE r \in runs
      <4>1. r = new
        BY <1>2, <2>2, <3>2
      <4>2. Len(t) \in 1..Len(t)
        <5>. HIDE DEF t, s
        <5>. QED
          BY <2>3
      <4>. QED
        BY <2>3, <4>1, <4>2
    <3>. QED
      BY <3>1, <3>2
  <2>5. Len(s) <= Len(t)
    <3>. HIDE DEF t, s
    <3>. QED
      BY <2>3
  <2>. QED
    BY <2>3, <2>4, <2>5
<1>. QED
  BY <1>3, <1>4

\* A resolver error is appended by a worker that has its result row.
LEMMA ShelvedErrors ==
    ASSUME TypeOK, BackedInv, ShelfOK, Next, NEW j \in Jobs
    PROVE  LET t == Shelved(j).errors
           IN  /\ t \in Seq(ErrorWords)
               /\ Explained(j, t)
<1>. DEFINE s == shelf[j].errors
            rows == {e \in errors' \ errors : \E w \in Workers :
                        /\ At(w, "appendError")
                        /\ workers[w].job = j
                        /\ e = <<workers[w].run, workers[w].code>>}
            new == CHOOSE e \in rows : TRUE
            t == Shelved(j).errors
<1>1. s \in Seq(ErrorWords) /\ Explained(j, s)
  BY DEF ShelfOK
<1>2. CASE rows = {}
  <2>1. t = s
    BY <1>2 DEF Shelved
  <2>. QED
    BY <1>1, <2>1
<1>3. CASE rows # {}
  <2>1. t = Append(s, new[2])
    BY <1>3 DEF Shelved
  <2>2. new \in rows
    BY <1>3
  <2>3. PICK w \in Workers : /\ At(w, "appendError")
                             /\ workers[w].job = j
                             /\ new = <<workers[w].run, workers[w].code>>
    BY <2>2
  <2>4. new[2] = workers[w].code /\ workers[w].code \in ErrorCodes
    <3>1. workers[w].code \in ErrorCodes
      BY <2>3 DEF TypeOK, At
    <3>. HIDE DEF new
    <3>. QED
      BY <2>3, <3>1
  <2>5. new[2] = "RESOLVER_FAILED" => results[j] # {}
    <3>. HIDE DEF new
    <3>. QED
      BY <2>3, <2>4 DEF BackedInv, At, Persisted, FailurePcs, ResolverCodes
  <2>6. new[2] \in ErrorWords
    BY <2>4, ErrorCodesAreWords
  <2>. DEFINE word == new[2]
  <2>. HIDE DEF t, s, word, new
  <2>7. /\ t \in Seq(ErrorWords) /\ Len(t) = Len(s) + 1 /\ Len(s) \in Nat
        /\ \A i \in 1..Len(s) : t[i] = s[i]
        /\ t[Len(t)] = word
    BY <1>1, <2>1, <2>6 DEF word
  <2>8. Explained(j, t)
    <3>. SUFFICES ASSUME NEW i \in 1..Len(t), t[i] = "RESOLVER_FAILED"
                  PROVE  results[j] # {}
      BY DEF Explained
    <3>1. CASE i = Len(t)
      BY <2>5, <2>7, <3>1 DEF word
    <3>2. CASE i # Len(t)
      <4>1. i \in 1..Len(s) /\ s[i] = "RESOLVER_FAILED"
        BY <2>7, <3>2
      <4>. QED
        BY <1>1, <4>1 DEF Explained
    <3>. QED
      BY <3>1, <3>2
  <2>. QED
    BY <2>7, <2>8 DEF t
<1>. QED
  BY <1>2, <1>3

-----------------------------------------------------------------------------
(* Preservation *)

\* Filed, what the reader holds of it, and the desk are never taken back.
LEMMA WorkKeeps ==
    ASSUME DashboardInv, Work
    PROVE  DashboardInv'
<1>1. TypeOK' /\ BackedInv'
  BY NextType, NextBacked DEF DashboardInv, Work
<1>2. ASSUME NEW j \in Jobs
      PROVE  /\ Shelved(j).results \in Seq(Runs)
             /\ Len(shelf[j].results) <= Len(Shelved(j).results)
             /\ \A i \in 1..Len(shelf[j].results) :
                   Shelved(j).results[i] = shelf[j].results[i]
             /\ \A r \in results'[j] : \E i \in 1..Len(Shelved(j).results) :
                   Shelved(j).results[i] = r
  BY <1>1, ShelvedResults DEF DashboardInv, Work
<1>3. ASSUME NEW j \in Jobs
      PROVE  Shelved(j).errors \in Seq(ErrorWords) /\ Explained(j, Shelved(j).errors)
  BY ShelvedErrors DEF DashboardInv, Work
<1>4. ASSUME NEW j \in Jobs PROVE results[j] \subseteq results'[j]
  BY ResultsGrow DEF DashboardInv, Work
<1>5. shelf' = [j \in Jobs |-> Shelved(j)]
  BY DEF Work
<1>6. ShelfOK'
  <2>1. ASSUME NEW j \in Jobs
        PROVE  Shelved(j) \in [results : Seq(Runs), errors : Seq(ErrorWords)]
    <3>1. Shelved(j) = [results |-> Shelved(j).results, errors |-> Shelved(j).errors]
      BY DEF Shelved
    <3>. HIDE DEF Shelved
    <3>. QED
      BY <1>2, <1>3, <3>1
  <2>2. shelf' \in [Jobs -> [results : Seq(Runs), errors : Seq(ErrorWords)]]
    BY <1>5, <2>1
  <2>3. \A j \in Jobs : \A r \in results'[j] :
           \E i \in 1..Len(shelf'[j].results) : shelf'[j].results[i] = r
    BY <1>2, <1>5
  <2>4. ASSUME NEW j \in Jobs PROVE Explained(j, shelf[j].errors)'
    <3>1. shelf'[j].errors = Shelved(j).errors
      BY <1>5
    <3>. QED
      BY <1>3, <1>4, <3>1, ExplainedStays DEF Explained
  <2>. QED
    BY <2>2, <2>3, <2>4 DEF ShelfOK
<1>7. ReaderOK'
  <2>1. reader' = reader /\ reader \in Reading
    BY DEF Work, DashboardInv, ReaderOK
  <2>2. ASSUME NEW j \in Jobs PROVE Explained(j, reader.errors[j])'
    BY <1>4, <2>1 DEF DashboardInv, ReaderOK, Explained
  <2>3. ASSUME NEW j \in Jobs PROVE Prefix(j)'
    <3>1. SUFFICES ASSUME NEW i \in 1..Len(reader.results[j])
                   PROVE  /\ i <= Len(shelf'[j].results)
                          /\ reader.results[j][i].run = shelf'[j].results[i]
      BY <2>1 DEF Prefix
    <3>2. i <= Len(shelf[j].results) /\ reader.results[j][i].run = shelf[j].results[i]
      BY DEF DashboardInv, ReaderOK, Prefix
    <3>3. shelf'[j].results = Shelved(j).results
      BY <1>5
    <3>4. Len(shelf[j].results) \in Nat /\ Len(Shelved(j).results) \in Nat
      BY <1>2 DEF DashboardInv, ShelfOK
    <3>5. i \in 1..Len(shelf[j].results) /\ i <= Len(Shelved(j).results)
      <4>1. i \in Nat /\ i >= 1
        BY <2>1 DEF Reading
      <4>2. Len(shelf[j].results) <= Len(Shelved(j).results)
        BY <1>2
      <4>. QED
        BY <3>2, <3>4, <4>1, <4>2
    <3>. QED
      BY <1>2, <3>2, <3>3, <3>5
  <2>. QED
    BY <2>1, <2>2, <2>3 DEF ReaderOK
<1>8. DeskOK'
  BY DEF Work, DashboardInv, DeskOK, Filed
<1>. QED
  BY <1>1, <1>6, <1>7, <1>8 DEF DashboardInv

\* Sequence t holds x and the elements of s, and nothing else.
Inserted(S, s, x, t) ==
    /\ t \in Seq(S) /\ Len(t) = Len(s) + 1
    /\ \E i \in 1..Len(t) : t[i] = x
    /\ \A k \in 1..Len(s) : \E i \in 1..Len(t) : t[i] = s[k]
    /\ \A i \in 1..Len(t) : t[i] = x \/ \E k \in 1..Len(s) : t[i] = s[k]

LEMMA InsertAtElements ==
    ASSUME NEW S, NEW s \in Seq(S), NEW x \in S, NEW n \in 1..Len(s) + 1
    PROVE  Inserted(S, s, x, InsertAt(s, n, x))
<1>. DEFINE a == SubSeq(s, 1, n - 1)
            b == SubSeq(s, n, Len(s))
<1>0. Len(s) \in Nat /\ n \in Nat
  OBVIOUS
<1>1. /\ a \in Seq(S) /\ Len(a) = n - 1
      /\ \A i \in 1..n - 1 : a[i] = s[i]
  BY <1>0, SubSeqProperties
<1>2. /\ b \in Seq(S) /\ Len(b) = Len(s) - n + 1
      /\ \A i \in 1..Len(s) - n + 1 : b[i] = s[n + i - 1]
  BY <1>0, SubSeqProperties
<1>. DEFINE c == a \o <<x>>
<1>. HIDE DEF a, b
<1>3. /\ c \in Seq(S) /\ Len(c) = n
      /\ \A i \in 1..n - 1 : c[i] = a[i]
      /\ c[n] = x
  BY <1>0, <1>1
<1>4. InsertAt(s, n, x) = c \o b
  BY DEF InsertAt, a, b
<1>. HIDE DEF c
<1>5. /\ c \o b \in Seq(S) /\ Len(c \o b) = Len(s) + 1
      /\ \A i \in 1..n : (c \o b)[i] = c[i]
      /\ \A i \in n + 1..Len(s) + 1 : (c \o b)[i] = b[i - n]
  BY <1>0, <1>2, <1>3
<1>6. ASSUME NEW i \in 1..Len(s) + 1
      PROVE  (c \o b)[i] = x \/ \E k \in 1..Len(s) : (c \o b)[i] = s[k]
  <2>1. CASE i < n
    BY <1>0, <1>1, <1>3, <1>5, <2>1
  <2>2. CASE i = n
    BY <1>0, <1>3, <1>5, <2>2
  <2>3. CASE i > n
    <3>1. i - n \in 1..Len(s) - n + 1 /\ i - 1 \in 1..Len(s)
      BY <1>0, <2>3
    <3>2. (c \o b)[i] = b[i - n] /\ b[i - n] = s[n + (i - n) - 1]
      BY <1>0, <1>2, <1>5, <2>3, <3>1
    <3>3. n + (i - n) - 1 = i - 1
      BY <1>0
    <3>. QED
      BY <3>1, <3>2, <3>3
  <2>4. i \in Nat /\ n \in Nat => i < n \/ i = n \/ i > n
    OBVIOUS
  <2>5. i \in Nat
    BY <1>0
  <2>. QED
    BY <1>0, <2>1, <2>2, <2>3, <2>4, <2>5
<1>7. ASSUME NEW k \in 1..Len(s)
      PROVE  \E i \in 1..Len(s) + 1 : (c \o b)[i] = s[k]
  <2>0. k \in Nat /\ (k < n \/ k >= n)
    BY <1>0
  <2>1. CASE k < n
    <3>1. k \in 1..n - 1 /\ k \in 1..n /\ k \in 1..Len(s) + 1
      BY <1>0, <2>0, <2>1
    <3>2. (c \o b)[k] = s[k]
      BY <1>1, <1>3, <1>5, <3>1
    <3>. QED
      BY <3>1, <3>2
  <2>2. CASE k >= n
    <3>1. k + 1 - n \in 1..Len(s) - n + 1 /\ k + 1 \in n + 1..Len(s) + 1
      BY <1>0, <2>2
    <3>2. (c \o b)[k + 1] = b[k + 1 - n] /\ b[k + 1 - n] = s[n + (k + 1 - n) - 1]
      BY <1>2, <1>5, <3>1
    <3>3. n + (k + 1 - n) - 1 = k /\ k + 1 \in 1..Len(s) + 1
      BY <1>0
    <3>. QED
      BY <3>2, <3>3
  <2>. QED
    BY <2>0, <2>1, <2>2
<1>8. (c \o b)[n] = x /\ n \in 1..Len(s) + 1
  BY <1>0, <1>3, <1>5
<1>9. Inserted(S, s, x, c \o b)
  BY <1>5, <1>6, <1>7, <1>8 DEF Inserted
<1>. QED
  BY <1>4, <1>9

\* The other writers leave the worker's sheets alone.
LEMMA IntakeKeeps ==
    ASSUME DashboardInv, NEW j \in Jobs, File(j) \/ Queue(j) \/ Review(j)
    PROVE  DashboardInv'
<1>1. UNCHANGED <<vars, shelf, reader>>
  BY DEF File, Queue, Review
<1>2. TypeOK' /\ BackedInv'
  BY <1>1, NextType, NextBacked DEF DashboardInv
<1>3. ShelfOK'
  BY <1>1 DEF DashboardInv, ShelfOK, Explained, vars
<1>4. ReaderOK'
  BY <1>1 DEF DashboardInv, ReaderOK, Prefix, Explained, vars
<1>5. DeskOK'
  <2>1. CASE File(j)
    BY <1>1, <2>1 DEF File, DashboardInv, DeskOK, Filed
  <2>2. CASE Queue(j)
    BY <1>1, <2>2 DEF Queue, DashboardInv, DeskOK, Filed
  <2>3. CASE Review(j)
    BY <1>1, <2>3 DEF Review, DashboardInv, DeskOK, Filed
  <2>. QED
    BY <2>1, <2>2, <2>3
<1>. QED
  BY <1>2, <1>3, <1>4, <1>5 DEF DashboardInv

LEMMA ReportKeeps ==
    ASSUME DashboardInv, NEW j \in Jobs, Report(j)
    PROVE  DashboardInv'
<1>1. UNCHANGED <<vars, intake, desk, reader>>
  BY DEF Report
<1>2. TypeOK' /\ BackedInv'
  BY <1>1, NextType, NextBacked DEF DashboardInv
<1>. DEFINE word == "PARSER_ENQUEUE_FAILED"
            s == shelf[j].errors
<1>3. PICK n \in 1..Len(s) + 1 :
          shelf' = [shelf EXCEPT ![j].errors = InsertAt(s, n, word)]
  BY DEF Report
<1>. DEFINE t == InsertAt(s, n, word)
<1>4. s \in Seq(ErrorWords) /\ word \in ErrorWords
  BY DEF DashboardInv, ShelfOK, ErrorWords
<1>5. /\ t \in Seq(ErrorWords)
      /\ \A i \in 1..Len(t) : t[i] = word \/ \E k \in 1..Len(s) : t[i] = s[k]
  <2>. HIDE DEF word
  <2>1. Inserted(ErrorWords, s, word, InsertAt(s, n, word))
    BY <1>4, InsertAtElements
  <2>. QED
    BY <2>1 DEF Inserted
<1>. HIDE DEF t
<1>6. shelf' = [shelf EXCEPT ![j].errors = t]
  BY <1>3 DEF t
<1>7. /\ shelf' \in [Jobs -> [results : Seq(Runs), errors : Seq(ErrorWords)]]
      /\ \A k \in Jobs : /\ shelf'[k].results = shelf[k].results
                         /\ k # j => shelf'[k].errors = shelf[k].errors
      /\ shelf'[j].errors = t
  BY <1>5, <1>6 DEF DashboardInv, ShelfOK
<1>8. Explained(j, t)
  <2>1. SUFFICES ASSUME NEW i \in 1..Len(t), t[i] = "RESOLVER_FAILED"
                 PROVE  results[j] # {}
    BY DEF Explained
  <2>2. PICK k \in 1..Len(s) : s[k] = "RESOLVER_FAILED"
    BY <1>5, <2>1
  <2>. QED
    BY <2>2 DEF DashboardInv, ShelfOK, Explained
<1>9. ShelfOK'
  <2>1. ASSUME NEW k \in Jobs PROVE Explained(k, shelf[k].errors)'
    BY <1>1, <1>7, <1>8 DEF DashboardInv, ShelfOK, Explained, vars
  <2>2. ASSUME NEW k \in Jobs, NEW r \in results'[k]
        PROVE  \E i \in 1..Len(shelf'[k].results) : shelf'[k].results[i] = r
    <3>1. r \in results[k] /\ shelf'[k].results = shelf[k].results
      BY <1>1, <1>7 DEF vars
    <3>2. PICK i \in 1..Len(shelf[k].results) : shelf[k].results[i] = r
      BY <3>1 DEF DashboardInv, ShelfOK
    <3>. QED
      BY <3>1, <3>2
  <2>. QED
    BY <1>7, <2>1, <2>2 DEF ShelfOK
<1>10. ReaderOK'
  <2>1. reader' = reader /\ results' = results
    BY <1>1 DEF vars
  <2>2. ASSUME NEW k \in Jobs PROVE Prefix(k)' /\ Explained(k, reader.errors[k])'
    BY <1>7, <2>1 DEF DashboardInv, ReaderOK, Prefix, Explained
  <2>. QED
    BY <2>1, <2>2 DEF DashboardInv, ReaderOK
<1>11. DeskOK'
  BY <1>1 DEF DashboardInv, DeskOK, Filed
<1>. QED
  BY <1>2, <1>9, <1>10, <1>11 DEF DashboardInv

-----------------------------------------------------------------------------
\* A fetch copies a sheet as it stands.
LEMMA ResultRowsCopy ==
    ASSUME ShelfOK, NEW j \in Jobs
    PROVE  /\ ResultRows(j) \in Seq(ResultCells)
           /\ Len(ResultRows(j)) = Len(shelf[j].results)
           /\ \A i \in 1..Len(shelf[j].results) :
                 ResultRows(j)[i].run = shelf[j].results[i]
<1>. DEFINE s == shelf[j].results
            cell(i) == [run |-> s[i], output |-> TRUE,
                        resolver |-> IF s[i] \in resolved THEN "matches" ELSE "none"]
<1>1. s \in Seq(Runs) /\ Len(s) \in Nat /\ DOMAIN s = 1..Len(s)
  BY DEF ShelfOK
<1>2. ResultRows(j) = [i \in 1..Len(s) |-> cell(i)]
  BY <1>1 DEF ResultRows
<1>3. \A i \in 1..Len(s) : cell(i) \in ResultCells /\ cell(i).run = s[i]
  BY <1>1 DEF ResultCells
<1>. HIDE DEF cell, s
<1>4. ResultRows(j) \in [1..Len(s) -> ResultCells]
  BY <1>2, <1>3
<1>5. ResultRows(j) \in Seq(ResultCells) /\ Len(ResultRows(j)) = Len(s)
  BY <1>1, <1>4, SeqDef, LenProperties
<1>. QED
  BY <1>2, <1>3, <1>5 DEF s

\* What the reader may hold next, given that the sheets stand.
LEMMA FetchKeeps ==
    ASSUME DashboardInv, NEW from, NEW copy, Fetch(from, copy), copy \in Reading,
           copy.desk \subseteq desk, copy.filed \subseteq {j \in Jobs : Filed(j)},
           \A j \in Jobs :
              /\ Explained(j, copy.errors[j])
              /\ \A i \in 1..Len(copy.results[j]) :
                    /\ i <= Len(shelf[j].results)
                    /\ copy.results[j][i].run = shelf[j].results[i]
    PROVE  DashboardInv'
<1>1. UNCHANGED <<vars, intake, shelf, desk>> /\ reader' = copy
  BY DEF Fetch
<1>2. TypeOK' /\ BackedInv'
  BY <1>1, NextType, NextBacked DEF DashboardInv
<1>3. ShelfOK'
  BY <1>1 DEF DashboardInv, ShelfOK, Explained, vars
<1>4. ReaderOK'
  BY <1>1 DEF ReaderOK, Prefix, Explained, vars
<1>5. DeskOK'
  BY <1>1 DEF DashboardInv, DeskOK, Filed
<1>. QED
  BY <1>2, <1>3, <1>4, <1>5 DEF DashboardInv

LEMMA NoReadingOK ==
    /\ NoReading \in Reading
    /\ NoReading.desk = {} /\ NoReading.filed = {}
    /\ \A j \in Jobs : NoReading.errors[j] = <<>> /\ NoReading.results[j] = <<>>
  BY DEF NoReading, Reading, ReaderPcs

\* A copy that changes some fields of what the reader holds is again a reading.
LEMMA ReadingFields ==
    ASSUME NEW r \in Reading, NEW p \in ReaderPcs
    PROVE  /\ [r EXCEPT !.pc = p] \in Reading
           /\ \A f \in SUBSET Jobs : /\ [r EXCEPT !.pc = p, !.filed = f] \in Reading
                                     /\ [r EXCEPT !.pc = p, !.desk = f] \in Reading
           /\ \A f \in [Jobs -> Seq(ResultCells)] :
                 [r EXCEPT !.pc = p, !.results = f] \in Reading
           /\ \A f \in [Jobs -> Seq(ErrorWords)] :
                 [r EXCEPT !.pc = p, !.errors = f] \in Reading
  BY DEF Reading

LEMMA ReaderKeeps ==
    ASSUME DashboardInv,
           \/ ReadSubmissions \/ ReadResults \/ ReadOps \/ ReadErrors \/ ReadJobs
           \/ ReadFails
    PROVE  DashboardInv'
<1>0. /\ reader \in Reading
      /\ reader.desk \subseteq desk
      /\ reader.filed \subseteq {j \in Jobs : Filed(j)}
      /\ desk \subseteq {j \in Jobs : Filed(j)}
  BY DEF DashboardInv, ReaderOK, DeskOK
<1>1. ASSUME NEW j \in Jobs
      PROVE  /\ Explained(j, reader.errors[j])
             /\ \A i \in 1..Len(reader.results[j]) :
                   /\ i <= Len(shelf[j].results)
                   /\ reader.results[j][i].run = shelf[j].results[i]
  BY DEF DashboardInv, ReaderOK, Prefix
<1>p. /\ "results" \in ReaderPcs /\ "ops" \in ReaderPcs
      /\ "errors" \in ReaderPcs /\ "jobs" \in ReaderPcs
  BY DEF ReaderPcs
<1>2. CASE ReadSubmissions
  <2>. DEFINE filed == {j \in Jobs : Filed(j)}
              copy == [reader EXCEPT !.pc = "results", !.filed = filed]
  <2>1. copy \in Reading
    <3>1. filed \in SUBSET Jobs
      OBVIOUS
    <3>. HIDE DEF filed
    <3>. QED
      BY <1>0, <1>p, <3>1, ReadingFields
  <2>2. /\ copy.filed = filed /\ copy.desk = reader.desk
        /\ copy.results = reader.results /\ copy.errors = reader.errors
    BY <1>0 DEF Reading
  <2>3. Fetch("submissions", copy)
    BY <1>2, Zenon DEF ReadSubmissions
  <2>. HIDE DEF copy
  <2>. QED
    BY <1>0, <1>1, <2>1, <2>2, <2>3, FetchKeeps
<1>3. CASE ReadResults
  <2>. DEFINE rows == [j \in Jobs |-> ResultRows(j)]
              copy == [reader EXCEPT !.pc = "ops", !.results = rows]
  <2>0. ASSUME NEW j \in Jobs
        PROVE  /\ rows[j] \in Seq(ResultCells)
               /\ \A i \in 1..Len(rows[j]) : /\ i <= Len(shelf[j].results)
                                             /\ rows[j][i].run = shelf[j].results[i]
    <3>1. /\ ResultRows(j) \in Seq(ResultCells)
          /\ Len(ResultRows(j)) = Len(shelf[j].results)
          /\ \A i \in 1..Len(shelf[j].results) :
                ResultRows(j)[i].run = shelf[j].results[i]
      BY ResultRowsCopy DEF DashboardInv
    <3>2. rows[j] = ResultRows(j)
      OBVIOUS
    <3>3. Len(shelf[j].results) \in Nat
      BY DEF DashboardInv, ShelfOK
    <3>. QED
      BY <3>1, <3>2, <3>3
  <2>1. copy \in Reading
    <3>1. rows \in [Jobs -> Seq(ResultCells)]
      BY <2>0
    <3>. HIDE DEF rows
    <3>. QED
      BY <1>0, <1>p, <3>1, ReadingFields
  <2>2. /\ copy.filed = reader.filed /\ copy.desk = reader.desk
        /\ copy.results = rows /\ copy.errors = reader.errors
    BY <1>0 DEF Reading
  <2>3. Fetch("results", copy)
    BY <1>3, Zenon DEF ReadResults
  <2>. HIDE DEF copy, rows
  <2>. QED
    BY <1>0, <1>1, <2>0, <2>1, <2>2, <2>3, FetchKeeps
<1>4. CASE ReadOps
  <2>. DEFINE copy == [reader EXCEPT !.pc = "errors", !.desk = desk]
  <2>1. copy \in Reading
    BY <1>0, <1>p, ReadingFields
  <2>2. /\ copy.filed = reader.filed /\ copy.desk = desk
        /\ copy.results = reader.results /\ copy.errors = reader.errors
    BY <1>0 DEF Reading
  <2>3. Fetch("ops", copy)
    BY <1>4, Zenon DEF ReadOps
  <2>. HIDE DEF copy
  <2>. QED
    BY <1>0, <1>1, <2>1, <2>2, <2>3, FetchKeeps
<1>5. CASE ReadErrors
  <2>. DEFINE words == [j \in Jobs |-> shelf[j].errors]
              copy == [reader EXCEPT !.pc = "jobs", !.errors = words]
  <2>0. ASSUME NEW j \in Jobs
        PROVE  words[j] \in Seq(ErrorWords) /\ Explained(j, words[j])
    BY DEF DashboardInv, ShelfOK
  <2>1. copy \in Reading
    <3>1. words \in [Jobs -> Seq(ErrorWords)]
      BY <2>0
    <3>. HIDE DEF words
    <3>. QED
      BY <1>0, <1>p, <3>1, ReadingFields
  <2>2. /\ copy.filed = reader.filed /\ copy.desk = reader.desk
        /\ copy.results = reader.results /\ copy.errors = words
    BY <1>0 DEF Reading
  <2>3. Fetch("errors", copy)
    BY <1>5, Zenon DEF ReadErrors
  <2>. HIDE DEF copy, words
  <2>. QED
    BY <1>0, <1>1, <2>0, <2>1, <2>2, <2>3, FetchKeeps
<1>6. CASE ReadJobs \/ ReadFails
  <2>1. Fetch(reader.pc, NoReading)
    BY <1>6 DEF ReadJobs, ReadFails, Fetch
  <2>2. ASSUME NEW j \in Jobs
        PROVE  /\ Explained(j, NoReading.errors[j])
               /\ \A i \in 1..Len(NoReading.results[j]) :
                     /\ i <= Len(shelf[j].results)
                     /\ NoReading.results[j][i].run = shelf[j].results[i]
    BY NoReadingOK DEF Explained
  <2>. QED
    BY <2>1, <2>2, NoReadingOK, FetchKeeps
<1>. QED
  BY <1>2, <1>3, <1>4, <1>5, <1>6

LEMMA NextDashboardInv ==
    ASSUME DashboardInv, [DashboardNext]_dashboardVars
    PROVE  DashboardInv'
<1>1. CASE UNCHANGED dashboardVars
  <2>1. UNCHANGED <<vars, intake, shelf, desk, reader>>
    BY <1>1 DEF dashboardVars
  <2>2. TypeOK' /\ BackedInv'
    BY <2>1, NextType, NextBacked DEF DashboardInv
  <2>3. ShelfOK'
    BY <2>1 DEF DashboardInv, ShelfOK, Explained, vars
  <2>4. ReaderOK'
    BY <2>1 DEF DashboardInv, ReaderOK, Prefix, Explained, vars
  <2>5. DeskOK'
    BY <2>1 DEF DashboardInv, DeskOK, Filed
  <2>. QED
    BY <2>2, <2>3, <2>4, <2>5 DEF DashboardInv
<1>2. CASE Work
  BY <1>2, WorkKeeps
<1>3. ASSUME NEW j \in Jobs, File(j) \/ Queue(j) \/ Review(j)
      PROVE  DashboardInv'
  BY <1>3, IntakeKeeps
<1>4. ASSUME NEW j \in Jobs, Report(j)
      PROVE  DashboardInv'
  BY <1>4, ReportKeeps
<1>5. CASE \/ ReadSubmissions \/ ReadResults \/ ReadOps \/ ReadErrors \/ ReadJobs
           \/ ReadFails
  BY <1>5, ReaderKeeps
<1>. QED
  BY <1>1, <1>2, <1>3, <1>4, <1>5 DEF DashboardNext

-----------------------------------------------------------------------------
\* With all five sheets of one moment.
LEMMA QuietTrusted ==
    ASSUME DashboardInv, NEW j \in Jobs, Filed(j)
    PROVE  Trusted(Quiet(j))
<1>. DEFINE e == Stored(j)
<1>1. /\ e.source = TRUE /\ e.resume = "uploaded" /\ e.job = JobRow(j)
      /\ e.results = ResultRows(j) /\ e.errors = shelf[j].errors
  BY DEF Stored
<1>2. TypeOK /\ AuthorityBacked
  BY DEF DashboardInv, BackedInv, RowBacked, AuthorityBacked
<1>3. e.results \in Seq(ResultCells) /\ e.errors \in Seq(ErrorWords)
  BY <1>1, ResultRowsCopy DEF DashboardInv, ShelfOK
<1>4. ASSUME NEW r \in results[j]
      PROVE  \E i \in 1..Len(e.results) : e.results[i].run = r
  <2>1. PICK i \in 1..Len(shelf[j].results) : shelf[j].results[i] = r
    BY DEF DashboardInv, ShelfOK
  <2>. QED
    BY <1>1, <2>1, ResultRowsCopy DEF DashboardInv
<1>5. (\E i \in 1..Len(e.errors) : e.errors[i] = "RESOLVER_FAILED") => results[j] # {}
  BY <1>1 DEF DashboardInv, ShelfOK, Explained
<1>. HIDE DEF e
<1>6. Trusted(Record(e))
  BY <1>1, <1>2, <1>3, <1>4, <1>5, CompleteEvidenceTrusted
<1>. QED
  BY <1>6 DEF Quiet, e

\* With sheets of five moments, none of which missed a row.
LEMMA DeliveredTrusted ==
    ASSUME DashboardInv, NEW j \in reader.filed,
           ~(Len(reader.results[j]) < Len(shelf[j].results))
    PROVE  Trusted(Delivered(j))
<1>. DEFINE e == Fetched(j)
<1>0. j \in Jobs /\ Filed(j) /\ reader \in Reading
  BY DEF DashboardInv, DeskOK, ReaderOK
<1>1. /\ e.source = TRUE /\ e.resume = "uploaded" /\ e.job = JobRow(j)
      /\ e.results = reader.results[j] /\ e.errors = reader.errors[j]
  BY DEF Fetched
<1>2. TypeOK /\ AuthorityBacked
  BY DEF DashboardInv, BackedInv, RowBacked, AuthorityBacked
<1>3. e.results \in Seq(ResultCells) /\ e.errors \in Seq(ErrorWords)
  BY <1>0, <1>1 DEF Reading
<1>4. ASSUME NEW r \in results[j]
      PROVE  \E i \in 1..Len(e.results) : e.results[i].run = r
  <2>1. PICK i \in 1..Len(shelf[j].results) : shelf[j].results[i] = r
    BY <1>0 DEF DashboardInv, ShelfOK
  <2>2. Len(shelf[j].results) \in Nat /\ Len(reader.results[j]) \in Nat
    <3>1. shelf[j].results \in Seq(Runs)
      BY <1>0 DEF DashboardInv, ShelfOK
    <3>2. reader.results[j] \in Seq(ResultCells)
      BY <1>1, <1>3
    <3>. QED
      BY <3>1, <3>2
  <2>3. i \in 1..Len(reader.results[j])
    BY <2>1, <2>2
  <2>. QED
    BY <1>0, <1>1, <2>1, <2>3 DEF DashboardInv, ReaderOK, Prefix
<1>5. (\E i \in 1..Len(e.errors) : e.errors[i] = "RESOLVER_FAILED") => results[j] # {}
  BY <1>0, <1>1 DEF DashboardInv, ReaderOK, Explained
<1>. HIDE DEF e
<1>6. Trusted(Record(e))
  BY <1>0, <1>1, <1>2, <1>3, <1>4, <1>5, CompleteEvidenceTrusted
<1>. QED
  BY <1>6 DEF Delivered, e

LEMMA InvNotTorn == DashboardInv => TornOnlyByRace
<1>. SUFFICES ASSUME DashboardInv, NEW j \in Jobs
              PROVE  /\ Filed(j) => Trusted(Quiet(j))
                     /\ reader.pc = "jobs" /\ j \in Listed =>
                           \/ j \notin reader.filed /\ Filed(j)
                           \/ Len(reader.results[j]) < Len(shelf[j].results)
                           \/ Trusted(Delivered(j))
  BY Zenon DEF TornOnlyByRace
<1>1. Filed(j) => Trusted(Quiet(j))
  BY QuietTrusted
<1>2. CASE j \in reader.filed
  BY <1>1, <1>2, DeliveredTrusted
<1>3. CASE j \in Listed /\ j \notin reader.filed
  BY <1>1, <1>3 DEF Listed, DashboardInv, DeskOK
<1>. QED
  BY <1>1, <1>2, <1>3

\* The five sheets of one moment never contradict each other, and a record that
\* get_snapshot_records composes from five moments only does when its source
\* row or a result row was appended between the reads: for any number of jobs,
\* workers and runs, under every fault of the worker.
THEOREM SnapshotTornOnlyByRace == DashboardSpec => []TornOnlyByRace
<1>1. DashboardInit => DashboardInv
  BY InitDashboardInv
<1>2. DashboardInv /\ [DashboardNext]_dashboardVars => DashboardInv'
  BY NextDashboardInv
<1>3. DashboardInv => TornOnlyByRace
  BY InvNotTorn
<1>. QED
  BY <1>1, <1>2, <1>3, PTL DEF DashboardSpec

-----------------------------------------------------------------------------
(* Output that is shown *)

\* The parsed panel is filled exactly when the job has a result row.
LEMMA OutputIsARow ==
    ASSUME DashboardInv, NEW j \in Jobs
    PROVE  /\ HasParserRow(Stored(j)) <=> shelf[j].results # <<>>
           /\ ParsedLayer(Stored(j)).state = "complete" <=> shelf[j].results # <<>>
<1>. DEFINE e == Stored(j)
            s == shelf[j].results
<1>1. e.job = JobRow(j) /\ e.results = ResultRows(j)
  BY DEF Stored
<1>2. /\ s \in Seq(Runs) /\ Len(s) \in Nat
      /\ \A r \in results[j] : \E i \in 1..Len(s) : s[i] = r
  <2>1. s \in Seq(Runs)
    BY DEF DashboardInv, ShelfOK
  <2>2. \A r \in results[j] : \E i \in 1..Len(s) : s[i] = r
    BY Zenon DEF DashboardInv, ShelfOK
  <2>. QED
    BY <2>1, <2>2
<1>3. /\ e.results \in Seq(ResultCells)
      /\ Len(e.results) = Len(s)
      /\ \A i \in 1..Len(s) : e.results[i].run = s[i]
  BY <1>1, ResultRowsCopy DEF DashboardInv
<1>4. /\ Authority(e) # NoRun => Authority(e) \in results[j]
      /\ JobStatus(e) = "succeeded" => Authority(e) # NoRun
  <2>1. CASE e.job = NoRow
    BY <2>1 DEF Authority, JobStatus
  <2>2. CASE e.job # NoRow
    <3>1. intake[j] = "queued"
      BY <1>1, <2>2 DEF JobRow
    <3>2. Authority(e) = jobs[j].authority /\ JobStatus(e) = jobs[j].status
      BY <1>1, <2>2, <3>1, JobRowType DEF Authority, JobStatus, DashboardInv
    <3>. QED
      BY <3>2 DEF DashboardInv, BackedInv, RowBacked
  <2>. QED
    BY <2>1, <2>2
<1>. HIDE DEF e, s
<1>5. ASSUME s # <<>> PROVE HasParserRow(e)
  <2>1. e.results # <<>>
    BY <1>2, <1>3, <1>5
  <2>2. CASE Authority(e) # NoRun
    <3>1. PICK i \in 1..Len(s) : s[i] = Authority(e)
      BY <1>2, <1>4, <2>2
    <3>. QED
      BY <1>3, <2>2, <3>1, SelectionFinds
  <2>3. CASE Authority(e) = NoRun
    BY <1>3, <1>4, <2>1, <2>3, SelectionFinds
  <2>. QED
    BY <2>2, <2>3
<1>6. ASSUME HasParserRow(e) PROVE s # <<>>
  <2>1. SUFFICES ASSUME s = <<>> PROVE FALSE
    OBVIOUS
  <2>2. e.results = <<>>
    BY <1>2, <1>3, <2>1
  <2>3. {i \in DOMAIN e.results : e.results[i].run = Authority(e)} = {}
    BY <2>2
  <2>4. SelectParserResult(e) = NoRow
    BY <2>2, <2>3 DEF SelectParserResult
  <2>. QED
    BY <1>6, <2>4 DEF HasParserRow
<1>7. ParsedLayer(e).state = "complete" <=> HasParserRow(e)
  BY DEF ParsedLayer, HasParserRow
<1>. QED
  BY <1>5, <1>6, <1>7 DEF e, s

\* No step takes a result row off the shelf.
LEMMA ShelfKeepsRows ==
    ASSUME DashboardInv, [DashboardNext]_dashboardVars, NEW j \in Jobs,
           shelf[j].results # <<>>
    PROVE  shelf'[j].results # <<>>
<1>1. shelf[j].results \in Seq(Runs) /\ shelf \in [Jobs -> [results : Seq(Runs),
                                                            errors : Seq(ErrorWords)]]
  BY DEF DashboardInv, ShelfOK
<1>2. CASE Work
  <2>1. /\ Shelved(j).results \in Seq(Runs)
        /\ Len(shelf[j].results) <= Len(Shelved(j).results)
    BY <1>2, NextType, ShelvedResults DEF DashboardInv, Work
  <2>2. shelf'[j].results = Shelved(j).results
    BY <1>2 DEF Work
  <2>. QED
    BY <1>1, <2>1, <2>2
<1>3. ASSUME NEW i \in Jobs, Report(i)
      PROVE  shelf'[j].results = shelf[j].results
  BY <1>1, <1>3 DEF Report
<1>4. CASE UNCHANGED shelf
  BY <1>4
<1>. QED
  BY <1>2, <1>3, <1>4
     DEF DashboardNext, dashboardVars, File, Queue, Review, ReadSubmissions,
         ReadResults, ReadOps, ReadErrors, ReadJobs, ReadFails, Fetch

\* Neither a later attempt nor any failure, of the resolver's included, takes
\* parsed output away once it is shown: for any number of workers.
THEOREM OutputAlwaysStays == DashboardSpec => OutputStays
<1>. DEFINE Has(j)  == shelf[j].results # <<>>
            Complete == \A j \in Jobs :
                ParsedLayer(Stored(j)).state = "complete" <=> Has(j)
            Stays == \A j \in Jobs :
                Filed(j) /\ ParsedLayer(Stored(j)).state = "complete" =>
                    ParsedLayer(Stored(j)').state = "complete"
<1>1. DashboardInit => DashboardInv
  BY InitDashboardInv
<1>2. DashboardInv /\ [DashboardNext]_dashboardVars => DashboardInv'
  BY NextDashboardInv
<1>3. DashboardInv => Complete
  BY OutputIsARow
<1>4. ASSUME DashboardInv, Complete, Complete', [DashboardNext]_dashboardVars
      PROVE  Stays
  <2>1. SUFFICES ASSUME NEW j \in Jobs, ParsedLayer(Stored(j)).state = "complete"
                 PROVE  ParsedLayer(Stored(j)').state = "complete"
    OBVIOUS
  <2>2. shelf[j].results # <<>>
    BY <1>4, <2>1
  <2>3. shelf'[j].results # <<>>
    BY <1>4, <2>2, ShelfKeepsRows
  <2>. QED
    BY <1>4, <2>3
<1>. HIDE DEF Complete, Stays
<1>5. DashboardInv /\ Complete /\ Complete' /\ [DashboardNext]_dashboardVars
         => [Stays]_<<jobs, results, resolved, shelf>>
  BY <1>4
<1>6. DashboardSpec => [][Stays]_<<jobs, results, resolved, shelf>>
  BY <1>1, <1>2, <1>3, <1>5, PTL DEF DashboardSpec
<1>. QED
  BY <1>6 DEF OutputStays, Stays

-----------------------------------------------------------------------------
(* The invariant of the supported deployment, one worker *)

\* The attempt may still append its error row.
LoggingPcs == {"claimConfirm", "gateStart", "startRead", "startWrite", "gateStarted",
               "parse", "gatePersist", "checkResult", "appendResult", "gateResolve",
               "resolve", "gateEnrich", "enrichRead", "enrichWrite", "gateError",
               "appendError"}

Logging(w) == workers[w].pc \in LoggingPcs

\* Rows intake may report on top of the attempts' own.
Reported(j) == IF "PARSER_ENQUEUE_FAILED" \in ToSet(shelf[j].errors) THEN 1 ELSE 0

\* The shelf holds each result row once.
ShelfExact(j) ==
    /\ ToSet(shelf[j].results) = results[j]
    /\ Len(shelf[j].results) = Cardinality(results[j])

\* The run that is charged last is the last on the shelf, if it is there.
LatestOnTop(j) ==
    /\ jobs[j].authority # NoRun => jobs[j].authority = jobs[j].lastRun
    /\ jobs[j].lastRun \in results[j] => Last(shelf[j].results) = jobs[j].lastRun

\* Every counted attempt has one error row to leave, and the running one has
\* not left it yet.
OneErrorEach(j) ==
    /\ Len(shelf[j].errors) <= jobs[j].attempts + Reported(j)
    /\ \A w \in Workers : Logging(w) /\ workers[w].job = j =>
          Len(shelf[j].errors) < jobs[j].attempts + Reported(j)

\* What the reader took from the errors and the resolver columns still stands.
CopyKept(j) ==
    /\ ToSet(reader.errors[j]) \subseteq ToSet(shelf[j].errors)
    /\ \A i \in 1..Len(reader.results[j]) :
          reader.results[j][i].resolver # "none" =>
              reader.results[j][i].run \in resolved

\* Only queued jobs are worked on.
QueuedOnly ==
    /\ \A w \in Workers : workers[w].job \in Jobs => intake[workers[w].job] = "queued"
    /\ \A j \in Jobs : intake[j] # "queued" => jobs[j].status = "queued"

SoleInv ==
    /\ QueuedOnly
    /\ \A j \in Jobs : ShelfExact(j) /\ LatestOnTop(j) /\ OneErrorEach(j) /\ CopyKept(j)

-----------------------------------------------------------------------------
(* What the worker's step means for it *)

\* A row is written by the worker that has the job, or only ages.
LEMMA RowWriters ==
    ASSUME TypeOK, Next, NEW j \in Jobs, jobs'[j].status # jobs[j].status
    PROVE  \E w \in Workers : workers[w].job = j
<1>1. CASE Tick
  <2>1. jobs[j] \in Row /\ jobs'[j] = Aged(jobs[j])
    BY <1>1 DEF Tick, TypeOK
  <2>. QED
    BY <2>1, AgedSeen
<1>2. ASSUME NEW w \in Workers, Overwrite(w)
      PROVE  workers[w].job = j
  BY <1>2 DEF Overwrite, TypeOK
<1>3. ASSUME NEW w \in Workers, Poll(w) \/ ClaimRead(w) \/ ClaimWrite(w)
      PROVE  UNCHANGED jobs \/ Overwrite(w)
  <2>1. CASE ClaimWrite(w)
    BY <2>1 DEF ClaimWrite
  <2>2. CASE Poll(w) \/ ClaimRead(w)
    BY <2>2, Zenon DEF Poll, ClaimRead, SheetsUnchanged
  <2>. QED
    BY <1>3, <2>1, <2>2
<1>4. ASSUME NEW w \in Workers, Raise(w) \/ Crash(w)
      PROVE  UNCHANGED jobs
  BY <1>4 DEF Raise, Crash, SheetsUnchanged
<1>5. ASSUME NEW w \in Workers, Attempt(w)
      PROVE  UNCHANGED jobs \/ Overwrite(w)
  <2>1. CASE StartWrite(w) \/ FailWrite(w) \/ FinalWrite(w)
    BY <2>1 DEF StartWrite, FailWrite, FinalWrite
  <2>2. CASE AppendResult(w) \/ EnrichWrite(w) \/ AppendError(w)
    BY <2>2 DEF AppendResult, EnrichWrite, AppendError
  <2>3. CASE \/ ClaimConfirm(w) \/ Gate(w) \/ StartRead(w) \/ Parse(w) \/ CheckResult(w)
             \/ Resolve(w) \/ EnrichRead(w) \/ FailGet(w) \/ FailRead(w)
             \/ FinalGet(w) \/ FinalRead(w)
    BY <2>3 DEF ClaimConfirm, Gate, StartRead, Parse, CheckResult, Resolve, EnrichRead,
                FailGet, FailRead, FinalGet, FinalRead, SheetsUnchanged
  <2>. QED
    BY <1>5, <2>1, <2>2, <2>3 DEF Attempt
<1>. QED
  BY <1>1, <1>2, <1>3, <1>4, <1>5 DEF Next

\* The resolver's columns are never taken back.
LEMMA ResolvedGrows ==
    ASSUME Next
    PROVE  resolved \subseteq resolved'
<1>1. CASE Tick
  BY <1>1 DEF Tick
<1>2. ASSUME NEW w \in Workers, Poll(w) \/ ClaimRead(w) \/ ClaimWrite(w)
      PROVE  UNCHANGED resolved
  <2>1. CASE ClaimWrite(w)
    BY <2>1 DEF ClaimWrite, Overwrite
  <2>2. CASE Poll(w) \/ ClaimRead(w)
    BY <2>2, Zenon DEF Poll, ClaimRead, SheetsUnchanged
  <2>. QED
    BY <1>2, <2>1, <2>2
<1>3. ASSUME NEW w \in Workers, Raise(w) \/ Crash(w)
      PROVE  UNCHANGED resolved
  BY <1>3 DEF Raise, Crash, SheetsUnchanged
<1>4. ASSUME NEW w \in Workers, EnrichWrite(w)
      PROVE  resolved \subseteq resolved'
  BY <1>4 DEF EnrichWrite
<1>5. ASSUME NEW w \in Workers, Attempt(w), ~EnrichWrite(w)
      PROVE  UNCHANGED resolved
  <2>1. CASE StartWrite(w) \/ FailWrite(w) \/ FinalWrite(w)
    BY <2>1 DEF StartWrite, FailWrite, FinalWrite, Overwrite
  <2>2. CASE AppendResult(w) \/ AppendError(w)
    BY <2>2 DEF AppendResult, AppendError
  <2>3. CASE \/ ClaimConfirm(w) \/ Gate(w) \/ StartRead(w) \/ Parse(w) \/ CheckResult(w)
             \/ Resolve(w) \/ EnrichRead(w) \/ FailGet(w) \/ FailRead(w)
             \/ FinalGet(w) \/ FinalRead(w)
    BY <2>3 DEF ClaimConfirm, Gate, StartRead, Parse, CheckResult, Resolve, EnrichRead,
                FailGet, FailRead, FinalGet, FinalRead, SheetsUnchanged
  <2>. QED
    BY <1>5, <2>1, <2>2, <2>3 DEF Attempt
<1>. QED
  BY <1>1, <1>2, <1>3, <1>4, <1>5 DEF Next

\* An attempt becomes one that may log when it is counted, and none that still
\* may has just logged.
LEMMA LoggingStep ==
    ASSUME OneWorker, TypeOK, SoloInv, Next, NEW w \in Workers, Logging(w)'
    PROVE  /\ UNCHANGED errors
           /\ workers'[w].job = workers[w].job
           /\ \/ Logging(w)
              \/ jobs'[workers[w].job].attempts = jobs[workers[w].job].attempts + 1
<1>. DEFINE L(p) == p \in LoggingPcs
            Goal == /\ UNCHANGED errors
                    /\ workers'[w].job = workers[w].job
                    /\ L(workers[w].pc)
<1>0. L(workers'[w].pc)
  BY DEF Logging
<1>l. \A p : L(p) <=> p \in LoggingPcs
  OBVIOUS
<1>s. SheetsUnchanged => UNCHANGED errors
  BY DEF SheetsUnchanged
<1>m. ASSUME NEW p, NEW c, Moves(w, p, c), ~L(p) \/ L(workers[w].pc), UNCHANGED errors
      PROVE  Goal
  BY <1>0, <1>m DEF Moves
<1>g. ASSUME NEW p, Goto(w, p), ~L(p) \/ L(workers[w].pc), UNCHANGED errors
      PROVE  Goal
  BY <1>g, <1>m, GotoMoves
<1>h. ASSUME NEW p, NEW r, Hold(w, p, r), ~L(p) \/ L(workers[w].pc), UNCHANGED errors
      PROVE  Goal
  BY <1>h, <1>m, HoldMoves
<1>e. ASSUME NEW c, Handle(w, c), L(workers[w].pc), UNCHANGED errors
      PROVE  Goal
  BY <1>e, <1>m, HandleMoves
<1>d. ~Drop(w)
  BY <1>0, DropQuits DEF Quits, Idle, LoggingPcs
<1>1. CASE Tick
  BY <1>0, <1>1 DEF Tick, TypeOK, Memory, Logging
<1>2. CASE ClaimWrite(w)
  <2>1. /\ workers[w].pc = "claimWrite" /\ UNCHANGED errors
        /\ jobs' = [jobs EXCEPT ![workers[w].job] = workers[w].row]
        /\ workers'[w].job = workers[w].job
    BY <1>2, GotoMoves DEF ClaimWrite, Overwrite, At, Moves
  <2>2. /\ workers[w].job \in Jobs
        /\ workers[w].row.attempts = jobs[workers[w].job].attempts + 1
    BY <2>1 DEF SoloInv, CopyOK, ClaimCopy, TypeOK
  <2>. QED
    BY <2>1, <2>2 DEF TypeOK
<1>3. CASE Poll(w)
  <2>1. PICK j \in Jobs, r \in Runs \ UsedRuns :
          workers' = [workers EXCEPT ![w] =
             [Idle EXCEPT !.pc = "claimRead", !.job = j, !.run = r]]
    BY <1>3, Zenon DEF Poll
  <2>2. workers'[w].pc = "claimRead"
    BY <2>1 DEF TypeOK, Idle
  <2>. QED
    BY <1>0, <2>2 DEF LoggingPcs
<1>4. CASE ClaimRead(w)
  BY <1>4, <1>d, <1>h, <1>s DEF ClaimRead, LoggingPcs, Logging
<1>5. CASE Raise(w) \/ Crash(w)
  BY <1>5, <1>d DEF Raise, Crash
<1>6. CASE Gate(w)
  <2>1. workers[w].pc \in Gates /\ UNCHANGED errors
    BY <1>6, <1>s DEF Gate
  <2>2. ~L(AfterGate(workers[w].pc)) \/ L(workers[w].pc)
    <3>1. workers[w].pc = "gateFinal" => AfterGate(workers[w].pc) = "finalGet"
      BY DEF AfterGate
    <3>2. workers[w].pc = "gateRetry" => AfterGate(workers[w].pc) = "failGet"
      BY DEF AfterGate
    <3>. QED
      BY <2>1, <3>1, <3>2 DEF Gates, LoggingPcs
  <2>3. CASE Goto(w, AfterGate(workers[w].pc))
    BY <2>1, <2>2, <2>3, <1>g DEF Logging
  <2>4. CASE Goto(w, "gateFinal")
    BY <2>1, <2>4, <1>g DEF LoggingPcs, Logging
  <2>. QED
    BY <1>6, <1>d, <2>3, <2>4 DEF Gate
<1>7. CASE ClaimConfirm(w) \/ StartRead(w) \/ StartWrite(w)
  BY <1>7, <1>d, <1>h, <1>s
     DEF ClaimConfirm, StartRead, StartWrite, Overwrite, At, LoggingPcs, Logging
<1>8. CASE Parse(w) \/ CheckResult(w) \/ Resolve(w) \/ EnrichRead(w)
  BY <1>8, <1>g, <1>e, <1>s
     DEF Parse, CheckResult, Resolve, EnrichRead, At, LoggingPcs, Logging
<1>9. CASE AppendResult(w) \/ EnrichWrite(w)
  BY <1>9, <1>g, <1>e DEF AppendResult, EnrichWrite, At, LoggingPcs, Logging
<1>10. CASE AppendError(w)
  <2>1. workers'[w].pc \in {"gateRetry", "gateFinal"}
    BY <1>10, GotoMoves DEF AppendError, Moves
  <2>. QED
    BY <1>0, <2>1 DEF LoggingPcs
<1>11. CASE FailGet(w) \/ FailRead(w) \/ FailWrite(w)
  BY <1>11, <1>d, <1>h, <1>s DEF FailGet, FailRead, FailWrite, LoggingPcs, Logging
<1>12. CASE FinalGet(w) \/ FinalRead(w) \/ FinalWrite(w)
  BY <1>12, <1>d, <1>g, <1>h, <1>s DEF FinalGet, FinalRead, FinalWrite, LoggingPcs, Logging
<1>. QED
  BY <1>1, <1>2, <1>3, <1>4, <1>5, <1>6, <1>7, <1>8, <1>9, <1>10, <1>11, <1>12
     DEF Next, Attempt, OneWorker

-----------------------------------------------------------------------------
(* What is appended to the shelf *)

LEMMA AppendKeeps ==
    ASSUME NEW S, NEW s \in Seq(S), NEW x \in S
    PROVE  /\ Len(s) \in Nat /\ Len(Append(s, x)) = Len(s) + 1
           /\ Append(s, x) \in Seq(S)
           /\ ToSet(Append(s, x)) = ToSet(s) \cup {x}
           /\ Last(Append(s, x)) = x
<1>. DEFINE t == Append(s, x)
<1>1. /\ Len(s) \in Nat /\ Len(t) = Len(s) + 1 /\ t \in Seq(S)
      /\ \A i \in 1..Len(s) : t[i] = s[i]
      /\ t[Len(t)] = x
  OBVIOUS
<1>2. DOMAIN s = 1..Len(s) /\ DOMAIN t = 1..Len(t)
  BY <1>1
<1>. HIDE DEF t
<1>3. ToSet(t) = ToSet(s) \cup {x}
  <2>1. ASSUME NEW y \in ToSet(t) PROVE y \in ToSet(s) \cup {x}
    <3>1. PICK i \in 1..Len(t) : y = t[i]
      BY <1>2, <2>1 DEF ToSet
    <3>2. i = Len(t) \/ i \in 1..Len(s)
      BY <1>1
    <3>. QED
      BY <1>1, <1>2, <3>1, <3>2 DEF ToSet
  <2>2. ASSUME NEW y \in ToSet(s) PROVE y \in ToSet(t)
    <3>1. PICK i \in 1..Len(s) : y = s[i]
      BY <1>2, <2>2 DEF ToSet
    <3>2. i \in 1..Len(t)
      BY <1>1
    <3>. QED
      BY <1>1, <1>2, <3>1, <3>2 DEF ToSet
  <2>3. x \in ToSet(t)
    <3>1. Len(t) \in 1..Len(t)
      BY <1>1
    <3>. QED
      BY <1>1, <1>2, <3>1 DEF ToSet
  <2>. QED
    BY <2>1, <2>2, <2>3
<1>. QED
  BY <1>1, <1>3 DEF Last, t

\* A new result row goes to the end of the shelf.
LEMMA ShelvedOneResult ==
    ASSUME TypeOK, TypeOK', ShelfOK, Next, ResultsStep, NEW j \in Jobs
    PROVE  \/ results'[j] = results[j] /\ Shelved(j).results = shelf[j].results
           \/ /\ jobs[j].lastRun \in Runs \ results[j]
              /\ results'[j] = results[j] \cup {jobs[j].lastRun}
              /\ Shelved(j).results = Append(shelf[j].results, jobs[j].lastRun)
<1>. DEFINE r    == jobs[j].lastRun
            runs == results'[j] \ results[j]
            new  == CHOOSE x \in runs : TRUE
<1>1. \/ results'[j] = results[j]
      \/ r \in Runs /\ results'[j] = results[j] \cup {r}
  BY DEF ResultsStep
<1>2. CASE runs = {}
  BY <1>1, <1>2 DEF Shelved
<1>3. CASE runs # {}
  <2>1. r \in Runs \ results[j] /\ results'[j] = results[j] \cup {r} /\ runs = {r}
    BY <1>1, <1>3
  <2>2. new = r
    BY <2>1
  <2>3. Shelved(j).results = Append(shelf[j].results, new)
    BY <1>3 DEF Shelved
  <2>. QED
    BY <2>1, <2>2, <2>3
<1>. QED
  BY <1>2, <1>3

\* A new error row goes to the end, from an attempt that may log.
LEMMA ShelvedOneError ==
    ASSUME TypeOK, Next, NEW j \in Jobs
    PROVE  \/ Shelved(j).errors = shelf[j].errors
           \/ /\ errors' # errors
              /\ \E w \in Workers : Logging(w) /\ workers[w].job = j
              /\ \E x \in ErrorWords : Shelved(j).errors = Append(shelf[j].errors, x)
<1>. DEFINE rows == {e \in errors' \ errors : \E w \in Workers :
                        /\ At(w, "appendError")
                        /\ workers[w].job = j
                        /\ e = <<workers[w].run, workers[w].code>>}
            new == CHOOSE e \in rows : TRUE
<1>1. CASE rows = {}
  BY <1>1 DEF Shelved
<1>2. CASE rows # {}
  <2>1. Shelved(j).errors = Append(shelf[j].errors, new[2])
    BY <1>2 DEF Shelved
  <2>2. new \in rows
    BY <1>2
  <2>3. PICK w \in Workers : /\ At(w, "appendError")
                             /\ workers[w].job = j
                             /\ new = <<workers[w].run, workers[w].code>>
    BY <2>2
  <2>4. new[2] = workers[w].code /\ workers[w].code \in ErrorCodes
    <3>1. workers[w].code \in ErrorCodes
      BY <2>3 DEF TypeOK, At
    <3>. HIDE DEF new
    <3>. QED
      BY <2>3, <3>1
  <2>5. new[2] \in ErrorWords
    BY <2>4, ErrorCodesAreWords
  <2>6. errors' # errors
    BY <2>2
  <2>7. Logging(w) /\ workers[w].job = j
    BY <2>3 DEF At, Logging, LoggingPcs
  <2>. QED
    BY <2>1, <2>5, <2>6, <2>7
<1>. QED
  BY <1>1, <1>2

-----------------------------------------------------------------------------
(* Its preservation *)

LEMMA InitSole == DashboardInit => SoleInv
<1>. SUFFICES ASSUME DashboardInit PROVE SoleInv
  OBVIOUS
<1>1. /\ \A w \in Workers : workers[w].pc = "idle" /\ workers[w].job = NoJob
      /\ \A j \in Jobs : jobs[j] = QueuedRow /\ results[j] = {}
  BY DEF DashboardInit, Init, Idle
<1>2. QueuedOnly
  BY <1>1, ConstantsAssumption DEF QueuedOnly, QueuedRow, ConstantsAssumption
<1>3. ASSUME NEW j \in Jobs
      PROVE  ShelfExact(j) /\ LatestOnTop(j) /\ OneErrorEach(j) /\ CopyKept(j)
  <2>1. shelf[j].results = <<>> /\ shelf[j].errors = <<>>
    BY DEF DashboardInit
  <2>2. reader.errors[j] = <<>> /\ reader.results[j] = <<>>
    BY NoReadingOK DEF DashboardInit
  <2>3. ToSet(<<>>) = {} /\ Len(<<>>) = 0
    BY DEF ToSet
  <2>4. ShelfExact(j)
    BY <1>1, <2>1, <2>3, FS_EmptySet DEF ShelfExact
  <2>5. LatestOnTop(j)
    BY <1>1 DEF LatestOnTop, QueuedRow
  <2>6. OneErrorEach(j)
    BY <1>1, <2>1, <2>3 DEF OneErrorEach, Reported, Logging, LoggingPcs, QueuedRow
  <2>7. CopyKept(j)
    BY <2>1, <2>2, <2>3 DEF CopyKept
  <2>. QED
    BY <2>4, <2>5, <2>6, <2>7
<1>. QED
  BY <1>2, <1>3 DEF SoleInv

\* Every step of the worker only adds to what is counted.
LEMMA AttemptsGrow ==
    ASSUME TypeOK, SeenStep, NEW j \in Jobs
    PROVE  /\ jobs[j].attempts \in Nat /\ jobs'[j].attempts \in Nat
           /\ jobs[j].attempts <= jobs'[j].attempts
<1>1. jobs[j].attempts \in Nat
  BY DEF TypeOK, Row
<1>2. Unseen(j) \/ SeenOf(j)
  BY DEF SeenStep, Unseen
<1>. QED
  BY <1>1, <1>2 DEF Unseen, SeenOf, Starts, Ends

LEMMA WorkKeepsSole ==
    ASSUME OneWorker, DashboardInv, SoloInv, SoleInv, Work
    PROVE  SoleInv'
<1>0. /\ TypeOK /\ TypeOK' /\ Next /\ SeenStep /\ ResultsStep /\ SoloInv' /\ ShelfOK
      /\ shelf' = [j \in Jobs |-> Shelved(j)]
      /\ UNCHANGED <<intake, reader>>
  BY SoloStep, NextType DEF DashboardInv, Work
<1>1. QueuedOnly'
  <2>1. \A w \in Workers : workers'[w].job \in Jobs =>
           intake'[workers'[w].job] = "queued"
    BY <1>0, ConstantsAssumption DEF Work, ConstantsAssumption
  <2>2. ASSUME NEW j \in Jobs, intake'[j] # "queued"
        PROVE  jobs'[j].status = "queued"
    <3>1. intake[j] # "queued" /\ jobs[j].status = "queued"
      BY <1>0, <2>2 DEF SoleInv, QueuedOnly
    <3>2. ~\E w \in Workers : workers[w].job = j
      BY <3>1 DEF SoleInv, QueuedOnly
    <3>. QED
      BY <1>0, <3>1, <3>2, RowWriters
  <2>. QED
    BY <2>1, <2>2 DEF QueuedOnly
<1>2. ASSUME NEW j \in Jobs
      PROVE  /\ ShelfExact(j)' /\ LatestOnTop(j)' /\ OneErrorEach(j)' /\ CopyKept(j)'
  <2>. DEFINE r == jobs[j].lastRun
              s == shelf[j].results
              x == shelf[j].errors
  <2>0. /\ s \in Seq(Runs) /\ x \in Seq(ErrorWords)
        /\ shelf'[j].results = Shelved(j).results
        /\ shelf'[j].errors = Shelved(j).errors
    BY <1>0 DEF ShelfOK
  <2>1. \/ results'[j] = results[j] /\ shelf'[j].results = s
        \/ /\ r \in Runs \ results[j]
           /\ results'[j] = results[j] \cup {r}
           /\ shelf'[j].results = Append(s, r)
    BY <1>0, <2>0, ShelvedOneResult
  <2>2. \/ shelf'[j].errors = x
        \/ /\ errors' # errors
           /\ \E w \in Workers : Logging(w) /\ workers[w].job = j
           /\ \E y \in ErrorWords : shelf'[j].errors = Append(x, y)
    BY <1>0, <2>0, ShelvedOneError
  <2>3. ShelfExact(j) /\ LatestOnTop(j) /\ OneErrorEach(j) /\ CopyKept(j) /\ JobOK(j)
    BY DEF SoleInv, SoloInv
  <2>. HIDE DEF s, x
  <2>4. ShelfExact(j)'
    <3>1. CASE results'[j] = results[j] /\ shelf'[j].results = s
      BY <2>3, <3>1 DEF ShelfExact, s
    <3>2. CASE /\ r \in Runs \ results[j]
               /\ results'[j] = results[j] \cup {r}
               /\ shelf'[j].results = Append(s, r)
      <4>1. /\ ToSet(Append(s, r)) = ToSet(s) \cup {r}
            /\ Len(Append(s, r)) = Len(s) + 1
        BY <2>0, <3>2, AppendKeeps
      <4>2. Cardinality(results[j] \cup {r}) = Cardinality(results[j]) + 1
        BY <2>3, <3>2, FS_AddElement DEF JobOK
      <4>. QED
        BY <2>3, <3>2, <4>1, <4>2 DEF ShelfExact, s
    <3>. QED
      BY <2>1, <3>1, <3>2
  <2>5. LatestOnTop(j)'
    <3>1. jobs'[j].authority # NoRun => jobs'[j].authority = jobs'[j].lastRun
      <4>1. Unseen(j) \/ SeenOf(j)
        BY <1>0 DEF SeenStep, Unseen
      <4>2. jobs[j].authority # NoRun =>
                jobs[j].authority = r /\ jobs[j].status = "succeeded"
        BY <2>3 DEF LatestOnTop, JobOK
      <4>. QED
        BY <4>1, <4>2 DEF Unseen, SeenOf, Starts, Ends, Claimable
    <3>2. ASSUME jobs'[j].lastRun \in results'[j]
          PROVE  Last(shelf'[j].results) = jobs'[j].lastRun
      <4>1. CASE results'[j] = results[j] /\ shelf'[j].results = s
        <5>1. Unseen(j) \/ SeenOf(j)
          BY <1>0 DEF SeenStep, Unseen
        <5>2. jobs'[j].lastRun = r
          BY <3>2, <4>1, <5>1 DEF Unseen, SeenOf, Starts, Ends, FreshRun
        <5>. QED
          BY <2>3, <3>2, <4>1, <5>2 DEF LatestOnTop, s
      <4>2. CASE /\ r \in Runs \ results[j]
                 /\ results'[j] = results[j] \cup {r}
                 /\ shelf'[j].results = Append(s, r)
        <5>1. jobs'[j].lastRun = r
          BY <1>0, <4>2 DEF ResultsStep, Unseen
        <5>. QED
          BY <2>0, <4>2, <5>1, AppendKeeps
      <4>. QED
        BY <2>1, <4>1, <4>2
    <3>. QED
      BY <3>1, <3>2 DEF LatestOnTop
  <2>6. OneErrorEach(j)' /\ ToSet(x) \subseteq ToSet(shelf'[j].errors)
    <3>. DEFINE a == jobs[j].attempts
                b == jobs'[j].attempts
                n == Len(x)
    <3>1. a \in Nat /\ b \in Nat /\ a <= b /\ n \in Nat
      BY <1>0, <2>0, AttemptsGrow
    <3>2. /\ n <= a + Reported(j)
          /\ (\E w \in Workers : Logging(w) /\ workers[w].job = j) =>
                n < a + Reported(j)
      BY <2>3 DEF OneErrorEach, x
    <3>3. ASSUME NEW w \in Workers, Logging(w)', workers'[w].job = j
          PROVE  /\ UNCHANGED errors
                 /\ (Logging(w) /\ workers[w].job = j) \/ b = a + 1
      BY <1>0, <3>3, LoggingStep
    <3>4. CASE shelf'[j].errors = x
      <4>1. Reported(j)' = Reported(j) /\ Reported(j) \in {0, 1}
        BY <3>4 DEF Reported, x
      <4>. HIDE DEF a, b, n
      <4>2. n <= b + Reported(j)
        BY <3>1, <3>2, <4>1
      <4>3. ASSUME NEW w \in Workers, Logging(w)', workers'[w].job = j
            PROVE  n < b + Reported(j)
        BY <3>1, <3>2, <3>3, <4>1, <4>3
      <4>. QED
        BY <3>4, <4>1, <4>2, <4>3 DEF OneErrorEach, b, n
    <3>5. CASE shelf'[j].errors # x
      <4>1. PICK y \in ErrorWords : shelf'[j].errors = Append(x, y)
        BY <2>2, <3>5
      <4>2. /\ Len(shelf'[j].errors) = n + 1
            /\ ToSet(shelf'[j].errors) = ToSet(x) \cup {y}
        BY <2>0, <4>1, AppendKeeps
      <4>3. /\ Reported(j) \in {0, 1} /\ Reported(j)' \in {0, 1}
            /\ Reported(j) = 1 => Reported(j)' = 1
        BY <4>2 DEF Reported, x
      <4>4. n < a + Reported(j) /\ errors' # errors
        BY <2>2, <3>2, <3>5
      <4>5. n + 1 <= b + Reported(j)'
        <5>. HIDE DEF a, b, n
        <5>. QED
          BY <3>1, <4>3, <4>4
      <4>6. ~\E w \in Workers : Logging(w)' /\ workers'[w].job = j
        BY <3>3, <4>4
      <4>. QED
        BY <4>2, <4>5, <4>6 DEF OneErrorEach
    <3>. QED
      BY <3>4, <3>5
  <2>7. CopyKept(j)'
    BY <1>0, <2>3, <2>6, ResolvedGrows DEF CopyKept, x
  <2>. QED
    BY <2>4, <2>5, <2>6, <2>7
<1>. QED
  BY <1>1, <1>2 DEF SoleInv

\* Intake and reconciliation move a submission on; nobody works on it before.
LEMMA IntakeKeepsSole ==
    ASSUME DashboardInv, SoleInv, NEW j \in Jobs, File(j) \/ Queue(j) \/ Review(j)
    PROVE  SoleInv'
<1>1. UNCHANGED <<jobs, results, resolved, workers, shelf, reader>>
  BY DEF File, Queue, Review, vars
<1>2. \A i \in Jobs : (intake[i] = "queued" => intake'[i] = "queued")
  BY DEF File, Queue, Review, DashboardInv, DeskOK
<1>3. QueuedOnly'
  <2>1. QueuedOnly
    BY DEF SoleInv
  <2>. QED
    BY <1>1, <1>2, <2>1, Zenon DEF QueuedOnly
<1>4. ASSUME NEW i \in Jobs
      PROVE  /\ ShelfExact(i)' /\ LatestOnTop(i)' /\ OneErrorEach(i)' /\ CopyKept(i)'
  <2>1. ShelfExact(i)' /\ LatestOnTop(i)'
    BY <1>1 DEF SoleInv, ShelfExact, LatestOnTop
  <2>2. OneErrorEach(i)'
    BY <1>1 DEF SoleInv, OneErrorEach, Reported, Logging
  <2>3. CopyKept(i)'
    BY <1>1 DEF SoleInv, CopyKept
  <2>. QED
    BY <2>1, <2>2, <2>3
<1>. QED
  BY <1>3, <1>4 DEF SoleInv

\* The row intake reports is one more that is allowed for.
LEMMA ReportKeepsSole ==
    ASSUME DashboardInv, SoleInv, NEW j \in Jobs, Report(j)
    PROVE  SoleInv'
<1>. DEFINE word == "PARSER_ENQUEUE_FAILED"
            s == shelf[j].errors
<1>1. /\ UNCHANGED <<jobs, results, resolved, workers, intake, reader>>
      /\ word \notin ToSet(s)
  BY DEF Report, vars
<1>2. PICK n \in 1..Len(s) + 1 :
          shelf' = [shelf EXCEPT ![j].errors = InsertAt(s, n, word)]
  BY DEF Report
<1>. DEFINE t == InsertAt(s, n, word)
<1>3. s \in Seq(ErrorWords) /\ word \in ErrorWords
  BY DEF DashboardInv, ShelfOK, ErrorWords
<1>4. Inserted(ErrorWords, s, word, t)
  <2>. HIDE DEF word
  <2>. QED
    BY <1>3, InsertAtElements
<1>. HIDE DEF t
<1>5. /\ \A i \in Jobs : /\ shelf'[i].results = shelf[i].results
                         /\ i # j => shelf'[i].errors = shelf[i].errors
      /\ shelf'[j].errors = t
  <2>1. shelf' = [shelf EXCEPT ![j].errors = t]
    BY <1>2 DEF t
  <2>. QED
    BY <2>1 DEF DashboardInv, ShelfOK
<1>6. ToSet(s) \subseteq ToSet(t) /\ word \in ToSet(t) /\ Len(t) = Len(s) + 1
  <2>1. DOMAIN s = 1..Len(s) /\ DOMAIN t = 1..Len(t)
    BY <1>3, <1>4 DEF Inserted
  <2>. HIDE DEF s, word
  <2>2. ASSUME NEW y \in ToSet(s) PROVE y \in ToSet(t)
    <3>1. PICK k \in 1..Len(s) : y = s[k]
      BY <2>1, <2>2 DEF ToSet
    <3>2. PICK i \in 1..Len(t) : t[i] = s[k]
      BY <1>4 DEF Inserted
    <3>. QED
      BY <2>1, <3>1, <3>2 DEF ToSet
  <2>3. word \in ToSet(t)
    <3>1. PICK i \in 1..Len(t) : t[i] = word
      BY <1>4 DEF Inserted
    <3>. QED
      BY <2>1, <3>1 DEF ToSet
  <2>. QED
    BY <1>4, <2>2, <2>3 DEF Inserted
<1>7. QueuedOnly'
  BY <1>1 DEF SoleInv, QueuedOnly
<1>8. ASSUME NEW i \in Jobs
      PROVE  /\ ShelfExact(i)' /\ LatestOnTop(i)' /\ OneErrorEach(i)' /\ CopyKept(i)'
  <2>1. ShelfExact(i)' /\ LatestOnTop(i)'
    BY <1>1, <1>5 DEF SoleInv, ShelfExact, LatestOnTop
  <2>2. CASE i # j
    <3>1. OneErrorEach(i)'
      BY <1>1, <1>5, <2>2 DEF SoleInv, OneErrorEach, Reported, Logging
    <3>2. CopyKept(i)'
      BY <1>1, <1>5, <2>2 DEF SoleInv, CopyKept
    <3>. QED
      BY <2>1, <3>1, <3>2
  <2>3. CASE i = j
    <3>1. Reported(j) = 0 /\ Reported(j)' = 1
      BY <1>1, <1>5, <1>6 DEF Reported
    <3>2. Len(s) \in Nat /\ jobs[j].attempts \in Nat
      BY <1>3 DEF DashboardInv, TypeOK, Row
    <3>3. OneErrorEach(j)'
      <4>1. /\ Len(s) <= jobs[j].attempts
            /\ \A w \in Workers : Logging(w) /\ workers[w].job = j =>
                  Len(s) < jobs[j].attempts
        BY <3>1, <3>2 DEF SoleInv, OneErrorEach
      <4>2. /\ Len(t) <= jobs[j].attempts + 1
            /\ \A w \in Workers : Logging(w) /\ workers[w].job = j =>
                  Len(t) < jobs[j].attempts + 1
        BY <1>6, <3>2, <4>1
      <4>. QED
        BY <1>1, <1>5, <3>1, <4>2 DEF OneErrorEach, Logging
    <3>4. CopyKept(j)'
      BY <1>1, <1>5, <1>6 DEF SoleInv, CopyKept
    <3>. QED
      BY <2>1, <2>3, <3>3, <3>4
  <2>. QED
    BY <2>2, <2>3
<1>. QED
  BY <1>7, <1>8 DEF SoleInv

\* A fetch leaves the sheets, and takes what they hold.
LEMMA FetchKeepsSole ==
    ASSUME SoleInv, NEW from, NEW copy, Fetch(from, copy),
           \A j \in Jobs :
              /\ ToSet(copy.errors[j]) \subseteq ToSet(shelf[j].errors)
              /\ \A i \in 1..Len(copy.results[j]) :
                    copy.results[j][i].resolver # "none" =>
                        copy.results[j][i].run \in resolved
    PROVE  SoleInv'
<1>1. /\ UNCHANGED <<jobs, results, resolved, workers, intake, shelf>>
      /\ reader' = copy
  BY DEF Fetch, vars
<1>2. QueuedOnly'
  BY <1>1 DEF SoleInv, QueuedOnly
<1>3. ASSUME NEW j \in Jobs
      PROVE  /\ ShelfExact(j)' /\ LatestOnTop(j)' /\ OneErrorEach(j)' /\ CopyKept(j)'
  <2>1. ShelfExact(j)' /\ LatestOnTop(j)'
    BY <1>1 DEF SoleInv, ShelfExact, LatestOnTop
  <2>2. OneErrorEach(j)'
    BY <1>1 DEF SoleInv, OneErrorEach, Reported, Logging
  <2>3. CopyKept(j)'
    BY <1>1 DEF CopyKept
  <2>. QED
    BY <2>1, <2>2, <2>3
<1>. QED
  BY <1>2, <1>3 DEF SoleInv

LEMMA ReaderKeepsSole ==
    ASSUME DashboardInv, SoleInv,
           \/ ReadSubmissions \/ ReadResults \/ ReadOps \/ ReadErrors \/ ReadJobs
           \/ ReadFails
    PROVE  SoleInv'
<1>0. reader \in Reading
  BY DEF DashboardInv, ReaderOK
<1>1. ASSUME NEW j \in Jobs
      PROVE  /\ ToSet(reader.errors[j]) \subseteq ToSet(shelf[j].errors)
             /\ \A i \in 1..Len(reader.results[j]) :
                   reader.results[j][i].resolver # "none" =>
                       reader.results[j][i].run \in resolved
  BY DEF SoleInv, CopyKept
<1>2. CASE ReadSubmissions
  <2>. DEFINE copy == [reader EXCEPT !.pc = "results", !.filed = {j \in Jobs : Filed(j)}]
  <2>1. copy.results = reader.results /\ copy.errors = reader.errors
    BY <1>0 DEF Reading
  <2>2. Fetch("submissions", copy)
    BY <1>2, Zenon DEF ReadSubmissions
  <2>. HIDE DEF copy
  <2>. QED
    BY <1>1, <2>1, <2>2, FetchKeepsSole
<1>3. CASE ReadResults
  <2>. DEFINE rows == [j \in Jobs |-> ResultRows(j)]
              copy == [reader EXCEPT !.pc = "ops", !.results = rows]
  <2>1. copy.results = rows /\ copy.errors = reader.errors
    BY <1>0 DEF Reading
  <2>2. Fetch("results", copy)
    BY <1>3, Zenon DEF ReadResults
  <2>3. ASSUME NEW j \in Jobs, NEW i \in 1..Len(rows[j]), rows[j][i].resolver # "none"
        PROVE  rows[j][i].run \in resolved
    <3>1. rows[j] = ResultRows(j) /\ Len(ResultRows(j)) = Len(shelf[j].results)
      BY ResultRowsCopy DEF DashboardInv
    <3>2. i \in DOMAIN shelf[j].results
      <4>1. shelf[j].results \in Seq(Runs)
        BY DEF DashboardInv, ShelfOK
      <4>. QED
        BY <3>1, <4>1
    <3>3. rows[j][i] = [run |-> shelf[j].results[i], output |-> TRUE,
                        resolver |-> IF shelf[j].results[i] \in resolved
                                     THEN "matches" ELSE "none"]
      BY <3>1, <3>2 DEF ResultRows
    <3>. HIDE DEF rows
    <3>. QED
      BY <2>3, <3>3
  <2>. HIDE DEF copy, rows
  <2>. QED
    BY <1>1, <2>1, <2>2, <2>3, FetchKeepsSole
<1>4. CASE ReadOps
  <2>. DEFINE copy == [reader EXCEPT !.pc = "errors", !.desk = desk]
  <2>1. copy.results = reader.results /\ copy.errors = reader.errors
    BY <1>0 DEF Reading
  <2>2. Fetch("ops", copy)
    BY <1>4, Zenon DEF ReadOps
  <2>. HIDE DEF copy
  <2>. QED
    BY <1>1, <2>1, <2>2, FetchKeepsSole
<1>5. CASE ReadErrors
  <2>. DEFINE words == [j \in Jobs |-> shelf[j].errors]
              copy == [reader EXCEPT !.pc = "jobs", !.errors = words]
  <2>1. copy.results = reader.results /\ copy.errors = words
    BY <1>0 DEF Reading
  <2>2. Fetch("errors", copy)
    BY <1>5, Zenon DEF ReadErrors
  <2>3. \A j \in Jobs : words[j] = shelf[j].errors
    OBVIOUS
  <2>. HIDE DEF copy, words
  <2>. QED
    BY <1>1, <2>1, <2>2, <2>3, FetchKeepsSole
<1>6. CASE ReadJobs \/ ReadFails
  <2>1. Fetch(reader.pc, NoReading)
    BY <1>6 DEF ReadJobs, ReadFails, Fetch
  <2>2. \A j \in Jobs : ToSet(NoReading.errors[j]) = {} /\ Len(NoReading.results[j]) = 0
    BY NoReadingOK DEF ToSet
  <2>. QED
    BY <2>1, <2>2, FetchKeepsSole
<1>. QED
  BY <1>2, <1>3, <1>4, <1>5, <1>6

LEMMA NextSole ==
    ASSUME OneWorker, DashboardInv, DashboardInv', SoloInv, SoleInv,
           [DashboardNext]_dashboardVars
    PROVE  SoloInv' /\ SoleInv'
<1>0. TypeOK /\ TypeOK'
  BY DEF DashboardInv
<1>1. CASE Work
  BY <1>0, <1>1, SoloStep, WorkKeepsSole DEF Work
<1>2. ASSUME UNCHANGED vars PROVE SoloInv'
  BY <1>0, <1>2, SoloStep
<1>3. ASSUME NEW j \in Jobs, File(j) \/ Queue(j) \/ Review(j)
      PROVE  SoloInv' /\ SoleInv'
  BY <1>2, <1>3, IntakeKeepsSole DEF File, Queue, Review
<1>4. ASSUME NEW j \in Jobs, Report(j)
      PROVE  SoloInv' /\ SoleInv'
  BY <1>2, <1>4, ReportKeepsSole DEF Report
<1>5. CASE \/ ReadSubmissions \/ ReadResults \/ ReadOps \/ ReadErrors \/ ReadJobs
           \/ ReadFails
  <2>1. UNCHANGED vars
    BY <1>5 DEF ReadSubmissions, ReadResults, ReadOps, ReadErrors, ReadJobs, ReadFails,
                Fetch
  <2>. QED
    BY <1>2, <1>5, <2>1, ReaderKeepsSole
<1>6. CASE UNCHANGED dashboardVars
  <2>1. UNCHANGED <<vars, jobs, results, resolved, workers, intake, shelf, reader>>
    BY <1>6 DEF dashboardVars, vars
  <2>2. QueuedOnly'
    BY <2>1 DEF SoleInv, QueuedOnly
  <2>3. \A j \in Jobs : ShelfExact(j)' /\ LatestOnTop(j)'
    BY <2>1 DEF SoleInv, ShelfExact, LatestOnTop
  <2>4. \A j \in Jobs : OneErrorEach(j)'
    BY <2>1 DEF SoleInv, OneErrorEach, Reported, Logging
  <2>5. \A j \in Jobs : CopyKept(j)'
    BY <2>1 DEF SoleInv, CopyKept
  <2>. QED
    BY <1>2, <2>1, <2>2, <2>3, <2>4, <2>5 DEF SoleInv
<1>. QED
  BY <1>1, <1>3, <1>4, <1>5, <1>6 DEF DashboardNext

LEMMA SoleAlways ==
    ASSUME OneWorker
    PROVE  DashboardSpec => [](DashboardInv /\ SoloInv /\ SoleInv)
<1>1. DashboardInit => DashboardInv /\ SoloInv /\ SoleInv
  BY InitDashboardInv, InitSolo, InitSole DEF DashboardInit
<1>2. DashboardInv /\ [DashboardNext]_dashboardVars => DashboardInv'
  BY NextDashboardInv
<1>3. DashboardInv /\ DashboardInv' /\ SoloInv /\ SoleInv
        /\ [DashboardNext]_dashboardVars => SoloInv' /\ SoleInv'
  BY NextSole
<1>. QED
  BY <1>1, <1>2, <1>3, PTL DEF DashboardSpec

\* With one worker, the shelf tells the rows of the worker's sheets once each,
\* an attempt leaves at most one error row, and what the reader holds stands.
THEOREM ReaderTypeCorrect == ASSUME OneWorker PROVE DashboardSpec => []ReaderTypeOK
<1>1. DashboardInv /\ SoleInv => ReaderTypeOK
  <2>. SUFFICES ASSUME DashboardInv, SoleInv PROVE ReaderTypeOK
    OBVIOUS
  <2>1. /\ intake \in [Jobs -> {"absent", "filed", "queued"}]
        /\ desk \subseteq {j \in Jobs : Filed(j)}
        /\ reader.pc \in ReaderPcs
        /\ reader.desk \subseteq desk
        /\ \A j \in Jobs : j \in reader.filed => Filed(j)
    BY DEF DashboardInv, DeskOK, ReaderOK, Reading
  <2>2. ASSUME NEW j \in Jobs
        PROVE  /\ ToSet(shelf[j].results) = results[j]
               /\ Len(shelf[j].results) = Cardinality(results[j])
               /\ ToSet(shelf[j].errors) \subseteq ErrorWords
               /\ Len(shelf[j].errors) <= jobs[j].attempts + 1
               /\ ToSet(reader.errors[j]) \subseteq ToSet(shelf[j].errors)
               /\ Len(reader.results[j]) <= Len(shelf[j].results)
               /\ \A i \in DOMAIN reader.results[j] :
                     /\ reader.results[j][i].run = shelf[j].results[i]
                     /\ reader.results[j][i].resolver # "none" =>
                           reader.results[j][i].run \in resolved
    <3>0. /\ shelf[j].results \in Seq(Runs) /\ shelf[j].errors \in Seq(ErrorWords)
          /\ reader.results[j] \in Seq(ResultCells)
          /\ ShelfExact(j) /\ OneErrorEach(j) /\ CopyKept(j) /\ Prefix(j)
      BY DEF DashboardInv, SoleInv, ShelfOK, ReaderOK, Reading
    <3>1. ToSet(shelf[j].errors) \subseteq ErrorWords
      BY <3>0 DEF ToSet
    <3>2. Len(shelf[j].errors) <= jobs[j].attempts + 1
      <4>1. jobs[j].attempts \in Nat /\ Len(shelf[j].errors) \in Nat
        BY <3>0 DEF DashboardInv, TypeOK, Row
      <4>2. Reported(j) \in {0, 1}
        BY DEF Reported
      <4>3. Len(shelf[j].errors) <= jobs[j].attempts + Reported(j)
        BY <3>0 DEF OneErrorEach
      <4>. QED
        BY <4>1, <4>2, <4>3
    <3>3. /\ Len(reader.results[j]) \in Nat /\ Len(shelf[j].results) \in Nat
          /\ DOMAIN reader.results[j] = 1..Len(reader.results[j])
      BY <3>0
    <3>4. Len(reader.results[j]) <= Len(shelf[j].results)
      <4>1. CASE Len(reader.results[j]) = 0
        BY <3>3, <4>1
      <4>2. CASE Len(reader.results[j]) # 0
        <5>1. Len(reader.results[j]) \in 1..Len(reader.results[j])
          BY <3>3, <4>2
        <5>. QED
          BY <3>0, <5>1 DEF Prefix
      <4>. QED
        BY <4>1, <4>2
    <3>5. \A i \in DOMAIN reader.results[j] :
            /\ reader.results[j][i].run = shelf[j].results[i]
            /\ reader.results[j][i].resolver # "none" =>
                  reader.results[j][i].run \in resolved
      BY <3>0, <3>3 DEF Prefix, CopyKept
    <3>. QED
      BY <3>0, <3>1, <3>2, <3>4, <3>5 DEF ShelfExact, CopyKept
  <2>. QED
    BY <2>1, <2>2, Zenon DEF ReaderTypeOK
<1>. QED
  BY <1>1, SoleAlways, PTL

-----------------------------------------------------------------------------
(* How an end is shown *)

\* Health of uploaded evidence whose success, if any, is backed.
LEMMA HealthUploaded ==
    ASSUME NEW e, ResumeState(e) = "uploaded", ~UnresolvableSuccess(e)
    PROVE  /\ HasParserRow(e) =>
                 /\ Health(e) \in {"complete", "partial_success", "resolver_failed"}
                 /\ Health(e) = "complete" <=> SelectParserResult(e).resolver # "none"
           /\ ~HasParserRow(e) /\ TerminalFailure(e) => Health(e) = "parser_failed"
<1>1. ASSUME HasParserRow(e)
      PROVE  /\ Health(e) \in {"complete", "partial_success", "resolver_failed"}
             /\ Health(e) = "complete" <=> SelectParserResult(e).resolver # "none"
  <2>1. ParserState(e) = "succeeded"
    BY <1>1 DEF ParserState
  <2>2. /\ ResolverState(e) \in {"succeeded", "failed", "not_started"}
        /\ ResolverState(e) = "succeeded" <=> SelectParserResult(e).resolver # "none"
    BY <1>1, <2>1 DEF ResolverState, HasResolverOutput
  <2>. QED
    BY <2>1, <2>2 DEF Health, DeriveHealth
<1>2. ASSUME ~HasParserRow(e), TerminalFailure(e)
      PROVE  Health(e) = "parser_failed"
  <2>1. ParserState(e) = "failed"
    BY <1>2 DEF ParserState
  <2>2. ResolverState(e) \in {"failed", "skipped_no_parser_output"}
    BY <1>2, <2>1 DEF ResolverState, HasResolverOutput
  <2>. QED
    BY <2>1, <2>2 DEF Health, DeriveHealth
<1>. QED
  BY <1>1, <1>2

\* The row that is selected from all rows of a job that ended.
LEMMA EndSelected ==
    ASSUME DashboardInv, SoloInv, SoleInv, NEW j \in Jobs, Terminal(j),
           results[j] # {}
    PROVE  LET row  == SelectParserResult(Stored(j))
               last == Last(shelf[j].results)
           IN  /\ row # NoRow
               /\ row.run = last
               /\ row.resolver # "none" <=> last \in resolved
               /\ jobs[j].status = "succeeded" => jobs[j].authority = last
<1>. DEFINE e == Stored(j)
            s == shelf[j].results
            row == SelectParserResult(e)
<1>1. e.job = JobRow(j) /\ e.results = ResultRows(j)
  BY DEF Stored
<1>2. /\ s \in Seq(Runs) /\ Len(s) \in Nat /\ DOMAIN s = 1..Len(s)
      /\ ShelfExact(j) /\ LatestOnTop(j) /\ JobOK(j)
  BY DEF DashboardInv, ShelfOK, SoleInv, SoloInv
<1>3. s # <<>> /\ Len(s) \in 1..Len(s)
  <2>1. s # <<>>
    BY <1>2 DEF ShelfExact, ToSet
  <2>. QED
    BY <1>2, <2>1
<1>4. /\ ResultRows(j) \in Seq(ResultCells)
      /\ Len(ResultRows(j)) = Len(s)
      /\ \A i \in 1..Len(s) :
            /\ ResultRows(j)[i].run = s[i]
            /\ ResultRows(j)[i].resolver # "none" <=> s[i] \in resolved
  <2>1. \A i \in 1..Len(s) :
           ResultRows(j)[i] = [run |-> s[i], output |-> TRUE,
                               resolver |-> IF s[i] \in resolved
                                            THEN "matches" ELSE "none"]
    BY <1>2 DEF ResultRows
  <2>2. \A i \in 1..Len(s) :
            /\ ResultRows(j)[i].run = s[i]
            /\ ResultRows(j)[i].resolver # "none" <=> s[i] \in resolved
    <3>. SUFFICES ASSUME NEW i \in 1..Len(s)
                  PROVE  /\ ResultRows(j)[i].run = s[i]
                         /\ ResultRows(j)[i].resolver # "none" <=> s[i] \in resolved
      OBVIOUS
    <3>. DEFINE cell == ResultRows(j)[i]
                r == s[i]
    <3>1. cell = [run |-> r, output |-> TRUE,
                  resolver |-> IF r \in resolved THEN "matches" ELSE "none"]
      BY <2>1
    <3>. HIDE DEF cell, r
    <3>2. cell.run = r /\ (cell.resolver # "none" <=> r \in resolved)
      BY <3>1
    <3>. QED
      BY <3>2 DEF cell, r
  <2>. QED
    BY <2>2, ResultRowsCopy DEF DashboardInv
<1>5. /\ Authority(e) = jobs[j].authority /\ JobStatus(e) = jobs[j].status
      /\ intake[j] = "queued"
  <2>1. intake[j] = "queued"
    BY DEF SoleInv, QueuedOnly, Terminal
  <2>. QED
    BY <1>1, <2>1, JobRowType DEF Authority, JobStatus, DashboardInv
<1>. HIDE DEF e
<1>6. CASE jobs[j].status = "succeeded"
  <2>1. /\ jobs[j].authority # NoRun /\ jobs[j].authority \in results[j]
        /\ jobs[j].authority = Last(s)
    BY <1>2, <1>6 DEF DashboardInv, BackedInv, RowBacked, LatestOnTop
  <2>. DEFINE named == {i \in DOMAIN e.results : e.results[i].run = Authority(e)}
              first == CHOOSE i \in named : \A k \in named : i <= k
  <2>2. DOMAIN e.results = 1..Len(s)
    BY <1>1, <1>4
  <2>3. Len(s) \in named /\ named \subseteq Nat
    BY <1>1, <1>3, <1>4, <1>5, <2>1, <2>2 DEF Last
  <2>4. first \in named
    <3>1. \E i \in named : \A k \in named : i <= k
      <4>. HIDE DEF named
      <4>. QED
        BY <2>3, FirstPosition
    <3>. QED
      BY <3>1
  <2>5. row = e.results[first]
    BY <1>5, <2>1, <2>3 DEF SelectParserResult
  <2>6. first \in 1..Len(s) /\ e.results[first].run = jobs[j].authority
    BY <1>5, <2>2, <2>4
  <2>. HIDE DEF first, row
  <2>7. row \in ResultCells /\ row.run = Last(s) /\ (row.resolver # "none" <=> Last(s) \in resolved)
    BY <1>1, <1>4, <2>1, <2>5, <2>6
  <2>. QED
    BY <2>1, <2>7, NoRowAssumption DEF row, e
<1>7. CASE jobs[j].status = "failed"
  <2>1. jobs[j].authority = NoRun
    BY <1>2, <1>7 DEF JobOK
  <2>2. e.results # <<>>
    BY <1>1, <1>3, <1>4
  <2>3. row = e.results[Len(e.results)]
    BY <1>5, <1>7, <2>1, <2>2 DEF SelectParserResult
  <2>. HIDE DEF row
  <2>4. row \in ResultCells /\ row.run = Last(s) /\ (row.resolver # "none" <=> Last(s) \in resolved)
    BY <1>1, <1>3, <1>4, <2>3 DEF Last
  <2>. QED
    BY <1>7, <2>4, NoRowAssumption DEF row, e
<1>. QED
  BY <1>6, <1>7 DEF Terminal

LEMMA InvEndShown == DashboardInv /\ SoloInv /\ SoleInv => EndShown
<1>. SUFFICES ASSUME DashboardInv, SoloInv, SoleInv, NEW j \in Jobs, Terminal(j)
              PROVE  /\ Quiet(j).health = "complete" <=>
                            results[j] # {} /\ Quiet(j).parsed.run \in resolved
                     /\ Quiet(j).health = "parser_failed" <=> results[j] = {}
                     /\ jobs[j].status = "succeeded" =>
                            Quiet(j).parsed.run = jobs[j].authority
                     /\ results[j] # {} => Quiet(j).parsed.run = Last(shelf[j].results)
                     /\ j \in reader.filed /\ reader.pc = "jobs" =>
                          /\ Health(Fetched(j)) # "pending_processing"
                          /\ jobs[j].status = "failed" =>
                                Health(Fetched(j)) # "broken_pipeline"
  BY Zenon DEF EndShown
<1>1. intake[j] = "queued" /\ Filed(j)
  BY DEF SoleInv, QueuedOnly, Terminal, Filed
<1>2. /\ JobRow(j) # NoRow
      /\ JobRow(j).status = jobs[j].status
      /\ JobRow(j).authority = jobs[j].authority
  BY <1>1, JobRowType DEF DashboardInv
<1>3. jobs[j].status = "succeeded" => results[j] # {}
  BY DEF DashboardInv, BackedInv, RowBacked
<1>. DEFINE e == Stored(j)
            f == Fetched(j)
<1>4. /\ ResumeState(e) = "uploaded" /\ e.source = TRUE
      /\ JobStatus(e) = jobs[j].status /\ Authority(e) = jobs[j].authority
  BY <1>1, <1>2 DEF Stored, ResumeState, JobStatus, Authority
<1>5. Quiet(j).health = Health(e) /\ Quiet(j).parsed = ParsedLayer(e)
  BY <1>4 DEF Quiet, Record
<1>6. HasParserRow(e) <=> results[j] # {}
  <2>1. shelf[j].results # <<>> <=> results[j] # {}
    <3>1. ToSet(shelf[j].results) = results[j] /\ shelf[j].results \in Seq(Runs)
      BY DEF SoleInv, ShelfExact, DashboardInv, ShelfOK
    <3>. DEFINE s == shelf[j].results
    <3>. HIDE DEF s
    <3>2. s \in Seq(Runs) /\ ToSet(s) = results[j]
      BY <3>1 DEF s
    <3>3. ASSUME s # <<>> PROVE results[j] # {}
      <4>1. 1 \in DOMAIN s
        BY <3>2, <3>3
      <4>. QED
        BY <3>2, <4>1 DEF ToSet
    <3>4. ASSUME s = <<>> PROVE results[j] = {}
      BY <3>2, <3>4 DEF ToSet
    <3>. QED
      BY <3>3, <3>4 DEF s
  <2>. QED
    BY <2>1, OutputIsARow
<1>7. ~UnresolvableSuccess(e)
  BY <1>3, <1>4, <1>6 DEF UnresolvableSuccess, DashboardInv, BackedInv, RowBacked
<1>8. TerminalFailure(e) <=> jobs[j].status = "failed"
  BY <1>4 DEF TerminalFailure, DashboardInv, TypeOK, Row, Statuses
<1>9. ASSUME results[j] # {}
      PROVE  /\ Quiet(j).health = "complete" <=> Quiet(j).parsed.run \in resolved
             /\ Quiet(j).health # "parser_failed"
             /\ jobs[j].status = "succeeded" => Quiet(j).parsed.run = jobs[j].authority
             /\ Quiet(j).parsed.run = Last(shelf[j].results)
  <2>. DEFINE row == SelectParserResult(e)
  <2>1. /\ row # NoRow /\ row.run = Last(shelf[j].results)
        /\ row.resolver # "none" <=> Last(shelf[j].results) \in resolved
        /\ jobs[j].status = "succeeded" => jobs[j].authority = Last(shelf[j].results)
    BY <1>9, EndSelected
  <2>2. ParsedLayer(e).run = row.run
    BY <2>1 DEF ParsedLayer
  <2>3. /\ Health(e) \in {"complete", "partial_success", "resolver_failed"}
        /\ Health(e) = "complete" <=> row.resolver # "none"
    BY <1>4, <1>6, <1>7, <1>9, HealthUploaded
  <2>. HIDE DEF e, row
  <2>. QED
    BY <1>5, <2>1, <2>2, <2>3
<1>10. ASSUME results[j] = {}
       PROVE  Quiet(j).health = "parser_failed" /\ jobs[j].status # "succeeded"
  BY <1>3, <1>4, <1>5, <1>6, <1>7, <1>8, <1>10, HealthUploaded DEF Terminal
<1>11. /\ Quiet(j).health = "complete" <=>
              results[j] # {} /\ Quiet(j).parsed.run \in resolved
       /\ Quiet(j).health = "parser_failed" <=> results[j] = {}
       /\ jobs[j].status = "succeeded" => Quiet(j).parsed.run = jobs[j].authority
       /\ results[j] # {} => Quiet(j).parsed.run = Last(shelf[j].results)
  BY <1>9, <1>10, Zenon
<1>12. ASSUME j \in reader.filed
       PROVE  /\ Health(f) # "pending_processing"
              /\ jobs[j].status = "failed" => Health(f) # "broken_pipeline"
  <2>1. ResumeState(f) = "uploaded" /\ JobStatus(f) = jobs[j].status
    BY <1>2 DEF Fetched, ResumeState, JobStatus
  <2>2. TerminalFailure(f) <=> jobs[j].status = "failed"
    BY <2>1 DEF TerminalFailure, DashboardInv, TypeOK, Row, Statuses
  <2>3. jobs[j].status = "succeeded" /\ ~HasParserRow(f) => UnresolvableSuccess(f)
    BY <2>1 DEF UnresolvableSuccess
  <2>4. jobs[j].status = "failed" => ~UnresolvableSuccess(f)
    BY <2>1 DEF UnresolvableSuccess
  <2>5. UnresolvableSuccess(f) => Health(f) = "broken_pipeline"
    <3>1. UnresolvableSuccess(f) => ParserState(f) = "malformed"
      BY DEF ParserState
    <3>. HIDE DEF f
    <3>. QED
      BY <2>1, <3>1 DEF Health, DeriveHealth
  <2>. HIDE DEF f
  <2>. QED
    BY <2>1, <2>2, <2>3, <2>4, <2>5, HealthUploaded DEF Terminal
<1>. QED
  BY <1>11, <1>12

\* With one worker, a job that ended is shown as what it is, and however torn
\* the read, never as work to come, nor a failed one as broken.
THEOREM EndAlwaysShown == ASSUME OneWorker PROVE DashboardSpec => []EndShown
<1>1. DashboardInv /\ SoloInv /\ SoleInv => EndShown
  BY InvEndShown
<1>. QED
  BY <1>1, SoleAlways, PTL
=============================================================================
