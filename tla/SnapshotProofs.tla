--------------------------- MODULE SnapshotProofs ---------------------------
(***************************************************************************)
(* What a snapshot record says is coherent for every evidence: any number  *)
(* of result rows, of any run, with any errors and any job row.            *)
(***************************************************************************)
EXTENDS Dashboard, WellFoundedInduction, TLAPS

\* A submission without a resume has left no trace of a worker.
Unprocessed(e) ==
    /\ ~HasParserRow(e)
    /\ LatestErrorCode(e) = ""
    /\ JobStatus(e) = "none"

\* The badge is what the three states of a present submission derive.
LEMMA HealthOfRecord ==
    ASSUME NEW e, e.source = TRUE
    PROVE  /\ Record(e).health = DeriveHealth(ResumeState(e), ParserState(e), ResolverState(e))
           /\ Record(e).parsed = ParsedLayer(e)
           /\ Record(e).resolved = ResolvedLayer(e)
           /\ Record(e).job = JobLayer(e)
  BY Zenon DEF Record, Health

\* A success that nothing backs makes a malformed job layer.
LEMMA UnbackedIsMalformed ==
    ASSUME NEW e, UnresolvableSuccess(e)
    PROVE  JobStatus(e) = "succeeded" /\ JobLayer(e).quality = "malformed"
<1>1. JobStatus(e) = "succeeded"
  BY DEF UnresolvableSuccess
<1>2. e.job # NoRow
  BY <1>1 DEF JobStatus
<1>. QED
  BY <1>1, <1>2 DEF JobLayer

\* The badge of a present submission that has a resume.
LEMMA StoryWithResume ==
    ASSUME NEW e, e.source = TRUE, ResumeState(e) # "none_provided"
    PROVE  OneStory(e)
<1>0. CASE ResumeState(e) = "uploaded"
  <2>1. CASE UnresolvableSuccess(e)
    <3>1. ParserState(e) = "malformed"
      BY <2>1 DEF ParserState
    <3>2. Record(e).health = "broken_pipeline"
      BY <1>0, <3>1, HealthOfRecord DEF DeriveHealth
    <3>. QED
      BY <2>1, <3>2, UnbackedIsMalformed, HealthOfRecord DEF OneStory
  <2>2. CASE ~UnresolvableSuccess(e) /\ HasParserRow(e)
    <3>1. ParserState(e) = "succeeded"
      BY <1>0, <2>2 DEF ParserState
    <3>2. ParsedLayer(e).result \in Shown
      BY <2>2 DEF ParsedLayer, HasParserRow, Shown
    <3>3. CASE HasResolverOutput(e)
      <4>1. Record(e).health = "complete"
        BY <1>0, <3>1, <3>3, HealthOfRecord DEF DeriveHealth, ResolverState
      <4>2. ResolvedLayer(e).result \in Shown
        BY <3>3 DEF ResolvedLayer, Shown
      <4>. QED
        BY <3>2, <4>1, <4>2, HealthOfRecord DEF OneStory, Stories
    <3>4. CASE ~HasResolverOutput(e) /\ LatestErrorCode(e) = "RESOLVER_FAILED"
      <4>1. Record(e).health = "resolver_failed"
        BY <1>0, <3>1, <3>4, HealthOfRecord DEF DeriveHealth, ResolverState
      <4>2. ResolvedLayer(e).result = "failed"
        BY <3>4 DEF ResolvedLayer
      <4>. QED
        BY <3>2, <4>1, <4>2, HealthOfRecord DEF OneStory, Stories
    <3>5. CASE ~HasResolverOutput(e) /\ LatestErrorCode(e) # "RESOLVER_FAILED"
      <4>1. Record(e).health = "partial_success"
        BY <1>0, <3>1, <3>5, HealthOfRecord DEF DeriveHealth, ResolverState
      <4>2. ResolvedLayer(e).result = "not_yet_run"
        BY <2>2, <3>5 DEF ResolvedLayer
      <4>. QED
        BY <3>2, <4>1, <4>2, HealthOfRecord DEF OneStory, Stories
    <3>. QED
      BY <3>3, <3>4, <3>5
  <2>3. CASE /\ ~UnresolvableSuccess(e) /\ ~HasParserRow(e)
             /\ TerminalFailure(e) \/ LatestErrorCode(e) = "PARSER_FAILED"
    <3>1. ParserState(e) = "failed"
      BY <1>0, <2>3 DEF ParserState
    <3>2. ~HasResolverOutput(e)
      BY <2>3 DEF HasResolverOutput
    <3>3. Record(e).health = "parser_failed"
      BY <1>0, <3>1, <3>2, HealthOfRecord DEF DeriveHealth, ResolverState
    <3>4. ParsedLayer(e).result = "failed"
      BY <2>3 DEF ParsedLayer, HasParserRow
    <3>5. ResolvedLayer(e).result \in {"failed", "unavailable_upstream"}
      BY <2>3, <3>2 DEF ResolvedLayer
    <3>. QED
      BY <3>3, <3>4, <3>5, HealthOfRecord DEF OneStory, Stories
  <2>4. CASE /\ ~UnresolvableSuccess(e) /\ ~HasParserRow(e) /\ ~TerminalFailure(e)
             /\ LatestErrorCode(e) # "PARSER_FAILED"
    <3>1. ParserState(e) = "not_started"
      BY <1>0, <2>4 DEF ParserState
    <3>2. ~HasResolverOutput(e)
      BY <2>4 DEF HasResolverOutput
    <3>3. /\ ParsedLayer(e).state = "pending"
          /\ ParsedLayer(e).result = "not_yet_run"
      BY <1>0, <2>4 DEF ParsedLayer, HasParserRow
    <3>4. CASE LatestErrorCode(e) = "RESOLVER_FAILED"
      <4>1. Record(e).health = "broken_pipeline"
        BY <1>0, <3>1, <3>2, <3>4, HealthOfRecord DEF DeriveHealth, ResolverState
      <4>2. ResolvedLayer(e).result = "failed"
        BY <3>2, <3>4 DEF ResolvedLayer
      <4>. QED
        BY <3>3, <4>1, <4>2, HealthOfRecord DEF OneStory
    <3>5. CASE LatestErrorCode(e) # "RESOLVER_FAILED"
      <4>1. Record(e).health = "pending_processing"
        BY <1>0, <3>1, <3>2, <3>5, HealthOfRecord DEF DeriveHealth, ResolverState
      <4>2. ResolvedLayer(e).result = "not_yet_run"
        BY <1>0, <2>4, <3>2, <3>5 DEF ResolvedLayer
      <4>. QED
        BY <3>3, <4>1, <4>2, HealthOfRecord DEF OneStory, Stories
    <3>. QED
      BY <3>4, <3>5
  <2>. QED
    BY <2>1, <2>2, <2>3, <2>4
<1>1. CASE ResumeState(e) # "uploaded"
  <2>1. Record(e).health = "broken_pipeline" \/ Record(e).health = "pending_processing"
    BY <1>1, HealthOfRecord DEF DeriveHealth
  <2>2. CASE Record(e).health = "broken_pipeline"
    BY <1>1, <2>2 DEF OneStory
  <2>3. CASE Record(e).health = "pending_processing"
    <3>1. ParserState(e) = "not_started" /\ ResolverState(e) = "not_started"
      BY <1>1, <2>3, HealthOfRecord DEF DeriveHealth
    <3>2. /\ ~HasParserRow(e) /\ ~TerminalFailure(e) /\ ~UnresolvableSuccess(e)
          /\ LatestErrorCode(e) # "PARSER_FAILED"
      BY <3>1 DEF ParserState
    <3>3. ~HasResolverOutput(e) /\ LatestErrorCode(e) # "RESOLVER_FAILED"
      BY <3>1, <3>2 DEF HasResolverOutput, ResolverState
    <3>4. ParsedLayer(e).result = "not_yet_run"
      BY <3>2 DEF ParsedLayer, HasParserRow
    <3>5. ResolvedLayer(e).result = "not_yet_run"
      BY <3>2, <3>3 DEF ResolvedLayer
    <3>. QED
      BY <2>3, <3>4, <3>5, HealthOfRecord DEF OneStory, Stories
  <2>. QED
    BY <2>1, <2>2, <2>3
<1>. QED
  BY <1>0, <1>1

\* A submission that gave no resume is shown as just that.
LEMMA StoryWithoutResume ==
    ASSUME NEW e, e.source = TRUE, ResumeState(e) = "none_provided", Unprocessed(e)
    PROVE  OneStory(e)
<1>1. ~UnresolvableSuccess(e) /\ ~TerminalFailure(e)
  BY DEF Unprocessed, UnresolvableSuccess, TerminalFailure
<1>2. /\ ParserState(e) = "skipped_no_resume"
      /\ ResolverState(e) = "skipped_no_parser_output"
  BY <1>1 DEF ParserState, ResolverState
<1>3. Record(e).health = "no_resume_ok"
  BY <1>2, HealthOfRecord DEF DeriveHealth
<1>4. ParsedLayer(e).result = "skipped"
  BY <1>1 DEF ParsedLayer, Unprocessed, HasParserRow
<1>5. ResolvedLayer(e).result = "unavailable_upstream"
  BY <1>1 DEF ResolvedLayer, Unprocessed, HasResolverOutput
<1>. QED
  BY <1>3, <1>4, <1>5, HealthOfRecord DEF OneStory, Stories

\* A submission whose source row is gone is shown without any artifact.
LEMMA StoryWithoutSource ==
    ASSUME NEW e, e.source = FALSE
    PROVE  OneStory(e)
<1>1. /\ Record(e).health = "coordination_only"
      /\ Record(e).parsed.result = "source_unavailable"
      /\ Record(e).resolved.result = "source_unavailable"
  BY DEF Record
<1>. QED
  BY <1>1 DEF OneStory, Stories

\* The resume endpoint says of the submission what the badge says.
LEMMA AccessTellsTheSame ==
    ASSUME NEW e, e.source \in BOOLEAN,
           e.resume \in ResumeStates => e.resume = "uploaded"
    PROVE  AccessAgrees(e)
<1>1. SUFFICES ASSUME NEW fileId \in BOOLEAN, NEW drive \in DriveAnswers
               PROVE  /\ Access(e, fileId, drive) = "served"
                            => e.source /\ ResumeState(e) = "uploaded"
                      /\ Access(e, fileId, drive) = "SUBMISSION_NOT_FOUND"
                            <=> Record(e).health = "coordination_only"
                      /\ Record(e).health = "no_resume_ok"
                            => Access(e, fileId, drive) = "RESUME_NOT_AVAILABLE"
                      /\ Access(e, fileId, drive) = "RESUME_NOT_AVAILABLE"
                            => Record(e).health \in {"no_resume_ok", "broken_pipeline"}
  BY Zenon DEF AccessAgrees
<1>2. CASE e.source = FALSE
  <2>1. Record(e).health = "coordination_only"
    BY <1>2 DEF Record
  <2>2. Access(e, fileId, drive) = "SUBMISSION_NOT_FOUND"
    BY <1>2 DEF Access
  <2>. QED
    BY <2>1, <2>2
<1>3. CASE e.source = TRUE
  <2>1. /\ Record(e).health # "coordination_only"
        /\ Record(e).health = "no_resume_ok" => ResumeState(e) = "none_provided"
        /\ ResumeState(e) = "none_provided" \/ ResumeState(e) = ""
              => Record(e).health \in {"no_resume_ok", "broken_pipeline"}
    BY <1>3, HealthOfRecord DEF DeriveHealth
  <2>2. ResumeState(e) = "none_provided" => e.resume = "missing"
    BY DEF ResumeState, ResumeStates
  <2>3. /\ e.resume = "missing" => ResumeState(e) = "none_provided"
        /\ e.resume = "" => ResumeState(e) = ""
        /\ e.resume = "uploaded" => ResumeState(e) = "uploaded"
    BY DEF ResumeState
  <2>4. /\ Access(e, fileId, drive) = "served" => e.resume = "uploaded"
        /\ Access(e, fileId, drive) # "SUBMISSION_NOT_FOUND"
        /\ Access(e, fileId, drive) = "RESUME_NOT_AVAILABLE"
              <=> e.resume \in {"", "missing"}
    BY <1>3 DEF Access
  <2>. QED
    BY <1>3, <2>1, <2>2, <2>3, <2>4
<1>. QED
  BY <1>2, <1>3

\* Whatever the sheets hold of a submission, its badge, its panels, its job
\* layer and the resume endpoint tell one story, provided nothing was processed
\* that was never given and the resume_status cell holds no state's name.
THEOREM RecordsTellOneStory ==
    ASSUME NEW e, e.source \in BOOLEAN,
           e.resume \in ResumeStates => e.resume = "uploaded",
           ResumeState(e) = "none_provided" => Unprocessed(e)
    PROVE  OneStory(e) /\ AccessAgrees(e)
<1>1. OneStory(e)
  <2>1. CASE e.source = FALSE
    BY <2>1, StoryWithoutSource
  <2>2. CASE e.source = TRUE /\ ResumeState(e) = "none_provided"
    BY <2>2, StoryWithoutResume
  <2>3. CASE e.source = TRUE /\ ResumeState(e) # "none_provided"
    BY <2>3, StoryWithResume
  <2>. QED
    BY <2>1, <2>2, <2>3
<1>2. AccessAgrees(e)
  BY AccessTellsTheSame
<1>. QED
  BY <1>1, <1>2

\* So do the records of the archives.
LEMMA ArchivesTellOneStory ==
    ASSUME NEW e \in Archives PROVE OneStory(e) /\ AccessAgrees(e)
<1>2. e.source \in BOOLEAN
  BY DEF Archives
<1>3. e.resume \in ResumeStates => e.resume = "uploaded"
  BY DEF Archives, ResumeStates
<1>4. ResumeState(e) = "none_provided" => Unprocessed(e)
  <2>1. CASE e.resume = "missing"
    <3>1. e.results = <<>> /\ e.errors = <<>> /\ e.job = NoRow
      BY <2>1 DEF Archives
    <3>2. JobStatus(e) = "none" /\ Authority(e) = NoRun /\ LatestErrorCode(e) = ""
      BY <3>1 DEF JobStatus, Authority, LatestErrorCode
    <3>3. SelectParserResult(e) = NoRow
      BY <3>1, <3>2 DEF SelectParserResult
    <3>. QED
      BY <3>2, <3>3 DEF Unprocessed, HasParserRow
  <2>2. CASE e.resume # "missing"
    <3>1. e.resume \in {"uploaded", "failed", "pending", "", "other"}
      BY <2>2 DEF Archives
    <3>. QED
      BY <3>1 DEF ResumeState
  <2>. QED
    BY <2>1, <2>2
<1>. QED
  BY <1>2, <1>3, <1>4, RecordsTellOneStory

-----------------------------------------------------------------------------
(* The health function and the documented matrix *)

\* The rows of the matrix that three states fall under.
MatrixRows(r, p, s) ==
    {m \in DocumentedMatrix : r \in m[1] /\ p \in m[2] /\ s \in m[3]}

\* The chain of early returns of derive_submission_health_state gives each
\* triple of states the health of the one row it falls under, and
\* broken_pipeline to those that fall under none.
LEMMA HealthByMatrix ==
    ASSUME NEW r, NEW p, NEW s
    PROVE  {m[4] : m \in MatrixRows(r, p, s)} =
              IF DeriveHealth(r, p, s) = "broken_pipeline" THEN {}
              ELSE {DeriveHealth(r, p, s)}
<1>. DEFINE m1 == <<{"none_provided"}, {"not_started", "skipped_no_resume"},
                    {"not_started", "skipped_no_parser_output"}, "no_resume_ok">>
            m2 == <<{"uploaded"}, {"not_started", "started"}, {"not_started"},
                    "pending_processing">>
            m3 == <<{"uploaded"}, {"succeeded"}, {"not_started"}, "partial_success">>
            m4 == <<{"uploaded"}, {"succeeded"}, {"succeeded"}, "complete">>
            m5 == <<{"uploaded"}, {"succeeded"}, {"failed"}, "resolver_failed">>
            m6 == <<{"uploaded"}, {"failed"},
                    {"not_started", "failed", "skipped_no_parser_output"},
                    "parser_failed">>
            m7 == <<{"upload_pending", "upload_failed"}, {"not_started"},
                    {"not_started"}, "pending_processing">>
            under(m) == r \in m[1] /\ p \in m[2] /\ s \in m[3]
            h == DeriveHealth(r, p, s)
<1>1. DocumentedMatrix = {m1, m2, m3, m4, m5, m6, m7}
  BY DEF DocumentedMatrix
<1>2. /\ m1[4] = "no_resume_ok" /\ m2[4] = "pending_processing"
      /\ m3[4] = "partial_success" /\ m4[4] = "complete"
      /\ m5[4] = "resolver_failed" /\ m6[4] = "parser_failed"
      /\ m7[4] = "pending_processing"
  OBVIOUS
<1>3. /\ under(m1) <=> /\ r = "none_provided"
                       /\ p \in {"not_started", "skipped_no_resume"}
                       /\ s \in {"not_started", "skipped_no_parser_output"}
      /\ under(m2) <=> /\ r = "uploaded" /\ p \in {"not_started", "started"}
                       /\ s = "not_started"
      /\ under(m3) <=> r = "uploaded" /\ p = "succeeded" /\ s = "not_started"
      /\ under(m4) <=> r = "uploaded" /\ p = "succeeded" /\ s = "succeeded"
      /\ under(m5) <=> r = "uploaded" /\ p = "succeeded" /\ s = "failed"
      /\ under(m6) <=> /\ r = "uploaded" /\ p = "failed"
                       /\ s \in {"not_started", "failed", "skipped_no_parser_output"}
      /\ under(m7) <=> /\ r \in {"upload_pending", "upload_failed"}
                       /\ p = "not_started" /\ s = "not_started"
  OBVIOUS
<1>4. /\ under(m1) <=> h = "no_resume_ok"
      /\ under(m2) \/ under(m7) <=> h = "pending_processing"
      /\ under(m3) <=> h = "partial_success"
      /\ under(m4) <=> h = "complete"
      /\ under(m5) <=> h = "resolver_failed"
      /\ under(m6) <=> h = "parser_failed"
      /\ \/ under(m1) \/ under(m2) \/ under(m3) \/ under(m4) \/ under(m5)
         \/ under(m6) \/ under(m7) \/ h = "broken_pipeline"
  <2>. HIDE DEF under, m1, m2, m3, m4, m5, m6, m7
  <2>. QED
    BY <1>3 DEF DeriveHealth
<1>5. MatrixRows(r, p, s) = {m \in {m1, m2, m3, m4, m5, m6, m7} : under(m)}
  BY <1>1 DEF MatrixRows
<1>. HIDE DEF under, m1, m2, m3, m4, m5, m6, m7, h
<1>6. \A m \in MatrixRows(r, p, s) : m[4] = h /\ h # "broken_pipeline"
  BY <1>2, <1>4, <1>5
<1>7. h # "broken_pipeline" => \E m \in MatrixRows(r, p, s) : TRUE
  BY <1>4, <1>5
<1>8. {m[4] : m \in MatrixRows(r, p, s)} =
         IF h = "broken_pipeline" THEN {} ELSE {h}
  BY <1>6, <1>7
<1>. QED
  BY <1>8 DEF h

\* For every evidence there is, the health badge is what the matrix of
\* state_contract.md says of the three derived states, and the transition
\* validators permit what the matrix leaves to be done.
THEOREM HealthFollowsMatrix == ASSUME NEW e PROVE FollowsMatrix(e)
<1>. DEFINE r == ResumeState(e)
            p == ParserState(e)
            s == ResolverState(e)
<1>1. Health(e) = DeriveHealth(r, p, s)
  BY DEF Health
<1>. HIDE DEF r, p, s
<1>2. {m[4] : m \in MatrixRows(r, p, s)} =
         IF Health(e) = "broken_pipeline" THEN {} ELSE {Health(e)}
  BY <1>1, HealthByMatrix
<1>3. /\ CanSkipParser(r, p, s) <=> Health(e) = "no_resume_ok"
      /\ CanRunResolver(r, p, s) <=> Health(e) = "partial_success"
      /\ CanStartParser(r, p, s) => Health(e) = "pending_processing"
  BY <1>1 DEF DeriveHealth, CanSkipParser, CanRunResolver, CanStartParser
<1>4. \A v \in ReviewStatuses :
         CanUpdateOps(r, p, s, v) <=> Health(e) # "broken_pipeline"
  BY <1>1 DEF CanUpdateOps, CanMaterialize
<1>. QED
  BY <1>2, <1>3, <1>4, Zenon DEF FollowsMatrix, MatrixRows, r, p, s

-----------------------------------------------------------------------------
(* The two selections of the current ops row *)

\* A nonempty set of positions has a first one.
LEMMA FirstPosition ==
    ASSUME NEW T, T \subseteq Nat, T # {}
    PROVE  \E i \in T : \A k \in T : i <= k
<1>. DEFINE Below == {pair \in Nat \X Nat : pair[1] < pair[2]}
<1>1. IsWellFoundedOn(Below, Nat)
  BY NatLessThanWellFounded, Zenon DEF OpToRel
<1>2. PICK i \in T : \A k \in T : <<k, i>> \notin Below
  <2>. HIDE DEF Below
  <2>. QED
    BY <1>1, WFMin
<1>3. \A k \in T : ~(k < i)
  BY <1>2
<1>. QED
  BY <1>3

\* Row k is the newest of the first i, and the first of that age.
Newest(rows, i, k) == \A m \in 1..i :
    rows[k].at > rows[m].at \/ (rows[k].at = rows[m].at /\ k <= m)

\* Of the rows seen so far one is the newest, and the next row replaces it
\* exactly when it is newer still.
LEMMA NewestNext ==
    ASSUME NEW rows, NEW i \in Nat \ {0}, NEW k \in 1..i,
           \A m \in 1..(i + 1) : rows[m].at \in Nat, Newest(rows, i, k)
    PROVE  IF rows[i + 1].at > rows[k].at THEN Newest(rows, i + 1, i + 1)
                                          ELSE Newest(rows, i + 1, k)
  BY DEF Newest

LEMMA NewestUnique ==
    ASSUME NEW rows, NEW i \in Nat, \A m \in 1..i : rows[m].at \in Nat,
           NEW k \in 1..i, NEW n \in 1..i, Newest(rows, i, k), Newest(rows, i, n)
    PROVE  k = n
  BY DEF Newest

LEMMA NewestExists ==
    ASSUME NEW rows, NEW N \in Nat, \A m \in 1..N : rows[m].at \in Nat,
           NEW i \in 1..N
    PROVE  \E k \in 1..i : Newest(rows, i, k)
<1>. DEFINE T == {n \in 1..N : \A k \in 1..n : ~Newest(rows, n, k)}
<1>1. SUFFICES ASSUME T # {} PROVE FALSE
  OBVIOUS
<1>2. T \subseteq Nat
  OBVIOUS
<1>3. PICK n \in T : \A m \in T : n <= m
  <2>. HIDE DEF T
  <2>. QED
    BY <1>1, <1>2, FirstPosition
<1>4. CASE n = 1
  <2>1. Newest(rows, 1, 1)
    BY DEF Newest
  <2>. QED
    BY <1>3, <1>4, <2>1
<1>5. CASE n # 1
  <2>1. n - 1 \in 1..N /\ n - 1 \in Nat \ {0} /\ n - 1 \notin T /\ n = (n - 1) + 1
    BY <1>3, <1>5
  <2>2. PICK k \in 1..(n - 1) : Newest(rows, n - 1, k)
    BY <2>1
  <2>3. Newest(rows, n, n) \/ Newest(rows, n, k)
    BY <1>3, <2>1, <2>2, NewestNext
  <2>. QED
    BY <1>3, <2>1, <2>2, <2>3
<1>. QED
  BY <1>4, <1>5

\* The walk over the rows keeps the row that sorting them puts first.
LEMMA SelectionsAgree ==
    ASSUME NEW S, NEW rows \in Seq(S),
           \A i \in 1..Len(rows) : rows[i] # NoRow /\ rows[i].at \in Nat
    PROVE  CurrentOps(rows) = LatestOps(rows)
<1>. DEFINE N == Len(rows)
            new(i) == CHOOSE k \in 1..i : Newest(rows, i, k)
            best == [i \in 0..N |-> IF i = 0 THEN NoRow ELSE rows[new(i)]]
            step(g, i) == IF i = 0 THEN NoRow
                          ELSE IF g[i - 1] = NoRow \/ rows[i].at > g[i - 1].at
                          THEN rows[i] ELSE g[i - 1]
            current == CHOOSE g : g = [i \in 0..N |-> step(g, i)]
<1>1. N \in Nat /\ DOMAIN rows = 1..N
  OBVIOUS
<1>2. ASSUME NEW i \in 1..N PROVE new(i) \in 1..i /\ Newest(rows, i, new(i))
  BY <1>1, NewestExists
<1>3. ASSUME NEW i \in 1..N PROVE best[i] = step(best, i)
  <2>1. CASE i = 1
    <3>1. new(1) = 1
      BY <1>2, <2>1
    <3>2. 0 \in 0..N /\ 1 \in 0..N
      BY <1>1, <2>1
    <3>3. best[0] = NoRow
      BY <3>2
    <3>4. best[1] = rows[new(1)]
      <4>. HIDE DEF new
      <4>. QED
        BY <3>2
    <3>5. best[1] = rows[1]
      BY <3>1, <3>4
    <3>. QED
      BY <2>1, <3>3, <3>5
  <2>2. CASE i # 1
    <3>. DEFINE p == i - 1
    <3>1. p \in 1..N /\ p \in Nat \ {0} /\ i = p + 1 /\ i \in Nat
      BY <1>1, <2>2
    <3>2. /\ new(p) \in 1..p /\ Newest(rows, p, new(p))
          /\ new(i) \in 1..i /\ Newest(rows, i, new(i))
      BY <1>2, <3>1
    <3>3. best[p] = rows[new(p)] /\ best[i] = rows[new(i)] /\ best[p] # NoRow
      BY <1>1, <3>1, <3>2
    <3>. HIDE DEF new, best, p
    <3>4. IF rows[i].at > rows[new(p)].at THEN Newest(rows, i, i)
                                         ELSE Newest(rows, i, new(p))
      BY <3>1, <3>2, NewestNext
    <3>5. new(i) = IF rows[i].at > rows[new(p)].at THEN i ELSE new(p)
      BY <1>1, <3>1, <3>2, <3>4, NewestUnique
    <3>6. step(best, i) = IF rows[i].at > best[p].at THEN rows[i] ELSE best[p]
      BY <3>1, <3>3 DEF p
    <3>. QED
      BY <3>3, <3>5, <3>6
  <2>. QED
    BY <2>1, <2>2
<1>4. best = [i \in 0..N |-> step(best, i)]
  <2>1. best = [i \in 0..N |-> best[i]]
    OBVIOUS
  <2>2. best[0] = step(best, 0)
    BY <1>1
  <2>. HIDE DEF best, step
  <2>3. \A i \in 0..N : best[i] = step(best, i)
    BY <1>1, <1>3, <2>2
  <2>. QED
    BY <2>1, <2>3
<1>5. current = [i \in 0..N |-> step(current, i)]
  <2>. HIDE DEF best, step
  <2>. QED
    BY <1>4
<1>6. ASSUME NEW i \in 0..N PROVE current[i] = best[i]
  <2>. DEFINE T == {n \in 0..N : current[n] # best[n]}
  <2>0. /\ \A n \in 0..N : current[n] = step(current, n)
        /\ \A n \in 0..N : best[n] = step(best, n)
    <3>. HIDE DEF current, best, step
    <3>. QED
      BY <1>4, <1>5
  <2>1. SUFFICES ASSUME T # {} PROVE FALSE
    OBVIOUS
  <2>2. PICK n \in T : \A m \in T : n <= m
    <3>1. T \subseteq Nat
      BY <1>1
    <3>. HIDE DEF T
    <3>. QED
      BY <2>1, <3>1, FirstPosition
  <2>. HIDE DEF current, best
  <2>3. n # 0
    BY <2>0, <2>2
  <2>4. current[n - 1] = best[n - 1]
    BY <1>1, <2>2, <2>3
  <2>. QED
    BY <2>0, <2>2, <2>3, <2>4
<1>7. CurrentOps(rows) = best[N]
  <2>1. CurrentOps(rows) = current[N]
    BY Zenon DEF CurrentOps
  <2>. HIDE DEF current, best
  <2>. QED
    BY <1>1, <1>6, <2>1
<1>8. LatestOps(rows) = best[N]
  <2>1. CASE N = 0
    <3>1. rows = <<>>
      BY <2>1
    <3>. QED
      BY <2>1, <3>1 DEF LatestOps
  <2>2. CASE N # 0
    <3>. DEFINE newest == {i \in DOMAIN rows : \A k \in DOMAIN rows :
                             \/ rows[i].at > rows[k].at
                             \/ rows[i].at = rows[k].at /\ i <= k}
    <3>1. newest = {i \in 1..N : Newest(rows, N, i)}
      BY <1>1 DEF Newest
    <3>2. N \in 1..N
      BY <1>1, <2>2
    <3>3. new(N) \in newest
      BY <1>2, <3>1, <3>2
    <3>4. \A i \in newest : i = new(N)
      <4>. HIDE DEF new
      <4>. QED
        BY <1>1, <1>2, <3>1, <3>2, NewestUnique
    <3>5. rows # <<>>
      BY <2>2
    <3>6. LatestOps(rows) = rows[CHOOSE i \in newest : TRUE]
      BY <3>5, Zenon DEF LatestOps
    <3>7. (CHOOSE i \in newest : TRUE) = new(N)
      <4>. HIDE DEF newest, new
      <4>. QED
        BY <3>3, <3>4
    <3>8. best[N] = rows[new(N)]
      BY <1>1, <2>2
    <3>. QED
      BY <3>6, <3>7, <3>8
  <2>. QED
    BY <2>1, <2>2
<1>. QED
  BY <1>7, <1>8

\* Whatever the number, the ages and the order of a submission's ops rows, its
\* status and its coordination come from one row, and coordination is trusted
\* only when no second row claims the submission.
THEOREM OpsFromOneRow ==
    ASSUME NEW e, e.source \in BOOLEAN, NEW S, e.ops \in Seq(S),
           \A i \in 1..Len(e.ops) : e.ops[i] # NoRow /\ e.ops[i].at \in Nat
    PROVE  OpsAgree(e)
<1>. DEFINE rows == e.ops
<1>1. CurrentOps(rows) = LatestOps(rows)
  BY SelectionsAgree
<1>2. /\ Record(e).ops = ShownStatus(CurrentOps(rows))
      /\ Record(e).coordination = CoordinationState(rows)
  <2>1. CASE e.source = TRUE
    BY <1>1, <2>1, Zenon DEF Record
  <2>2. CASE e.source = FALSE
    BY <2>2, Zenon DEF Record
  <2>. QED
    BY <2>1, <2>2
<1>3. Len(rows) \in Nat /\ DOMAIN rows = 1..Len(rows) /\ (Len(rows) = 0 <=> rows = <<>>)
  OBVIOUS
<1>4. Len(rows) = 1 => CurrentOps(rows) = rows[1]
  <2>. HIDE DEF rows
  <2>1. ASSUME Len(rows) = 1 PROVE LatestOps(rows) = rows[1]
    <3>1. rows # <<>> /\ DOMAIN rows = {1}
      BY <1>3, <2>1
    <3>. QED
      BY <3>1 DEF LatestOps
  <2>. QED
    BY <1>1, <2>1
<1>. HIDE DEF rows
<1>5. /\ CoordinationState(rows) \in {"active", "ended"} =>
            Len(rows) = 1 /\ CoordinationState(rows) = rows[1].coordination
      /\ CoordinationState(rows) = "unassessed" =>
            \A i \in DOMAIN rows : rows[i].coordination = ""
  <2>1. CASE Len(rows) > 1
    <3>1. CoordinationState(rows) = "malformed"
      BY <2>1 DEF CoordinationState
    <3>. QED
      BY <3>1
  <2>2. CASE Len(rows) = 0
    <3>1. rows = <<>> /\ DOMAIN rows = {} /\ ~(Len(rows) > 1)
      BY <1>3, <2>2
    <3>2. CoordinationState(rows) = "unassessed"
      BY <3>1, Zenon DEF CoordinationState
    <3>. QED
      BY <3>1, <3>2
  <2>3. CASE Len(rows) = 1
    <3>. DEFINE c == rows[1].coordination
    <3>1. rows # <<>> /\ DOMAIN rows = {1} /\ ~(Len(rows) > 1)
      BY <1>3, <2>3
    <3>2. CoordinationState(rows) = IF c = "" THEN "unassessed"
                                    ELSE IF c \in {"active", "ended"} THEN c
                                    ELSE "malformed"
      BY <1>4, <2>3, <3>1, Zenon DEF CoordinationState
    <3>3. CASE c = ""
      BY <3>1, <3>2, <3>3
    <3>4. CASE c \in {"active", "ended"}
      BY <2>3, <3>2, <3>4
    <3>5. CASE c # "" /\ c \notin {"active", "ended"}
      BY <3>2, <3>5
    <3>. HIDE DEF c
    <3>. QED
      BY <3>3, <3>4, <3>5
  <2>4. Len(rows) > 1 \/ Len(rows) = 0 \/ Len(rows) = 1
    BY <1>3
  <2>. QED
    BY <2>1, <2>2, <2>3, <2>4, Zenon
<1>. QED
  BY <1>2, <1>5, Zenon DEF OpsAgree, rows

LEMMA ArchivedOpsRows ==
    ASSUME NEW e \in Archives
    PROVE  /\ e.source \in BOOLEAN /\ e.ops \in Seq(OpsCells)
           /\ \A i \in 1..Len(e.ops) : e.ops[i] # NoRow /\ e.ops[i].at \in Nat
<1>1. e.source \in BOOLEAN /\ e.ops \in {<<>>} \cup ArchivedOps
  BY DEF Archives
<1>2. e.ops \in Seq(OpsCells)
  <2>1. CASE e.ops \in {<<row>> : row \in OpsCells}
    <3>1. PICK a \in OpsCells : e.ops = <<a>>
      BY <2>1
    <3>2. <<a>> \in Seq(OpsCells)
      OBVIOUS
    <3>. QED
      BY <3>1, <3>2
  <2>2. CASE e.ops \in OpsCells \X OpsCells
    <3>1. PICK a \in OpsCells, b \in OpsCells : e.ops = <<a, b>>
      BY <2>2
    <3>2. <<a, b>> \in Seq(OpsCells)
      OBVIOUS
    <3>. QED
      BY <3>1, <3>2
  <2>3. CASE e.ops = <<>>
    BY <2>3
  <2>. QED
    BY <1>1, <2>1, <2>2, <2>3, Zenon DEF ArchivedOps
<1>3. \A row \in OpsCells : row # NoRow /\ row.at \in Nat
  <2>1. \A row \in OpsCells : row # NoRow
    BY NoRowAssumption
  <2>2. \A row \in OpsCells : row.at \in 0..1
    BY DEF OpsCells
  <2>. QED
    BY <2>1, <2>2
<1>. QED
  BY <1>1, <1>2, <1>3

\* Nobody works on the archive.
LEMMA ArchiveStays == DashboardNext => UNCHANGED archive
  BY DEF DashboardNext, File, Queue, Report, Review, Work, Fetch, ReadSubmissions,
         ReadResults, ReadOps, ReadErrors, ReadJobs, ReadFails

\* The layers of a record agree over all the evidence that is model-checked,
\* for any set of runs: the badge, the panels and the job layer of
\* assemble_snapshot_records and the answer of get_mediated_resume.
THEOREM LayersAlwaysAgree == DashboardSpec => []LayersAgree
<1>. DEFINE Archived == archive \in Archives
<1>1. DashboardInit => Archived
  BY DEF DashboardInit
<1>2. Archived /\ [DashboardNext]_dashboardVars => Archived'
  BY ArchiveStays DEF dashboardVars
<1>3. Archived => LayersAgree
  BY ArchivesTellOneStory, Zenon DEF LayersAgree
<1>. QED
  <2>. HIDE DEF Archived
  <2>. QED
    BY <1>1, <1>2, <1>3, PTL DEF DashboardSpec

\* The badge of the archive follows the matrix.
THEOREM HealthAlwaysMatrix == DashboardSpec => []HealthIsMatrix
<1>1. HealthIsMatrix
  BY HealthFollowsMatrix DEF HealthIsMatrix
<1>. QED
  BY <1>1, PTL

\* So does the status and the coordination of the archive.
THEOREM OpsAlwaysOfOneRow == DashboardSpec => []OpsOfOneRow
<1>. DEFINE Archived == archive \in Archives
<1>1. DashboardInit => Archived
  BY DEF DashboardInit
<1>2. Archived /\ [DashboardNext]_dashboardVars => Archived'
  BY ArchiveStays DEF dashboardVars
<1>3. Archived => OpsOfOneRow
  <2>1. SUFFICES ASSUME archive \in Archives PROVE OpsAgree(archive)
    BY DEF OpsOfOneRow
  <2>2. /\ archive.source \in BOOLEAN /\ archive.ops \in Seq(OpsCells)
        /\ \A i \in 1..Len(archive.ops) :
              archive.ops[i] # NoRow /\ archive.ops[i].at \in Nat
    BY <2>1, ArchivedOpsRows
  <2>. QED
    BY <2>2, OpsFromOneRow
<1>. QED
  <2>. HIDE DEF Archived
  <2>. QED
    BY <1>1, <1>2, <1>3, PTL DEF DashboardSpec
=============================================================================
