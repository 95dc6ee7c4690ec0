----------------------------- MODULE Retention -----------------------------
(***************************************************************************)
(* Offline deletion of volunteer data: delete_volunteer_data.py over the   *)
(* sheets, the Drive folder and a local receipt per operation.             *)
(*                                                                         *)
(* One step is one Drive call, one Sheets call or one write of the receipt.*)
(* All application writers are stopped, as the command demands, so that    *)
(* reading the whole inventory is one step; between commands an operator   *)
(* may give a row the file reference it lacked.  A preview changes nothing *)
(* and is left out.  parser_results and errors, which the command treats   *)
(* alike, are one tab "derived"; tabs, headers and columns are as the      *)
(* schema says.                                                            *)
(***************************************************************************)
EXTENDS Naturals, Sequences, FiniteSets, SequencesExt

CONSTANTS
    Subs, NoSub,   \* submissions; the cell of a minimised event
    Files,         \* Drive file ids, numbered in the order they sort in
    NoFile, Lost,  \* no resume; uploaded, but the reference is missing
    Paths,         \* receipt paths
    None, Torn,    \* no receipt yet; one whose first write broke off
    Cutoffs, NoCutoff, \* approved coordination cutoffs
    Contents,      \* what the sheets may hold at first
    Strays,        \* files in the Drive that no row refers to at first
    Faults         \* subset of {"api", "disk", "crash"}

VARIABLES
    sheets,   \* the rows of each tab, in sheet order
    drive,    \* the files in the Drive folder
    receipts, \* the recovery manifest at each path
    run       \* the command being executed

vars == <<sheets, drive, receipts, run>>

IntakeTabs == {"submissions", "parser_jobs"}
Tabs == IntakeTabs \cup {"derived", "ops", "ops_events"}

IntakeRows == [sub : Subs, file : Files \cup {NoFile, Lost}]
OpsRows == [sub : Subs, ended : Cutoffs \cup {0},
            state : {"unassessed", "malformed", "active", "ended"}]
EventRows == [sub : Subs \cup {NoSub},
              action : {"create", "update", "coordination_intent", "anonymized"}]
Sheets == [submissions : Seq(IntakeRows), parser_jobs : Seq(IntakeRows),
           derived : Seq([sub : Subs]), ops : Seq(OpsRows),
           ops_events : Seq(EventRows)]

ReferencedIn(c) ==
    (UNION {{c[tab][i].file : i \in DOMAIN c[tab]} : tab \in IntakeTabs})
        \cap Files

Reasons == {"volunteer_deletion", "source_expiry", "coordination_expiry"}

Receipts == [subs : SUBSET Subs, reason : Reasons, cutoff : Cutoffs \cup {NoCutoff},
             files : SUBSET Files, deleted : SUBSET Files,
             state : {"prepared", "deleting", "stores_deleted"}]

ASSUME RetentionAssumption ==
    /\ Files \subseteq Nat /\ Cutoffs \subseteq Nat \ {0}
    /\ IsFiniteSet(Files) /\ IsFiniteSet(Subs)
    /\ NoSub \notin Subs /\ NoFile # Lost /\ {NoFile, Lost} \cap Files = {}
    /\ NoCutoff \notin Cutoffs /\ None # Torn /\ {None, Torn} \cap Receipts = {}
    /\ Contents \subseteq Sheets /\ Strays \subseteq Files
    /\ \A c \in Contents : ReferencedIn(c) \cap Strays = {}
    /\ Faults \subseteq {"api", "disk", "crash"}

\* What load_manifest accepts.
Loadable(r) ==
    /\ r.subs # {} /\ r.deleted \subseteq r.files
    /\ r.cutoff = NoCutoff <=> r.reason # "coordination_expiry"
    /\ r.reason = "coordination_expiry" => r.files = {}

Intact(p) == receipts[p] \notin {None, Torn}

Idle == [pc |-> "idle"]
Running == [pc : {"create", "mark", "drive", "progress", "verify", "close"},
            path : Paths, data : Receipts, absent : SUBSET Files,
            targets : SUBSET Tabs, requests : [Tabs -> Seq(Nat)]]

\* Types; in particular a receipt, in memory or on disk, can be loaded again
\* by the command that must finish what it records.
TypeOK ==
    /\ sheets \in Sheets
    /\ drive \subseteq Files
    /\ receipts \in [Paths -> Receipts \cup {None, Torn}]
    /\ run # Idle => run \in Running /\ Loadable(run.data)
    /\ \A p \in Paths : Intact(p) => Loadable(receipts[p])

Init ==
    /\ sheets \in Contents
    /\ drive = ReferencedIn(sheets) \cup Strays
    /\ receipts = [p \in Paths |-> None]
    /\ run = Idle

-----------------------------------------------------------------------------
(* Selection: read_inventory, retention_scope and the checks before a plan *)

Matched(tab, ids) == {i \in DOMAIN sheets[tab] : sheets[tab][i].sub \in ids}

\* Nonempty rows without a submission id block every command, except the
\* events that an earlier one minimised.
Accountable == \A i \in DOMAIN sheets["ops_events"] :
    LET row == sheets["ops_events"][i]
    IN  row.sub = NoSub => row.action \in {"create", "update", "anonymized"}

Targets(reason) ==
    {"ops_events"} \cup
    (IF reason = "coordination_expiry" THEN {} ELSE IntakeTabs \cup {"derived"}) \cup
    (IF reason = "source_expiry" THEN {} ELSE {"ops"})

\* Whether one submission may be deleted for this reason; its coordination
\* may already be gone if this very receipt was begun before.
Eligible(s, c) ==
    LET roots == Matched("ops", {s})
        row(i) == sheets["ops"][i]
    IN  /\ c.reason = "source_expiry" =>
              /\ Cardinality(roots) <= 1
              /\ \A i \in roots : row(i).state \in {"active", "ended"}
        /\ c.reason = "coordination_expiry" =>
              \/ roots = {} /\ receipts[c.path] # None
              \/ \E i \in roots : /\ roots = {i} /\ row(i).state = "ended"
                                  /\ row(i).ended <= c.cutoff

\* Broken variant: references are gathered outside the selected domains too.
GatheredEverywhere(ids, targets) ==
    UNION {{sheets[tab][i].file : i \in Matched(tab, ids)} : tab \in IntakeTabs}
Gathered(ids, targets) ==
    UNION {{sheets[tab][i].file : i \in Matched(tab, ids)} :
              tab \in IntakeTabs \cap targets}

Unreferenced(ids, targets) ==
    /\ "submissions" \in targets
    /\ \E i \in Matched("submissions", ids) : sheets["submissions"][i].file = Lost

Shared(ids, files) == \E tab \in IntakeTabs :
    \E i \in DOMAIN sheets[tab] \ Matched(tab, ids) : sheets[tab][i].file \in files

\* A command may only go on with a receipt of the same operation, and one
\* that lists every file it would delete now.
\* Broken variants: the reason may change; new references are let through.
CoversAnyReason(r, c, files) ==
    r.subs = c.ids /\ r.cutoff = c.cutoff /\ files \subseteq r.files
CoversOldFiles(r, c, files) ==
    r.subs = c.ids /\ r.reason = c.reason /\ r.cutoff = c.cutoff
Covers(r, c, files) ==
    /\ r.subs = c.ids /\ r.reason = c.reason /\ r.cutoff = c.cutoff
    /\ files \subseteq r.files

\* The rows to delete in each tab, last row first.
\* Broken variant: first row first.
LastFirst(rows) == CHOOSE order \in [1..Cardinality(rows) -> rows] :
    \A i, k \in 1..Cardinality(rows) : i < k => order[i] > order[k]
RequestsAscending(ids, targets) == [tab \in Tabs |->
    IF tab \in targets THEN Reverse(LastFirst(Matched(tab, ids))) ELSE <<>>]
Requests(ids, targets) == [tab \in Tabs |->
    IF tab \in targets THEN LastFirst(Matched(tab, ids)) ELSE <<>>]

-----------------------------------------------------------------------------
(* The command *)

Commands == [path : Paths, ids : (SUBSET Subs) \ {{}}, reason : Reasons,
             cutoff : Cutoffs \cup {NoCutoff}, absent : SUBSET Files]

NewReceipt(c, files) ==
    [subs |-> c.ids, reason |-> c.reason, cutoff |-> c.cutoff,
     files |-> files, deleted |-> {}, state |-> "prepared"]

\* Everything up to the first write: a command is refused, which changes
\* nothing, or it has its plan.  The operator attests as absent only files
\* that the owner has verified to be gone.
Begin(c) ==
    LET known   == receipts[c.path]
        targets == Targets(c.reason)
        files   == Gathered(c.ids, targets) \cap Files
    IN  /\ run = Idle /\ c.absent \cap drive = {}
        /\ c.cutoff = NoCutoff <=> c.reason # "coordination_expiry"
        /\ known # Torn
        /\ known # None => Covers(known, c, files) /\ c.absent \subseteq known.files
        /\ Accountable /\ \A s \in c.ids : Eligible(s, c)
        /\ ~Unreferenced(c.ids, targets) /\ ~Shared(c.ids, files)
        /\ run' = [pc       |-> IF known = None THEN "create" ELSE "mark",
                   path     |-> c.path,
                   data     |-> IF known = None THEN NewReceipt(c, files) ELSE known,
                   absent   |-> c.absent,
                   targets  |-> targets,
                   requests |-> Requests(c.ids, targets)]
        /\ UNCHANGED <<sheets, drive, receipts>>

At(p) == run.pc = p
Stored(d) == [receipts EXCEPT ![run.path] = d]
Failing(fault) == fault \in Faults /\ run' = Idle

\* The receipt is created, fsynced and only then acted upon.
Create ==
    /\ At("create")
    /\ receipts' = Stored(run.data)
    /\ run' = IF run.absent \subseteq run.data.files THEN [run EXCEPT !.pc = "mark"]
                                                     ELSE Idle
    /\ UNCHANGED <<sheets, drive>>

CreateFails ==
    /\ At("create") /\ (Failing("disk") \/ Failing("crash"))
    /\ receipts' \in {receipts, Stored(Torn), Stored(run.data)}
    /\ UNCHANGED <<sheets, drive>>

\* DeletionManifest.save: a temporary file replaces the receipt.
Save(d, next) ==
    /\ receipts' = Stored(d) /\ run' = next
    /\ UNCHANGED <<sheets, drive>>

SaveFails(d) ==
    /\ Failing("disk") \/ Failing("crash")
    /\ receipts' \in {receipts, Stored(d)}
    /\ UNCHANGED <<sheets, drive>>

InState(state) == [run.data EXCEPT !.state = state]

Mark == At("mark") /\
    Save(InState("deleting"), [run EXCEPT !.pc = "drive", !.data = InState("deleting")])
MarkFails == At("mark") /\ SaveFails(InState("deleting"))

Pending == run.data.files \ run.data.deleted
NextFile == CHOOSE f \in Pending : \A g \in Pending : f <= g

\* Broken variant: the receipt is brought up to date only at the end.
CompletedUnsaved(f) ==
    run' = [run EXCEPT !.data.deleted = @ \cup {f}]
Completed(f) ==
    run' = [run EXCEPT !.pc = "progress", !.data.deleted = @ \cup {f}]

DeleteFile ==
    /\ At("drive") /\ Pending # {}
    /\ NextFile \in run.absent \cup drive
    /\ drive' = drive \ {NextFile}
    /\ Completed(NextFile)
    /\ UNCHANGED <<sheets, receipts>>

\* A missing file may mean lost access; a failing deletion may have happened.
\* Broken variant: the failure is taken for a deletion.
DriveFailsSilently ==
    /\ At("drive") /\ Pending # {} /\ NextFile \notin run.absent
    /\ "api" \in Faults /\ Completed(NextFile)
    /\ UNCHANGED <<sheets, drive, receipts>>
DriveFails ==
    /\ At("drive") /\ Pending # {} /\ NextFile \notin run.absent
    /\ \/ NextFile \notin drive /\ run' = Idle /\ UNCHANGED drive
       \/ NextFile \in drive /\ Failing("api") /\ drive' \in {drive, drive \ {NextFile}}
    /\ UNCHANGED <<sheets, receipts>>

Progress == At("progress") /\ Save(run.data, [run EXCEPT !.pc = "drive"])
ProgressFails == At("progress") /\ SaveFails(run.data)

\* Broken variants: the counts are lost; the action is kept whatever it was.
MinimisedUncounted(row) == [sub |-> NoSub, action |-> "anonymized"]
MinimisedVerbatim(row) == [row EXCEPT !.sub = NoSub]
Minimised(row) ==
    [sub |-> NoSub,
     action |-> IF row.action \in {"create", "update"} THEN row.action
                                                       ELSE "anonymized"]

\* One request of a batch.  Below the last row the grid is blank.
Requested(tab, rows, i) ==
    IF tab = "ops_events" THEN [rows EXCEPT ![i] = Minimised(@)]
    ELSE IF i \in DOMAIN rows THEN RemoveAt(rows, i) ELSE rows

\* One after the other, each on what the one before it left.
AppliedTo(tab, rows, requests) ==
    LET after[n \in 0..Len(requests)] ==
            IF n = 0 THEN rows ELSE Requested(tab, after[n - 1], requests[n])
    IN  after[Len(requests)]
Applied == [tab \in Tabs |-> AppliedTo(tab, sheets[tab], run.requests[tab])]

Batch ==
    /\ At("drive") /\ Pending = {}
    /\ sheets' = Applied
    /\ run' = [run EXCEPT !.pc = "verify"]
    /\ UNCHANGED <<drive, receipts>>

BatchFails ==
    /\ At("drive") /\ Pending = {} /\ Failing("api")
    /\ sheets' \in {sheets, Applied}
    /\ UNCHANGED <<drive, receipts>>

\* The inventory is read again; a remaining row ends the command.
Verify ==
    /\ At("verify") /\ Accountable
    /\ run' = IF \A tab \in run.targets : Matched(tab, run.data.subs) = {}
              THEN [run EXCEPT !.pc = "close"] ELSE Idle
    /\ UNCHANGED <<sheets, drive, receipts>>

VerifyFails ==
    /\ At("verify")
    /\ Failing("api") \/ (~Accountable /\ run' = Idle)
    /\ UNCHANGED <<sheets, drive, receipts>>

Close == At("close") /\ Save(InState("stores_deleted"), Idle)
CloseFails == At("close") /\ SaveFails(InState("stores_deleted"))

\* The command is killed between two of its calls.
Crash ==
    /\ run # Idle /\ Failing("crash")
    /\ UNCHANGED <<sheets, drive, receipts>>

\* Between commands an operator reconciles a row that lacks its reference.
Reference(i, f) ==
    /\ run = Idle /\ sheets["submissions"][i].file \in {NoFile, Lost}
    /\ f \in (drive \cap Strays) \ ReferencedIn(sheets)
    /\ sheets' = [sheets EXCEPT !["submissions"][i].file = f]
    /\ UNCHANGED <<drive, receipts, run>>

Call == Create \/ Mark \/ DeleteFile \/ Progress \/ Batch \/ Verify \/ Close

Failure == CreateFails \/ MarkFails \/ DriveFails \/ ProgressFails
           \/ BatchFails \/ VerifyFails \/ CloseFails \/ Crash

Next ==
    \/ \E c \in Commands : Begin(c)
    \/ Call \/ Failure
    \/ \E i \in DOMAIN sheets["submissions"] : \E f \in Strays : Reference(i, f)

Spec == Init /\ [][Next]_vars

\* --resume with the attestations that are due.
Resume(p) ==
    /\ Intact(p)
    /\ LET r == receipts[p]
       IN  Begin([path |-> p, ids |-> r.subs, reason |-> r.reason,
                  cutoff |-> r.cutoff, absent |-> r.files \ drive])

\* The command being executed is for this receipt and has the attestations due.
Attested(p) ==
    /\ run # Idle /\ run.path = p
    /\ Pending \ drive \subseteq run.absent

\* A command does not hang: each of its calls ends, well or badly.  The operator
\* resumes an unfinished operation again and again, now and then with the
\* missing files verified, and then no call fails for ever.
FairSpec ==
    /\ Spec
    /\ WF_vars(Call \/ Failure)
    /\ \A p \in Paths :
          /\ SF_vars(Resume(p))
          /\ SF_vars(Attested(p) /\ Mark) /\ SF_vars(Attested(p) /\ DeleteFile)
          /\ SF_vars(Attested(p) /\ Progress) /\ SF_vars(Attested(p) /\ Batch)
          /\ SF_vars(Attested(p) /\ Verify) /\ SF_vars(Attested(p) /\ Close)

-----------------------------------------------------------------------------
(* Properties *)

\* A receipt that says stores_deleted is true: no row of its submissions is
\* left in the domains of its reason and none of its files is in the Drive,
\* however many failed and repeated commands it took; and a file it records
\* as deleted is gone.
ReceiptHonest == \A p \in Paths : Intact(p) =>
    LET r == receipts[p]
    IN  /\ r.deleted \cap drive = {}
        /\ r.state = "stores_deleted" =>
              /\ r.files \cap drive = {}
              /\ \A tab \in Targets(r.reason) : Matched(tab, r.subs) = {}

\* Each operation leaves at most one file that is gone without any receipt
\* accounting for it, so its operator has one file to have verified, not the
\* whole list, before the next resume.
OneUnaccounted ==
    LET intact == {p \in Paths : Intact(p)}
        gone   == (UNION {receipts[p].files : p \in intact}) \ drive
    IN  Cardinality(gone \ UNION {receipts[p].deleted : p \in intact})
          <= Cardinality(intact)

\* No file in the Drive loses its last reference: rows are removed after the
\* files they refer to, also when an operation is resumed after the rows it
\* selects have changed.
FileBeforeRow ==
    [][ReferencedIn(sheets) \cap drive' \subseteq ReferencedIn(sheets')]_vars

\* Submissions that were not selected keep their rows, in their order, and
\* their files: no request hits a neighbour of the row it was meant for.
Spared(rows, ids) == {i \in DOMAIN rows : rows[i].sub \in Subs \ ids}
SparedInOrder(old, new, ids) ==
    \E was \in Bijection(Spared(new, ids), Spared(old, ids)) :
        \A i \in Spared(new, ids) :
            /\ new[i] = old[was[i]]
            /\ \A k \in Spared(new, ids) : i < k => was[i] < was[k]
OthersUntouched == [][run # Idle =>
    /\ \A tab \in Tabs : SparedInOrder(sheets[tab], sheets'[tab], run.data.subs)
    /\ ~Shared(run.data.subs, drive \ drive')]_vars

\* What is removed was authorised by the receipt as first written: no retry
\* turns an expiry into a wider deletion, an active or unassessed purpose
\* goes only on an explicit deletion, and intake evidence of an unreviewed
\* coordination record stays.
ScopeKept == [][\A s \in Subs :
    LET gone(tab) == Cardinality(Matched(tab, {s})') < Cardinality(Matched(tab, {s}))
        r == receipts[run.path]
        roots == {sheets["ops"][i] : i \in Matched("ops", {s})}
    IN  /\ gone("ops") =>
              \/ r.reason = "volunteer_deletion"
              \/ /\ r.reason = "coordination_expiry"
                 /\ \A row \in roots : row.state = "ended" /\ row.ended <= r.cutoff
        /\ gone("submissions") \/ gone("parser_jobs") \/ gone("derived") =>
              \/ r.reason = "volunteer_deletion"
              \/ /\ r.reason = "source_expiry"
                 /\ \A row \in roots : row.state \in {"active", "ended"}]_vars

\* Minimising history keeps its counts: every event row stays one row, with
\* its action if it was a create or an update.
HistoryCounted == [][
    LET old == sheets["ops_events"]
        new == sheets'["ops_events"]
    IN  /\ Len(new) = Len(old)
        /\ \A i \in DOMAIN old :
              \/ new[i] = old[i]
              \/ /\ new[i].sub = NoSub
                 /\ new[i].action = IF old[i].action \in {"create", "update"}
                                    THEN old[i].action ELSE "anonymized"]_vars

\* An operation once recorded is finished, whatever failed or died on the way:
\* neither rows already gone nor files already deleted nor minimised events
\* keep the command from being resumed.
EveryDeletionFinishes == \A p \in Paths :
    Intact(p) ~> Intact(p) /\ receipts[p].state = "stores_deleted"
=============================================================================
