---------------------------- MODULE OpsWorkflow ----------------------------
(***************************************************************************)
(* Reviewer writes: the four write endpoints of the dashboard API over the *)
(* ops sheet (one current-state row per submission) and the ops_events     *)
(* sheet (one row per changed field).                                      *)
(*                                                                         *)
(* The endpoints are synchronous functions, so requests run in the threads *)
(* of one API process.  _ops_write_lock is held from the read of ops to    *)
(* the append of the events; the upsert takes it up to three times and     *)
(* looks at submissions in between.  One step is one Sheets call; entering *)
(* the lock and the read that follows it are one step, as nobody can tell  *)
(* them apart.  tags and contact_tracking are only written by a create and *)
(* are otherwise treated as notes are; they are left out, as are values a  *)
(* person typed into the sheet.                                            *)
(***************************************************************************)
EXTENDS Naturals, Sequences, FiniteSets

CONSTANTS
    Subs,     \* submission ids that reviewers name, known to intake or not
    Requests, \* reviewer calls, one thread each
    NoReq,
    Statuses, New,   \* review statuses, and OPS_STATUS_NEW
    Texts, Blank,    \* note texts, and the empty cell
    Omit,     \* a field the request leaves out
    NoRecord, \* no review record (module ReviewDesk)
    MaxNow,   \* bound on the clock behind the lifecycle time stamps
    Faults    \* subset of {"api", "log", "crash"}

ASSUME OpsAssumption ==
    /\ Subs # {}
    /\ New \in Statuses /\ Blank \in Texts
    /\ Omit \notin Statuses \cup Texts
    /\ NoReq \notin Requests
    /\ NoRecord \notin [status : Statuses \cup {Blank}, notes : Texts,
                        purpose : {"unassessed", "active", "ended"}]
    /\ MaxNow \in Nat
    /\ Faults \subseteq {"api", "log", "crash"}

VARIABLES
    submitted, \* submissions with an intake row
    ops,       \* the rows of the ops sheet, in sheet order
    events,    \* ops_events: <<old, new>> of each submission and field
    lock,      \* who holds _ops_write_lock
    req,       \* the local state of each request
    now        \* the clock

vars == <<submitted, ops, events, lock, req, now>>
sheets == <<submitted, ops, events>>

Time == 0..MaxNow
Fields == {"status", "notes", "coordination"}

\* The lifecycle states and stamps validate_lifecycle accepts (ended is 0
\* while there is no end stamp).
Coordinations == {c \in [state : {"unassessed", "active", "ended"},
                         started : Time, ended : Time] :
    /\ c.state = "ended" => c.ended >= c.started
    /\ c.state # "ended" => c.ended = 0
    /\ c.state = "unassessed" => c.started = 0}
Unassessed == [state |-> "unassessed", started |-> 0, ended |-> 0]

Rows == [sub : Subs, status : Statuses \cup {Blank}, notes : Texts,
         coordination : Coordinations]

\* What an event quotes.
Values == Statuses \cup Texts \cup {"unassessed", "active", "ended"}

BlankRow(s) ==
    [sub |-> s, status |-> Blank, notes |-> Blank, coordination |-> Unassessed]

\* What a validated request asks for.
Asks ==
    [kind : {"create"}, sub : Subs, status : Statuses, notes : Texts] \cup
    {a \in [kind : {"update", "upsert"}, sub : Subs,
            status : Statuses \cup {Omit}, notes : Texts \cup {Omit}] :
        a.status # Omit \/ a.notes # Omit} \cup
    [kind : {"preserve", "end"}, sub : Subs, status : {Omit}, notes : {Omit}]

NoAsk == [kind |-> "none", sub |-> CHOOSE s \in Subs : TRUE,
          status |-> Omit, notes |-> Omit]

Local == [pc : {"new", "update", "check", "create", "updateAgain",
                "coordinate", "root", "write", "log", "done"},
          ask : Asks \cup {NoAsk},
          number : Nat,             \* sheet row to overwrite, 0 to append
          was : Rows, row : Rows,   \* the row as read, the row to write
          answer : {"none", "ok", "exists", "not_found", "conflict",
                    "stuck", "error", "lost"}]

\* Types, with the lifecycle records of the sheet and of every request in
\* memory among those validate_lifecycle (coordination_lifecycle.py) accepts.
TypeOK ==
    /\ submitted \subseteq Subs
    /\ ops \in Seq(Rows)
    /\ events \in [Subs -> [Fields -> Seq(Values \X Values)]]
    /\ lock \in Requests \cup {NoReq}
    /\ req \in [Requests -> Local]
    /\ now \in Time

Idle == [pc |-> "new", ask |-> NoAsk, number |-> 0, was |-> BlankRow(NoAsk.sub),
         row |-> BlankRow(NoAsk.sub), answer |-> "none"]
Done(a) == [Idle EXCEPT !.pc = "done", !.answer = a]

Init ==
    /\ submitted \in SUBSET Subs
    /\ ops = <<>>
    /\ events = [s \in Subs |-> [f \in Fields |-> <<>>]]
    /\ lock = NoReq
    /\ req = [t \in Requests |-> Idle]
    /\ now = 0

-----------------------------------------------------------------------------
(* The ops sheet and the lock *)

Matches(s) == {i \in DOMAIN ops : ops[i].sub = s}
First(s) == CHOOSE i \in Matches(s) : \A k \in Matches(s) : i <= k

Ask(t) == req[t].ask
At(t, p) == req[t].pc = p
Go(t, p) == req' = [req EXCEPT ![t].pc = p]
Answer(t, a) == req' = [req EXCEPT ![t] = Done(a)]

\* Broken variant: the read is outside the lock.
EnterUnlocked(t, p) == At(t, p)
Enter(t, p) == At(t, p) /\ lock = NoReq

\* Broken variant: an exception leaves the lock taken.
LeaveNever(t) == UNCHANGED lock
Leave(t) == lock' = IF lock = t THEN NoReq ELSE lock

\* The row read under the lock, and the row computed from it.
Hold(t, n, old, new) ==
    /\ lock' = t
    /\ req' = [req EXCEPT ![t].pc = "write", ![t].number = n,
                          ![t].was = old, ![t].row = new]

\* Broken variant: a field left out of the request is cleared.
EditedClearing(row, a) ==
    [row EXCEPT !.status = IF a.status = Omit THEN New ELSE a.status,
                !.notes = IF a.notes = Omit THEN Blank ELSE a.notes]
Edited(row, a) ==
    [row EXCEPT !.status = IF a.status = Omit THEN @ ELSE a.status,
                !.notes = IF a.notes = Omit THEN @ ELSE a.notes]

FirstState(a) == Edited([BlankRow(a.sub) EXCEPT !.status = New], a)

-----------------------------------------------------------------------------
(* coordination_lifecycle.apply_intent *)

\* Broken variants: every preserve starts the purpose anew; a new purpose
\* keeps the old end.
AppliedRestarting(c, kind) ==
    IF kind = "end" THEN [c EXCEPT !.state = "ended", !.ended = now]
                    ELSE [state |-> "active", started |-> now, ended |-> 0]
AppliedKeepingEnd(c, kind) ==
    IF kind = "end"
    THEN [c EXCEPT !.state = "ended", !.ended = IF c.state = "ended" THEN @ ELSE now]
    ELSE [c EXCEPT !.state = "active", !.started = IF c.state = "active" THEN @ ELSE now]

\* A purpose starts when it is first preserved, or preserved again after its
\* end; its end is stamped once.
Applied(c, kind) ==
    IF kind = "preserve"
    THEN [state |-> "active", ended |-> 0,
          started |-> IF c.state = "active" THEN c.started ELSE now]
    ELSE [c EXCEPT !.state = "ended",
                   !.ended = IF c.state = "ended" THEN @ ELSE now]

Intend(t, n, row) ==
    IF Ask(t).kind = "end" /\ row.coordination.state = "unassessed"
    THEN Answer(t, "conflict") /\ Leave(t)
    ELSE Hold(t, n, row, [row EXCEPT !.coordination = Applied(@, Ask(t).kind)])

-----------------------------------------------------------------------------
(* The endpoints *)

Entry(kind) == CASE kind = "create"             -> "create"
                 [] kind \in {"update", "upsert"} -> "update"
                 [] OTHER                       -> "coordinate"

Receive(t) ==
    /\ At(t, "new")
    /\ \E a \in Asks :
          req' = [req EXCEPT ![t].ask = a, ![t].pc = Entry(a.kind)]
    /\ UNCHANGED <<sheets, lock, now>>

\* update_ops_row_if_exists up to its write; an upsert comes here again when
\* its create found a row.
UpdateRead(t) ==
    /\ Enter(t, "update") \/ Enter(t, "updateAgain")
    /\ IF Matches(Ask(t).sub) # {}
       THEN LET n == First(Ask(t).sub)
            IN  Hold(t, n, ops[n], Edited(ops[n], Ask(t)))
       ELSE /\ \/ Ask(t).kind = "update" /\ Answer(t, "not_found")
               \/ Ask(t).kind = "upsert" /\ At(t, "update") /\ Go(t, "check")
               \/ At(t, "updateAgain") /\ Answer(t, "stuck")
            /\ UNCHANGED lock
    /\ UNCHANGED <<sheets, now>>

\* The upsert's look at submissions, without the lock.
CheckSubmission(t) ==
    /\ At(t, "check")
    /\ IF Ask(t).sub \in submitted THEN Go(t, "create")
                                   ELSE Answer(t, "not_found")
    /\ UNCHANGED <<sheets, lock, now>>

\* create_ops_row_if_missing up to its append.
CreateRead(t) ==
    /\ Enter(t, "create")
    /\ IF Matches(Ask(t).sub) = {}
       THEN Hold(t, 0, BlankRow(Ask(t).sub), FirstState(Ask(t)))
       ELSE /\ IF Ask(t).kind = "create" THEN Answer(t, "exists")
                                         ELSE Go(t, "updateAgain")
            /\ UNCHANGED lock
    /\ UNCHANGED <<sheets, now>>

\* set_coordination_intent up to its write.
CoordinateRead(t) ==
    /\ Enter(t, "coordinate")
    /\ LET s == Ask(t).sub
       IN  \/ Cardinality(Matches(s)) = 1 /\ Intend(t, First(s), ops[First(s)])
           \/ /\ Cardinality(Matches(s)) > 1
              /\ Answer(t, "conflict") /\ UNCHANGED lock
           \/ /\ Matches(s) = {} /\ Ask(t).kind = "end"
              /\ Answer(t, "conflict") /\ UNCHANGED lock
           \/ /\ Matches(s) = {} /\ Ask(t).kind = "preserve"
              /\ lock' = t /\ Go(t, "root")
    /\ UNCHANGED <<sheets, now>>

\* Its look at submissions, under the lock.
CoordinateRoot(t) ==
    /\ At(t, "root")
    /\ IF Ask(t).sub \in submitted
       THEN Intend(t, 0, [BlankRow(Ask(t).sub) EXCEPT !.status = New])
       ELSE Answer(t, "conflict") /\ Leave(t)
    /\ UNCHANGED <<sheets, now>>

-----------------------------------------------------------------------------
(* The write, its events and its failures *)

Written(t) ==
    IF req[t].number = 0 THEN Append(ops, req[t].row)
                         ELSE [ops EXCEPT ![req[t].number] = req[t].row]

Cell(row, f) == IF f = "coordination" THEN row.coordination.state ELSE row[f]

Changed(t) ==
    IF Ask(t).kind \in {"preserve", "end"} THEN {"coordination"}
    ELSE {f \in {"status", "notes"} : req[t].row[f] # req[t].was[f]}

\* Broken variant: the lock is given up before the events are appended.
WriteReleasing(t) ==
    /\ At(t, "write")
    /\ ops' = Written(t)
    /\ IF Changed(t) = {} THEN Answer(t, "ok") ELSE Go(t, "log")
    /\ Leave(t)
    /\ UNCHANGED <<submitted, events, now>>

\* The ops row is written; without a changed field there is nothing to log.
Write(t) ==
    /\ At(t, "write")
    /\ ops' = Written(t)
    /\ IF Changed(t) = {} THEN Answer(t, "ok") /\ Leave(t)
                          ELSE Go(t, "log") /\ UNCHANGED lock
    /\ UNCHANGED <<submitted, events, now>>

\* A failing write may have been applied; the exception answers the request.
WriteFails(t) ==
    /\ At(t, "write") /\ "api" \in Faults
    /\ ops' \in {ops, Written(t)}
    /\ Answer(t, "error") /\ Leave(t)
    /\ UNCHANGED <<submitted, events, now>>

\* append_ops_event_rows, best effort: its failure is not the request's.
Log(t) ==
    /\ At(t, "log")
    /\ \/ events' = [events EXCEPT ![Ask(t).sub] = [f \in Fields |->
             IF f \in Changed(t)
             THEN Append(@[f], <<Cell(req[t].was, f), Cell(req[t].row, f)>>)
             ELSE @[f]]]
       \/ "log" \in Faults /\ UNCHANGED events
    /\ Answer(t, "ok") /\ Leave(t)
    /\ UNCHANGED <<submitted, ops, now>>

ReadFails(t) ==
    /\ "api" \in Faults
    /\ \/ At(t, "check") \/ At(t, "root")
       \/ \E p \in {"update", "updateAgain", "create", "coordinate"} : Enter(t, p)
    /\ Answer(t, "error") /\ Leave(t)
    /\ UNCHANGED <<sheets, now>>

\* The API process dies: its requests end unanswered, its lock is gone.
Crash ==
    /\ "crash" \in Faults
    /\ \E t \in Requests : req[t].pc \notin {"new", "done"}
    /\ req' = [t \in Requests |->
          IF req[t].pc \in {"new", "done"} THEN req[t]
          ELSE Done("lost")]
    /\ lock' = NoReq
    /\ UNCHANGED <<sheets, now>>

\* Intake writes a base row.
Submit(s) ==
    /\ s \notin submitted
    /\ submitted' = submitted \cup {s}
    /\ UNCHANGED <<ops, events, lock, req, now>>

Tick ==
    /\ now < MaxNow
    /\ now' = now + 1
    /\ UNCHANGED <<sheets, lock, req>>

Step(t) ==
    \/ UpdateRead(t) \/ CheckSubmission(t) \/ CreateRead(t)
    \/ CoordinateRead(t) \/ CoordinateRoot(t)
    \/ Write(t) \/ WriteFails(t) \/ Log(t) \/ ReadFails(t)

Next ==
    \/ \E t \in Requests : Receive(t) \/ Step(t)
    \/ \E s \in Subs : Submit(s)
    \/ Crash \/ Tick

Spec == Init /\ [][Next]_vars

\* A thread that is serving a request goes on; the lock is free again and
\* again, and finitely many requests compete for it.
FairSpec == Spec /\ \A t \in Requests : WF_vars(Step(t))

-----------------------------------------------------------------------------
(* Properties *)

\* The ops sheet holds at most one row for a submission, whatever requests
\* overlap, fail or die between its lookup and its append: the writer edits
\* the first row and coordination refuses to choose (sheets_repo.py:704-706).
OneOpsRow == \A i, k \in DOMAIN ops : ops[i].sub = ops[k].sub => i = k

\* What the lock is for: only its holder is between a read and its write or
\* its events; a row about to be overwritten is still as it was read, and a
\* row about to be appended is still missing.
CopiesFresh == \A t \in Requests :
    /\ req[t].pc \in {"root", "write", "log"} => lock = t
    /\ At(t, "root") => Matches(Ask(t).sub) = {}
    /\ At(t, "write") =>
          /\ req[t].was.sub = Ask(t).sub /\ req[t].row.sub = Ask(t).sub
          /\ IF req[t].number = 0
             THEN Matches(Ask(t).sub) = {}
             ELSE /\ req[t].number \in DOMAIN ops
                  /\ ops[req[t].number] = req[t].was

\* The coordination lifecycle of a row over any write, also by requests that
\* only edit status or notes: a purpose, once assessed, stays assessed; while
\* it runs its start is fixed; its end is stamped once and not before its
\* start; a new purpose starts no earlier than the last one ended.
LifecycleStep(old, new) ==
    /\ (old.state = "active" /\ new.state = "active" => new = old)
    /\ old.state = "active" /\ new.state = "ended" => new.started = old.started
    /\ old.state = "ended" /\ new.state = "ended" => new = old
    /\ old.state = "ended" /\ new.state = "active" => new.started >= old.ended
    /\ new.state = "unassessed" => old.state = "unassessed"

PurposeSpan == [][\A s \in Subs : Matches(s) # {} =>
    /\ Matches(s)' # {}
    /\ LifecycleStep(ops[First(s)].coordination,
                     ops'[First(s)'].coordination)]_vars

\* While no call fails after its write or dies before its append of events, the
\* events of a field retell its history in order: each starts from the value
\* the one before it left, and the last one left the value the row has now.  A
\* request between its write and its append still holds the lock.
EventsReplay == (\A t \in Requests : req[t].answer \notin {"error", "lost"}) =>
  \A s \in Subs : \A f \in Fields :
    LET log == events[s][f]
        quiet == lock = NoReq
    IN  /\ \A i \in DOMAIN log : i > 1 => log[i][1] = log[i - 1][2]
        /\ quiet /\ log # <<>> /\ Matches(s) # {} =>
              log[Len(log)][2] = Cell(ops[First(s)], f)
        /\ quiet /\ log = <<>> /\ Matches(s) # {} =>
              Cell(ops[First(s)], f) \in {New, Blank, "unassessed"}

\* Requests never wait on each other for ever: each is answered or dies with
\* its process, also when another one failed while it held the lock.
EveryCallAnswered == \A t \in Requests : ~At(t, "new") ~> At(t, "done")

\* The refinement: a submission's record is its first ops row.
Record(row) == [status |-> row.status, notes |-> row.notes,
                purpose |-> row.coordination.state]

recordBar == [s \in Subs |->
    IF Matches(s) = {} THEN NoRecord ELSE Record(ops[First(s)])]

Shown(r) == [stage  |-> CASE r.pc = "new"  -> "idle"
                          [] r.pc = "log"  -> "performed"
                          [] r.pc = "done" -> "closed"
                          [] OTHER         -> "open",
             ask    |-> r.ask,
             answer |-> r.answer]

callBar == [t \in Requests |-> Shown(req[t])]

Desk == INSTANCE ReviewDesk WITH
    record <- recordBar, call <- callBar

\* Each reviewer call takes effect atomically, at most once, on exactly the
\* fields it names, and its answer tells the truth: no edit of another
\* reviewer is lost and the upsert never gives up ("stuck").
ImplementsDesk == Desk!DeskSpec
=============================================================================
