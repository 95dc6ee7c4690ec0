------------------------- MODULE OpsWorkflowProofs -------------------------
(***************************************************************************)
(* Theorems about OpsWorkflow, for every number of submissions, requests,  *)
(* statuses and texts, and every set of faults: what ops holds, that the   *)
(* reviewer calls are atomic (ReviewDesk is implemented), that a           *)
(* coordination lifecycle only goes forward, and, where the append of      *)
(* events does not fail, that the events retell their row.                 *)
(***************************************************************************)
EXTENDS OpsWorkflow, FiniteSetTheorems, TLAPS

USE OpsAssumption DEF OpsAssumption

-----------------------------------------------------------------------------
(* Rows and lifecycle records keep their types. *)

\* A lifecycle stamp is never ahead of the clock.
Past(c) == c.started <= now /\ c.ended <= now

Pcs == {"new", "update", "check", "create", "updateAgain", "coordinate",
        "root", "write", "log", "done"}
Answers == {"none", "ok", "exists", "not_found", "conflict", "stuck",
            "error", "lost"}

LEMMA NoAskSub == NoAsk.sub \in Subs
  BY DEF NoAsk

LEMMA AskType ==
  ASSUME NEW a \in Asks \cup {NoAsk}
  PROVE  /\ a.sub \in Subs
         /\ a.status \in Statuses \cup {Omit}
         /\ a.notes \in Texts \cup {Omit}
  BY NoAskSub DEF Asks, NoAsk

LEMMA UnassessedType == Unassessed \in Coordinations
  BY DEF Unassessed, Coordinations, Time

LEMMA BlankRowType ==
  ASSUME NEW s \in Subs
  PROVE  /\ BlankRow(s) \in Rows
         /\ [BlankRow(s) EXCEPT !.status = New] \in Rows
         /\ BlankRow(s).sub = s
         /\ BlankRow(s).coordination = Unassessed
  BY UnassessedType DEF BlankRow, Rows

LEMMA EditedType ==
  ASSUME NEW row \in Rows, NEW a \in Asks \cup {NoAsk}
  PROVE  /\ Edited(row, a) \in Rows
         /\ Edited(row, a).sub = row.sub
         /\ Edited(row, a).coordination = row.coordination
  BY AskType DEF Edited, Rows

LEMMA AppliedType ==
  ASSUME now \in Time, NEW c \in Coordinations, Past(c),
         NEW kind \in {"preserve", "end"},
         kind = "end" => c.state # "unassessed"
  PROVE  Applied(c, kind) \in Coordinations /\ Past(Applied(c, kind))
<1>1. /\ c.started \in Nat /\ c.ended \in Nat /\ now \in Nat
      /\ c.started \in Time /\ c.ended \in Time /\ 0 \in Time
      /\ c.state \in {"unassessed", "active", "ended"}
      /\ c.state = "ended" => c.ended >= c.started
      /\ c.state # "ended" => c.ended = 0
  BY DEF Coordinations, Time
<1>2. CASE kind = "preserve"
  BY <1>1, <1>2 DEF Applied, Past, Coordinations
<1>3. CASE kind = "end"
  <2> DEFINE stamp == IF c.state = "ended" THEN c.ended ELSE now
             new == Applied(c, kind)
  <2>1. stamp \in Time /\ stamp >= c.started /\ stamp <= now
    BY <1>1, <1>3 DEF Past
  <2>2. /\ new \in [state : {"unassessed", "active", "ended"},
                   started : Time, ended : Time]
        /\ new.state = "ended" /\ new.started = c.started
        /\ new.ended = stamp
    BY <1>1, <1>3, <2>1 DEF Applied, Coordinations
  <2>3. QED
    BY <2>1, <2>2 DEF Past, Coordinations
<1>4. QED
  BY <1>2, <1>3

-----------------------------------------------------------------------------
(* What the requests hold in memory *)

LocalOK ==
    /\ req \in [Requests -> Local]
    /\ \A t \in Requests :
          /\ Past(req[t].was.coordination)
          /\ Past(req[t].row.coordination)
          /\ req[t].pc \in {"coordinate", "root"} =>
                req[t].ask.kind \in {"preserve", "end"}

SheetOK ==
    /\ ops \in Seq(Rows)
    /\ \A i \in DOMAIN ops : Past(ops[i].coordination)

TypeInv == TypeOK /\ LocalOK /\ SheetOK

LEMMA IdleType ==
  ASSUME now \in Time
  PROVE  /\ Idle \in Local
         /\ \A a \in Answers : Done(a) \in Local /\ Done(a).pc = "done"
         /\ Past(Idle.was.coordination) /\ Past(Idle.row.coordination)
         /\ \A a \in Answers : /\ Past(Done(a).was.coordination)
                               /\ Past(Done(a).row.coordination)
<1>1. BlankRow(NoAsk.sub) \in Rows /\ NoAsk \in Asks \cup {NoAsk}
  BY NoAskSub, BlankRowType
<1>2. Past(Unassessed)
  BY DEF Past, Unassessed, Time
<1>3. /\ Idle \in Local
      /\ Idle.was.coordination = Unassessed
      /\ Idle.row.coordination = Unassessed
  BY <1>1, NoAskSub, BlankRowType DEF Idle, Local
<1>4. \A a \in Answers : /\ Done(a) \in Local /\ Done(a).pc = "done"
                         /\ Done(a).was = Idle.was /\ Done(a).row = Idle.row
  BY <1>3 DEF Done, Local, Answers
<1>5. QED
  BY <1>2, <1>3, <1>4

LEMMA GoType ==
  ASSUME LocalOK, now' = now, NEW t \in Requests, NEW p \in Pcs, Go(t, p),
         p \in {"coordinate", "root"} => Ask(t).kind \in {"preserve", "end"}
  PROVE  LocalOK'
<1>1. /\ req' \in [Requests -> Local]
      /\ \A u \in Requests : /\ req'[u].was = req[u].was
                             /\ req'[u].row = req[u].row
                             /\ req'[u].ask = req[u].ask
                             /\ u # t => req'[u].pc = req[u].pc
      /\ req'[t].pc = p
  BY DEF LocalOK, Go, Local, Pcs
<1>2. QED
  BY <1>1 DEF LocalOK, Past, Ask

LEMMA AnswerType ==
  ASSUME LocalOK, now \in Time, now' = now, NEW t \in Requests,
         NEW a \in Answers, Answer(t, a)
  PROVE  LocalOK'
<1>1. /\ req' \in [Requests -> Local]
      /\ \A u \in Requests : req'[u] = IF u = t THEN Done(a) ELSE req[u]
  BY IdleType DEF LocalOK, Answer
<1>2. QED
  BY <1>1, IdleType DEF LocalOK, Past

LEMMA HoldType ==
  ASSUME LocalOK, now' = now, NEW t \in Requests, NEW n \in Nat,
         NEW old \in Rows, NEW new \in Rows, Hold(t, n, old, new),
         Past(old.coordination), Past(new.coordination)
  PROVE  LocalOK'
<1> DEFINE x == [req[t] EXCEPT !.pc = "write", !.number = n,
                              !.was = old, !.row = new]
<1>1. req[t] \in Local
  BY DEF LocalOK
<1>2. /\ x \in Local
      /\ x.was = old /\ x.row = new /\ x.pc = "write"
  BY <1>1 DEF Local
<1>3. req' = [req EXCEPT ![t] = x]
  BY DEF Hold
<1> HIDE DEF x
<1>4. /\ req' \in [Requests -> Local]
      /\ \A u \in Requests : req'[u] = IF u = t THEN x ELSE req[u]
  BY <1>2, <1>3 DEF LocalOK
<1>5. QED
  BY <1>2, <1>4 DEF LocalOK, Past

-----------------------------------------------------------------------------
(* The lock keeps the copies fresh and the rows unique. *)

Inv == TypeInv /\ OneOpsRow /\ CopiesFresh

\* Program points at which a request holds the lock.
Held == {"root", "write", "log"}

LEMMA FirstMatch ==
  ASSUME OneOpsRow, SheetOK, NEW s, Matches(s) # {}
  PROVE  /\ First(s) \in DOMAIN ops /\ First(s) \in Nat \ {0}
         /\ ops[First(s)].sub = s
         /\ ops[First(s)] \in Rows /\ Past(ops[First(s)].coordination)
<1>1. PICK i \in Matches(s) : TRUE
  OBVIOUS
<1>2. DOMAIN ops \subseteq Nat \ {0}
  BY DEF SheetOK
<1>3. \A k \in Matches(s) : i <= k
  BY <1>1, <1>2 DEF OneOpsRow, Matches
<1>4. First(s) \in Matches(s)
  BY <1>3 DEF First
<1>5. QED
  BY <1>2, <1>4 DEF Matches, SheetOK

\* A request that does not get hold of the lock disturbs no copy.
LEMMA QuietFresh ==
  ASSUME CopiesFresh, ops' = ops, NEW t \in Requests,
         \A u \in Requests \ {t} : req'[u] = req[u],
         req'[t].pc \notin Held,
         lock' = lock \/ lock = t
  PROVE  CopiesFresh'
  BY DEF CopiesFresh, At, Ask, Matches, Held

LEMMA HoldFresh ==
  ASSUME LocalOK, CopiesFresh, ops' = ops, NEW t \in Requests,
         lock \in {NoReq, t}, NEW n \in Nat, NEW old, NEW new,
         Hold(t, n, old, new),
         old.sub = Ask(t).sub, new.sub = Ask(t).sub,
         IF n = 0 THEN Matches(Ask(t).sub) = {}
                  ELSE n \in DOMAIN ops /\ ops[n] = old
  PROVE  CopiesFresh'
<1>1. /\ \A u \in Requests \ {t} : req'[u] = req[u]
      /\ req'[t].pc = "write" /\ req'[t].number = n
      /\ req'[t].was = old /\ req'[t].row = new
      /\ req'[t].ask = req[t].ask
  BY DEF LocalOK, Hold, Local
<1>2. \A u \in Requests \ {t} : req'[u].pc \notin Held
  BY <1>1 DEF CopiesFresh, Held
<1>3. lock' = t
  BY DEF Hold
<1>4. QED
  BY <1>1, <1>2, <1>3 DEF CopiesFresh, At, Ask, Matches, Held

\* Going on, or answering, without the lock and without a sheet.
LEMMA GoInv ==
  ASSUME Inv, NEW t \in Requests, NEW p \in Pcs, Go(t, p), p \notin Held,
         p = "coordinate" => Ask(t).kind \in {"preserve", "end"},
         UNCHANGED <<sheets, now, lock>>
  PROVE  Inv'
<1>1. LocalOK'
  BY GoType DEF Inv, TypeInv, Held, sheets
<1>2. /\ \A u \in Requests \ {t} : req'[u] = req[u]
      /\ req'[t].pc = p
  BY DEF Go, Inv, TypeInv, LocalOK, Local
<1>3. CopiesFresh'
  BY <1>2, QuietFresh DEF Inv, sheets
<1>4. QED
  BY <1>1, <1>3
     DEF Inv, TypeInv, TypeOK, LocalOK, SheetOK, OneOpsRow, Past, sheets

LEMMA AnswerInv ==
  ASSUME Inv, NEW t \in Requests, NEW a \in Answers, Answer(t, a),
         UNCHANGED lock \/ Leave(t), UNCHANGED <<sheets, now>>
  PROVE  Inv'
<1>1. LocalOK'
  BY AnswerType DEF Inv, TypeInv, TypeOK
<1>2. /\ \A u \in Requests \ {t} : req'[u] = req[u]
      /\ req'[t].pc = "done"
  BY IdleType DEF Answer, Inv, TypeInv, TypeOK, LocalOK
<1>3. CopiesFresh'
  BY <1>2, QuietFresh DEF Inv, Held, sheets, Leave
<1>4. QED
  BY <1>1, <1>3
     DEF Inv, TypeInv, TypeOK, LocalOK, SheetOK, OneOpsRow, Past, sheets, Leave

LEMMA HoldInv ==
  ASSUME Inv, NEW t \in Requests, lock \in {NoReq, t}, NEW n \in Nat,
         NEW old \in Rows, NEW new \in Rows, Hold(t, n, old, new),
         Past(old.coordination), Past(new.coordination),
         old.sub = Ask(t).sub, new.sub = Ask(t).sub,
         IF n = 0 THEN Matches(Ask(t).sub) = {}
                  ELSE n \in DOMAIN ops /\ ops[n] = old,
         UNCHANGED <<sheets, now>>
  PROVE  Inv'
<1>1. LocalOK'
  BY HoldType DEF Inv, TypeInv
<1>2. CopiesFresh'
  BY HoldFresh DEF Inv, TypeInv, sheets
<1>3. lock' \in Requests
  BY DEF Hold
<1>4. QED
  BY <1>1, <1>2, <1>3
     DEF Inv, TypeInv, TypeOK, LocalOK, SheetOK, OneOpsRow, Past, sheets

\* The overwritten or appended row leaves the sheet typed and its rows unique.
LEMMA WrittenOK ==
  ASSUME Inv, NEW t \in Requests, At(t, "write")
  PROVE  /\ Written(t) \in Seq(Rows)
         /\ \A i \in DOMAIN Written(t) : Past(Written(t)[i].coordination)
         /\ \A i, k \in DOMAIN Written(t) :
               Written(t)[i].sub = Written(t)[k].sub => i = k
<1> DEFINE row == req[t].row
           n == req[t].number
<1>1. /\ row \in Rows /\ Past(row.coordination) /\ n \in Nat
      /\ row.sub = Ask(t).sub /\ req[t].was.sub = Ask(t).sub
      /\ IF n = 0 THEN Matches(Ask(t).sub) = {}
         ELSE n \in DOMAIN ops /\ ops[n] = req[t].was
  BY DEF Inv, TypeInv, LocalOK, Local, CopiesFresh
<1>2. /\ ops \in Seq(Rows) /\ DOMAIN ops = 1..Len(ops) /\ Len(ops) \in Nat
      /\ \A i \in DOMAIN ops : Past(ops[i].coordination)
      /\ \A i, k \in DOMAIN ops : ops[i].sub = ops[k].sub => i = k
  BY DEF Inv, TypeInv, SheetOK, OneOpsRow
<1>3. CASE n = 0
  <2>1. /\ Written(t) = Append(ops, row)
        /\ \A i \in DOMAIN ops : ops[i].sub # row.sub
    BY <1>1, <1>3 DEF Written, Matches
  <2>2. /\ Append(ops, row) \in Seq(Rows)
        /\ DOMAIN Append(ops, row) = 1..(Len(ops) + 1)
        /\ \A i \in 1..Len(ops) : Append(ops, row)[i] = ops[i]
        /\ Append(ops, row)[Len(ops) + 1] = row
    BY <1>1, <1>2
  <2> HIDE DEF row, n
  <2>3. QED
    BY <1>1, <1>2, <2>1, <2>2
<1>4. CASE n # 0
  <2>1. Written(t) = [ops EXCEPT ![n] = row] /\ n \in DOMAIN ops
    BY <1>1, <1>4 DEF Written
  <2>2. /\ Written(t) \in Seq(Rows) /\ DOMAIN Written(t) = DOMAIN ops
        /\ \A i \in DOMAIN ops :
              Written(t)[i] = IF i = n THEN row ELSE ops[i]
    BY <1>1, <1>2, <2>1
  <2>3. ops[n].sub = row.sub
    BY <1>1, <1>4
  <2> HIDE DEF row, n
  <2>4. QED
    BY <1>1, <1>2, <2>2, <2>3
<1>5. QED
  BY <1>3, <1>4

\* After its write a request no longer holds a copy.
LEMMA WroteInv ==
  ASSUME Inv, NEW t \in Requests, At(t, "write"),
         ops' \in {ops, Written(t)}, LocalOK',
         \A u \in Requests \ {t} : req'[u] = req[u],
         \/ req'[t].pc = "log" /\ lock' = lock
         \/ req'[t].pc = "done" /\ Leave(t),
         UNCHANGED <<submitted, events, now>>
  PROVE  Inv'
<1>1. lock = t /\ \A u \in Requests \ {t} : req[u].pc \notin Held
  BY DEF Inv, CopiesFresh, Held, At
<1>2. SheetOK' /\ OneOpsRow'
  BY WrittenOK DEF Inv, TypeInv, SheetOK, OneOpsRow, Past
<1>3. CopiesFresh'
  BY <1>1 DEF CopiesFresh, Held, At, Leave
<1>4. TypeOK'
  BY <1>1, <1>2 DEF Inv, TypeInv, TypeOK, SheetOK, LocalOK, Leave
<1>5. QED
  BY <1>2, <1>3, <1>4 DEF Inv, TypeInv

-----------------------------------------------------------------------------
(* Every step keeps the invariant. *)

LEMMA InitInv == Init => Inv
<1> SUFFICES ASSUME Init PROVE Inv
  OBVIOUS
<1>1. now \in Time /\ Idle.pc = "new"
  BY DEF Init, Time, Idle
<1>2. LocalOK
  BY <1>1, IdleType DEF Init, LocalOK
<1>3. SheetOK /\ OneOpsRow
  BY DEF Init, SheetOK, OneOpsRow
<1>4. TypeOK
  BY <1>1, <1>2, <1>3 DEF Init, TypeOK, LocalOK, SheetOK
<1>5. CopiesFresh
  BY <1>1 DEF Init, CopiesFresh, At
<1>6. QED
  BY <1>2, <1>3, <1>4, <1>5 DEF Inv, TypeInv

LEMMA ReceiveInv ==
  ASSUME Inv, NEW t \in Requests, Receive(t)
  PROVE  Inv'
<1>1. PICK a \in Asks :
        req' = [req EXCEPT ![t].ask = a, ![t].pc = Entry(a.kind)]
  BY DEF Receive
<1>2. /\ Entry(a.kind) \in {"create", "update", "coordinate"}
      /\ Entry(a.kind) = "coordinate" => a.kind \in {"preserve", "end"}
  <2>1. a.kind \in {"create", "update", "upsert", "preserve", "end"}
    BY DEF Asks
  <2>2. QED
    BY <2>1 DEF Entry
<1>3. /\ req' \in [Requests -> Local]
      /\ \A u \in Requests \ {t} : req'[u] = req[u]
      /\ req'[t].pc = Entry(a.kind) /\ req'[t].ask = a
      /\ req'[t].was = req[t].was /\ req'[t].row = req[t].row
  <2> DEFINE p == Entry(a.kind)
             x == [req[t] EXCEPT !.ask = a, !.pc = p]
  <2>1. req[t] \in Local /\ p \in {"create", "update", "coordinate"}
    BY <1>2 DEF Inv, TypeInv, LocalOK
  <2> HIDE DEF p
  <2>2. /\ x \in Local /\ x.pc = p /\ x.ask = a
        /\ x.was = req[t].was /\ x.row = req[t].row
    BY <2>1 DEF Local
  <2>3. req' = [req EXCEPT ![t] = x]
    BY <1>1 DEF p
  <2> HIDE DEF x
  <2>4. /\ req' \in [Requests -> Local]
        /\ \A u \in Requests : req'[u] = IF u = t THEN x ELSE req[u]
    BY <2>2, <2>3 DEF Inv, TypeInv, LocalOK
  <2>5. QED
    BY <2>2, <2>4 DEF p
<1>4. LocalOK'
  BY <1>2, <1>3 DEF Receive, Inv, TypeInv, LocalOK, Past
<1>5. CopiesFresh'
  BY <1>2, <1>3, QuietFresh DEF Receive, Inv, Held, sheets
<1>6. QED
  BY <1>4, <1>5
     DEF Receive, Inv, TypeInv, TypeOK, LocalOK, SheetOK, OneOpsRow, Past, sheets

LEMMA UpdateReadInv ==
  ASSUME Inv, NEW t \in Requests, UpdateRead(t)
  PROVE  Inv'
<1> DEFINE s == Ask(t).sub
<1>1. /\ lock = NoReq /\ UNCHANGED <<sheets, now>>
      /\ Ask(t) \in Asks \cup {NoAsk}
  BY DEF UpdateRead, Enter, Ask, Inv, TypeInv, LocalOK, Local
<1>2. CASE Matches(s) # {}
  <2>1. /\ First(s) \in DOMAIN ops /\ First(s) \in Nat \ {0}
        /\ ops[First(s)] \in Rows /\ ops[First(s)].sub = s
        /\ Past(ops[First(s)].coordination)
    BY <1>2, FirstMatch DEF Inv, TypeInv
  <2>2. /\ Edited(ops[First(s)], Ask(t)) \in Rows
        /\ Edited(ops[First(s)], Ask(t)).sub = s
        /\ Past(Edited(ops[First(s)], Ask(t)).coordination)
    BY <1>1, <2>1, EditedType
  <2>3. Hold(t, First(s), ops[First(s)], Edited(ops[First(s)], Ask(t)))
    BY <1>2 DEF UpdateRead
  <2>4. QED
    BY <1>1, <2>1, <2>2, <2>3, HoldInv
<1>3. CASE Matches(s) = {}
  <2>1. UNCHANGED lock
    BY <1>3 DEF UpdateRead
  <2>2. \/ Answer(t, "not_found") \/ Answer(t, "stuck") \/ Go(t, "check")
    BY <1>3 DEF UpdateRead
  <2>3. {"not_found", "stuck"} \subseteq Answers
        /\ "check" \in Pcs /\ "check" \notin Held
    BY DEF Answers, Pcs, Held
  <2>4. QED
    BY <1>1, <2>1, <2>2, <2>3, AnswerInv, GoInv
<1>4. QED
  BY <1>2, <1>3

LEMMA CheckSubmissionInv ==
  ASSUME Inv, NEW t \in Requests, CheckSubmission(t)
  PROVE  Inv'
<1>1. "not_found" \in Answers /\ "create" \in Pcs \ Held
  BY DEF Answers, Pcs, Held
<1>2. QED
  BY <1>1, AnswerInv, GoInv DEF CheckSubmission

LEMMA CreateReadInv ==
  ASSUME Inv, NEW t \in Requests, CreateRead(t)
  PROVE  Inv'
<1> DEFINE s == Ask(t).sub
<1>1. /\ lock = NoReq /\ UNCHANGED <<sheets, now>>
      /\ Ask(t) \in Asks \cup {NoAsk} /\ now \in Time
  BY DEF CreateRead, Enter, Ask, Inv, TypeInv, TypeOK, LocalOK, Local
<1>2. CASE Matches(s) = {}
  <2> DEFINE first == [BlankRow(s) EXCEPT !.status = New]
  <2>1. /\ BlankRow(s) \in Rows /\ BlankRow(s).sub = s
        /\ BlankRow(s).coordination = Unassessed
        /\ first \in Rows
    BY <1>1, AskType, BlankRowType
  <2>2. first.sub = s /\ first.coordination = Unassessed
    BY <2>1 DEF Rows
  <2>3. Past(Unassessed)
    BY <1>1 DEF Past, Unassessed, Time
  <2> HIDE DEF first
  <2>4. /\ Edited(first, Ask(t)) \in Rows /\ Edited(first, Ask(t)).sub = s
        /\ Past(Edited(first, Ask(t)).coordination)
    BY <1>1, <2>1, <2>2, <2>3, EditedType
  <2>5. Hold(t, 0, BlankRow(s), Edited(first, Ask(t)))
    BY <1>2 DEF CreateRead, FirstState, first
  <2>6. QED
    BY <1>1, <1>2, <2>1, <2>3, <2>4, <2>5, HoldInv
<1>3. CASE Matches(s) # {}
  <2>1. UNCHANGED lock /\ (Answer(t, "exists") \/ Go(t, "updateAgain"))
    BY <1>3 DEF CreateRead
  <2>2. "exists" \in Answers /\ "updateAgain" \in Pcs \ Held
    BY DEF Answers, Pcs, Held
  <2>3. QED
    BY <1>1, <2>1, <2>2, AnswerInv, GoInv
<1>4. QED
  BY <1>2, <1>3

LEMMA IntendInv ==
  ASSUME Inv, NEW t \in Requests, lock \in {NoReq, t}, NEW n \in Nat,
         NEW row \in Rows, Past(row.coordination), row.sub = Ask(t).sub,
         Ask(t).kind \in {"preserve", "end"}, Intend(t, n, row),
         IF n = 0 THEN Matches(Ask(t).sub) = {}
                  ELSE n \in DOMAIN ops /\ ops[n] = row,
         UNCHANGED <<sheets, now>>
  PROVE  Inv'
<1> DEFINE c == row.coordination
           new == [row EXCEPT !.coordination = Applied(@, Ask(t).kind)]
<1>1. CASE Ask(t).kind = "end" /\ c.state = "unassessed"
  <2>1. Answer(t, "conflict") /\ Leave(t) /\ "conflict" \in Answers
    BY <1>1 DEF Intend, Answers
  <2>2. QED
    BY <2>1, AnswerInv
<1>2. CASE ~(Ask(t).kind = "end" /\ c.state = "unassessed")
  <2>1. c \in Coordinations /\ now \in Time
    BY DEF Rows, Inv, TypeInv, TypeOK
  <2>2. Applied(c, Ask(t).kind) \in Coordinations /\ Past(Applied(c, Ask(t).kind))
    BY <1>2, <2>1, AppliedType
  <2>3. new \in Rows /\ Past(new.coordination) /\ new.sub = row.sub
    BY <2>2 DEF Rows
  <2>4. Hold(t, n, row, new)
    BY <1>2 DEF Intend
  <2> HIDE DEF new
  <2>5. QED
    BY <2>3, <2>4, HoldInv
<1>3. QED
  BY <1>1, <1>2

LEMMA CoordinateReadInv ==
  ASSUME Inv, NEW t \in Requests, CoordinateRead(t)
  PROVE  Inv'
<1> DEFINE s == Ask(t).sub
<1>1. /\ lock = NoReq /\ UNCHANGED <<sheets, now>>
      /\ Ask(t).kind \in {"preserve", "end"}
  BY DEF CoordinateRead, Enter, At, Ask, Inv, TypeInv, LocalOK
<1>2. "conflict" \in Answers /\ "root" \in Pcs
  BY DEF Answers, Pcs
<1>3. CASE Cardinality(Matches(s)) = 1 /\ Intend(t, First(s), ops[First(s)])
  <2>1. Matches(s) # {}
    BY <1>3, FS_EmptySet
  <2>2. /\ First(s) \in DOMAIN ops /\ First(s) \in Nat \ {0}
        /\ ops[First(s)] \in Rows /\ ops[First(s)].sub = s
        /\ Past(ops[First(s)].coordination)
    BY <2>1, FirstMatch DEF Inv, TypeInv
  <2>3. QED
    BY <1>1, <1>3, <2>2, IntendInv
<1>4. CASE Answer(t, "conflict") /\ UNCHANGED lock
  BY <1>1, <1>2, <1>4, AnswerInv
<1>5. CASE Matches(s) = {} /\ lock' = t /\ Go(t, "root")
  <2>1. LocalOK'
    BY <1>1, <1>2, <1>5, GoType DEF Inv, TypeInv
  <2>2. /\ \A u \in Requests \ {t} : req'[u] = req[u]
        /\ req'[t].pc = "root" /\ req'[t].ask = req[t].ask
    BY <1>5 DEF Go, Inv, TypeInv, LocalOK, Local
  <2>3. \A u \in Requests \ {t} : req[u].pc \notin Held
    BY <1>1 DEF Inv, CopiesFresh, Held
  <2>4. CopiesFresh'
    BY <1>1, <1>5, <2>2, <2>3
       DEF CopiesFresh, Held, At, Ask, Matches, sheets
  <2>5. QED
    BY <1>1, <1>5, <2>1, <2>4
       DEF Inv, TypeInv, TypeOK, LocalOK, SheetOK, OneOpsRow, Past, sheets
<1>6. QED
  BY <1>3, <1>4, <1>5 DEF CoordinateRead

LEMMA CoordinateRootInv ==
  ASSUME Inv, NEW t \in Requests, CoordinateRoot(t)
  PROVE  Inv'
<1> DEFINE s == Ask(t).sub
           first == [BlankRow(s) EXCEPT !.status = New]
<1>1. /\ lock = t /\ Matches(s) = {} /\ UNCHANGED <<sheets, now>>
      /\ Ask(t).kind \in {"preserve", "end"} /\ now \in Time
      /\ Ask(t) \in Asks \cup {NoAsk}
  BY DEF CoordinateRoot, At, Ask, Inv, TypeInv, TypeOK, LocalOK, Local, CopiesFresh
<1>2. CASE s \in submitted
  <2>1. /\ BlankRow(s).coordination = Unassessed
        /\ first \in Rows /\ BlankRow(s) \in Rows /\ BlankRow(s).sub = s
    BY <1>1, AskType, BlankRowType
  <2>2. first.sub = s /\ first.coordination = Unassessed
    BY <2>1 DEF Rows
  <2>3. Past(Unassessed)
    BY <1>1 DEF Past, Unassessed, Time
  <2>4. Intend(t, 0, first)
    BY <1>2 DEF CoordinateRoot
  <2> HIDE DEF first
  <2>5. QED
    BY <1>1, <2>1, <2>2, <2>3, <2>4, IntendInv
<1>3. CASE s \notin submitted
  <2>1. Answer(t, "conflict") /\ Leave(t) /\ "conflict" \in Answers
    BY <1>3 DEF CoordinateRoot, Answers
  <2>2. QED
    BY <1>1, <2>1, AnswerInv
<1>4. QED
  BY <1>2, <1>3

LEMMA WriteInv ==
  ASSUME Inv, NEW t \in Requests, Write(t) \/ WriteFails(t)
  PROVE  Inv'
<1>1. /\ At(t, "write") /\ ops' \in {ops, Written(t)}
      /\ UNCHANGED <<submitted, events, now>> /\ now \in Time
  BY DEF Write, WriteFails, Inv, TypeInv, TypeOK
<1>2. CASE \E a \in {"ok", "error"} : Answer(t, a) /\ Leave(t)
  <2>1. PICK a \in {"ok", "error"} : Answer(t, a) /\ Leave(t)
    BY <1>2
  <2>2. a \in Answers
    BY DEF Answers
  <2>3. LocalOK'
    BY <1>1, <2>1, <2>2, AnswerType DEF Inv, TypeInv
  <2>4. /\ \A u \in Requests \ {t} : req'[u] = req[u]
        /\ req'[t].pc = "done"
    BY <1>1, <2>1, <2>2, IdleType DEF Answer, Inv, TypeInv, LocalOK
  <2>5. QED
    BY <1>1, <2>1, <2>3, <2>4, WroteInv
<1>3. CASE Go(t, "log") /\ UNCHANGED lock
  <2>1. LocalOK'
    BY <1>1, <1>3, GoType DEF Inv, TypeInv, Pcs
  <2>2. /\ \A u \in Requests \ {t} : req'[u] = req[u]
        /\ req'[t].pc = "log"
    BY <1>3 DEF Go, Inv, TypeInv, LocalOK, Local
  <2>3. QED
    BY <1>1, <1>3, <2>1, <2>2, WroteInv
<1>4. QED
  BY <1>2, <1>3 DEF Write, WriteFails

LEMMA LogInv ==
  ASSUME Inv, NEW t \in Requests, Log(t)
  PROVE  Inv'
<1>1. /\ Answer(t, "ok") /\ Leave(t) /\ UNCHANGED <<submitted, ops, now>>
      /\ "ok" \in Answers /\ now \in Time
  BY DEF Log, Answers, Inv, TypeInv, TypeOK
<1>2. LocalOK'
  BY <1>1, AnswerType DEF Inv, TypeInv
<1>3. /\ \A u \in Requests \ {t} : req'[u] = req[u]
      /\ req'[t].pc = "done"
  BY <1>1, IdleType DEF Answer, Inv, TypeInv, LocalOK
<1>4. CopiesFresh'
  BY <1>1, <1>3, QuietFresh DEF Inv, Held, Leave
<1>5. events' \in [Subs -> [Fields -> Seq(Values \X Values)]]
  <2>1. req[t].was \in Rows /\ req[t].row \in Rows
    BY DEF Inv, TypeInv, LocalOK, Local
  <2>2. \A row \in Rows, f \in Fields : Cell(row, f) \in Values
    BY DEF Cell, Fields, Rows, Values, Coordinations
  <2>3. \A f \in Fields :
          <<Cell(req[t].was, f), Cell(req[t].row, f)>> \in Values \X Values
    BY <2>1, <2>2
  <2>4. events \in [Subs -> [Fields -> Seq(Values \X Values)]]
    BY DEF Inv, TypeInv, TypeOK
  <2> DEFINE s == Ask(t).sub
             pair(f) == <<Cell(req[t].was, f), Cell(req[t].row, f)>>
             longer == [f \in Fields |-> IF f \in Changed(t)
                                        THEN Append(events[s][f], pair(f))
                                        ELSE events[s][f]]
  <2>5. s \in Subs
    BY AskType DEF Ask, Inv, TypeInv, LocalOK, Local
  <2>6. longer \in [Fields -> Seq(Values \X Values)]
    <3> HIDE DEF pair
    <3>1. \A f \in Fields : /\ events[s][f] \in Seq(Values \X Values)
                            /\ pair(f) \in Values \X Values
      BY <2>3, <2>4, <2>5 DEF pair
    <3>2. \A f \in Fields : Append(events[s][f], pair(f)) \in Seq(Values \X Values)
      BY <3>1
    <3>3. QED
      BY <3>1, <3>2
  <2>7. events' = [events EXCEPT ![s] = longer] \/ events' = events
    BY <2>4, <2>5 DEF Log
  <2> HIDE DEF longer
  <2>8. QED
    BY <2>4, <2>5, <2>6, <2>7
<1>6. QED
  BY <1>1, <1>2, <1>4, <1>5
     DEF Inv, TypeInv, TypeOK, LocalOK, SheetOK, OneOpsRow, Past, Leave

LEMMA ReadFailsInv ==
  ASSUME Inv, NEW t \in Requests, ReadFails(t)
  PROVE  Inv'
  BY AnswerInv DEF ReadFails, Answers

LEMMA CrashInv ==
  ASSUME Inv, Crash
  PROVE  Inv'
<1>1. now \in Time /\ "lost" \in Answers
  BY DEF Answers, Inv, TypeInv, TypeOK
<1>2. /\ req' \in [Requests -> Local]
      /\ \A u \in Requests : \/ req'[u] = Done("lost")
                             \/ /\ req'[u] = req[u]
                                /\ req[u].pc \in {"new", "done"}
  BY <1>1, IdleType DEF Crash, Inv, TypeInv, LocalOK
<1>3. LocalOK'
  BY <1>1, <1>2, IdleType DEF Crash, Inv, TypeInv, LocalOK, Past
<1>4. CopiesFresh'
  BY <1>1, <1>2, IdleType DEF CopiesFresh, At
<1>5. QED
  BY <1>3, <1>4
     DEF Crash, Inv, TypeInv, TypeOK, LocalOK, SheetOK, OneOpsRow, Past, sheets

LEMMA SubmitInv ==
  ASSUME Inv, NEW s \in Subs, Submit(s)
  PROVE  Inv'
  BY DEF Submit, Inv, TypeInv, TypeOK, LocalOK, SheetOK, OneOpsRow, Past,
         CopiesFresh, At, Ask, Matches

LEMMA TickInv ==
  ASSUME Inv, Tick
  PROVE  Inv'
<1>1. now \in Nat /\ now' = now + 1 /\ now' \in Time
  BY DEF Tick, Inv, TypeInv, TypeOK, Time
<1>2. \A c \in Coordinations : Past(c) => Past(c)'
  BY <1>1 DEF Past, Coordinations, Time
<1>3. LocalOK'
  BY <1>2 DEF Tick, Inv, TypeInv, LocalOK, Local, Rows
<1>4. SheetOK'
  <2>1. /\ ops \in Seq(Rows) /\ ops' = ops
        /\ \A i \in DOMAIN ops : Past(ops[i].coordination)
    BY DEF Tick, Inv, TypeInv, SheetOK, sheets
  <2>2. \A i \in DOMAIN ops : ops[i] \in Rows
    BY <2>1
  <2>3. \A i \in DOMAIN ops : ops[i].coordination \in Coordinations
    BY <2>2 DEF Rows
  <2>4. QED
    BY <1>2, <2>1, <2>3 DEF SheetOK
<1>5. QED
  BY <1>1, <1>3, <1>4
     DEF Tick, Inv, TypeInv, TypeOK, OneOpsRow, CopiesFresh, At, Ask,
         Matches, sheets

LEMMA NextInv ==
  ASSUME Inv, [Next]_vars
  PROVE  Inv'
<1>1. CASE UNCHANGED vars
  BY <1>1 DEF vars, Inv, TypeInv, TypeOK, LocalOK, SheetOK, OneOpsRow, Past,
              CopiesFresh, At, Ask, Matches
<1>2. ASSUME NEW t \in Requests, Receive(t) \/ Step(t) PROVE Inv'
  BY <1>2, ReceiveInv, UpdateReadInv, CheckSubmissionInv, CreateReadInv,
     CoordinateReadInv, CoordinateRootInv, WriteInv, LogInv, ReadFailsInv
     DEF Step
<1>3. QED
  BY <1>1, <1>2, SubmitInv, CrashInv, TickInv DEF Next

\* The inductive invariant holds in every state.
THEOREM InvAlways == Spec => []Inv
<1>1. QED
  BY InitInv, NextInv, PTL DEF Spec

\* Rows, requests in memory and their lifecycle records keep their types:
\* no sequence of preserve, end and edits makes a record that
\* validate_lifecycle would refuse when it is read again.
THEOREM TypeCorrect == Spec => []TypeOK
<1>1. Inv => TypeOK
  BY DEF Inv, TypeInv
<1>2. QED
  BY <1>1, InvAlways, PTL

\* However many requests overlap, fail or die, no submission gets a second
\* ops row: _ops_write_lock covers the lookup and the append.
THEOREM RowsStayUnique == Spec => []OneOpsRow
<1>1. Inv => OneOpsRow
  BY DEF Inv
<1>2. QED
  BY <1>1, InvAlways, PTL

\* A row a request is about to overwrite is still as it read it, and a row it
\* is about to append is still missing: no edit is lost.
THEOREM CopiesStayFresh == Spec => []CopiesFresh
<1>1. Inv => CopiesFresh
  BY DEF Inv
<1>2. QED
  BY <1>1, InvAlways, PTL
-----------------------------------------------------------------------------

Kinds == {"create", "update", "upsert", "preserve", "end"}

-----------------------------------------------------------------------------
(* What a request has found out, and what it is about to write *)

\* The record a request computed its new row from.
Base(t) == IF req[t].number = 0 THEN Desk!Fresh ELSE Record(req[t].was)

\* At each program point the request's kind, and the facts it established
\* that no later step of another request can undo.
Promise(t) == LET a == Ask(t) IN
    /\ req[t].pc \notin {"new", "done"} => a \in Asks
    /\ At(t, "update") => a.kind \in {"update", "upsert"}
    /\ At(t, "check") => a.kind = "upsert"
    /\ At(t, "create") =>
          \/ a.kind = "create"
          \/ a.kind = "upsert" /\ a.sub \in submitted
    /\ At(t, "updateAgain") => a.kind = "upsert" /\ Matches(a.sub) # {}
    /\ At(t, "root") => a.kind = "preserve"
    /\ At(t, "write") =>
          /\ Record(req[t].row).status = Desk!Overlay(Base(t).status, a.status)
          /\ Record(req[t].row).notes = Desk!Overlay(Base(t).notes, a.notes)
          /\ Record(req[t].row).purpose =
                CASE a.kind = "preserve" -> "active"
                  [] a.kind = "end"      -> "ended"
                  [] OTHER               -> Base(t).purpose
          /\ req[t].number = 0 =>
                \/ a.kind = "create"
                \/ a.kind \in {"upsert", "preserve"} /\ a.sub \in submitted
          /\ req[t].number # 0 =>
                \/ a.kind \in {"update", "upsert", "preserve"}
                \/ a.kind = "end" /\ Base(t).purpose # "unassessed"

Promises == \A t \in Requests : Promise(t)

LEMMA AskKind ==
  ASSUME NEW a \in Asks
  PROVE  /\ a.kind \in Kinds
         /\ a.kind = "create" => a.status # Omit /\ a.notes # Omit
         /\ a.kind \in {"preserve", "end"} => a.status = Omit /\ a.notes = Omit
  BY DEF Asks, Kinds

\* Rows are never removed and keep their submission.
LEMMA MatchesGrow ==
  ASSUME Inv, [Next]_vars, NEW s \in Subs, Matches(s) # {}
  PROVE  Matches(s)' # {}
<1>1. CASE ops' = ops
  BY <1>1 DEF Matches
<1>2. ASSUME NEW t \in Requests, At(t, "write"), ops' = Written(t)
      PROVE  Matches(s)' # {}
  <2>1. PICK i \in DOMAIN ops : ops[i].sub = s
    BY DEF Matches
  <2>2. /\ ops \in Seq(Rows) /\ req[t].row \in Rows /\ req[t].number \in Nat
        /\ DOMAIN ops = 1..Len(ops) /\ Len(ops) \in Nat
        /\ req[t].row.sub = Ask(t).sub
        /\ req[t].number # 0 => /\ req[t].number \in DOMAIN ops
                                /\ ops[req[t].number].sub = Ask(t).sub
    BY <1>2 DEF Inv, TypeInv, SheetOK, LocalOK, Local, CopiesFresh
  <2>3. i \in DOMAIN ops' /\ ops'[i].sub = s
    <3>1. CASE req[t].number = 0
      <4>1. ops' = Append(ops, req[t].row)
        BY <1>2, <3>1 DEF Written
      <4>2. QED
        BY <2>1, <2>2, <4>1
    <3>2. CASE req[t].number # 0
      <4>1. ops' = [ops EXCEPT ![req[t].number] = req[t].row]
        BY <1>2, <3>2 DEF Written
      <4>2. QED
        BY <2>1, <2>2, <3>2, <4>1
    <3>3. QED
      BY <3>1, <3>2
  <2>4. QED
    BY <2>3 DEF Matches
<1>3. ops' = ops \/ \E t \in Requests : At(t, "write") /\ ops' = Written(t)
  BY DEF Next, Step, Receive, UpdateRead, CheckSubmission, CreateRead,
         CoordinateRead, CoordinateRoot, Write, WriteFails, Log, ReadFails,
         Crash, Submit, Tick, vars, sheets
<1>4. QED
  BY <1>1, <1>2, <1>3

-----------------------------------------------------------------------------
(* The promises are kept *)

LEMMA InitPromises == Init => Promises
  BY DEF Init, Promises, Promise, Idle, At

\* What other requests were promised survives a step of t.
LEMMA OthersPromise ==
  ASSUME Inv, Promises, [Next]_vars, NEW u \in Requests, req'[u] = req[u]
  PROVE  Promise(u)'
<1>1. submitted \subseteq submitted'
  BY DEF Next, Step, Receive, UpdateRead, CheckSubmission, CreateRead,
         CoordinateRead, CoordinateRoot, Write, WriteFails, Log, ReadFails,
         Crash, Submit, Tick, vars, sheets
<1>2. Ask(u) \in Asks => Ask(u).sub \in Subs
  BY AskType
<1>3. (At(u, "updateAgain") => Matches(Ask(u).sub) # {})'
  BY <1>2, MatchesGrow DEF Promises, Promise, At, Ask
<1>4. QED
  BY <1>1, <1>3 DEF Promises, Promise, At, Ask, Base, Record, Desk!Fresh,
                    Desk!Overlay

\* A finished request owes nothing; one that goes on owes what it found out.
LEMMA AnswerPromise ==
  ASSUME Inv, NEW t \in Requests, NEW a \in Answers, Answer(t, a)
  PROVE  Promise(t)'
<1>1. req'[t] = Done(a) /\ Done(a).pc = "done"
  BY IdleType DEF Answer, Inv, TypeInv, TypeOK, LocalOK
<1>2. QED
  BY <1>1 DEF Promise, At

LEMMA GoShape ==
  ASSUME Inv, NEW t \in Requests, NEW p \in Pcs, Go(t, p)
  PROVE  /\ \A u \in Requests \ {t} : req'[u] = req[u]
         /\ req'[t].pc = p /\ req'[t].ask = req[t].ask
         /\ req'[t].answer = req[t].answer
         /\ req'[t].was = req[t].was /\ req'[t].row = req[t].row
         /\ req'[t].number = req[t].number
  BY DEF Go, Inv, TypeInv, LocalOK, Local

LEMMA HoldShape ==
  ASSUME Inv, NEW t \in Requests, NEW n, NEW old, NEW new, Hold(t, n, old, new)
  PROVE  /\ \A u \in Requests \ {t} : req'[u] = req[u]
         /\ req'[t].pc = "write" /\ req'[t].ask = req[t].ask
         /\ req'[t].answer = req[t].answer
         /\ req'[t].was = old /\ req'[t].row = new /\ req'[t].number = n
  BY DEF Hold, Inv, TypeInv, LocalOK, Local

\* A row edited from the row read, or from the defaults of a first row.
LEMMA EditedRecord ==
  ASSUME NEW row \in Rows, NEW a \in Asks
  PROVE  /\ Edited(row, a).status = Desk!Overlay(row.status, a.status)
         /\ Edited(row, a).notes = Desk!Overlay(row.notes, a.notes)
         /\ Edited(row, a).coordination = row.coordination
  BY DEF Edited, Rows, Desk!Overlay

LEMMA FirstStateRecord ==
  ASSUME NEW a \in Asks
  PROVE  /\ FirstState(a).status = Desk!Overlay(Desk!Fresh.status, a.status)
         /\ FirstState(a).notes = Desk!Overlay(Desk!Fresh.notes, a.notes)
         /\ FirstState(a).coordination.state = Desk!Fresh.purpose
<1> DEFINE first == [BlankRow(a.sub) EXCEPT !.status = New]
<1>1. first \in Rows
  BY AskType, BlankRowType
<1>2. /\ first.status = New /\ first.notes = Blank
      /\ first.coordination.state = "unassessed"
  BY DEF BlankRow, Unassessed
<1>3. FirstState(a) = Edited(first, a)
  BY DEF FirstState
<1> HIDE DEF first
<1>4. QED
  BY <1>1, <1>2, <1>3, EditedRecord DEF Desk!Fresh

LEMMA ReceivePromise ==
  ASSUME Inv, NEW t \in Requests, Receive(t)
  PROVE  /\ Promise(t)' /\ \A u \in Requests \ {t} : req'[u] = req[u]
         /\ req[t].pc = "new" /\ req'[t].answer = req[t].answer
         /\ req'[t].pc \in {"create", "update", "coordinate"}
<1>1. PICK a \in Asks :
        req' = [req EXCEPT ![t].ask = a, ![t].pc = Entry(a.kind)]
  BY DEF Receive
<1>2. /\ a.kind \in Kinds
      /\ Entry(a.kind) = "create" => a.kind = "create"
      /\ Entry(a.kind) = "update" => a.kind \in {"update", "upsert"}
      /\ Entry(a.kind) \in {"create", "update", "coordinate"}
  BY AskKind DEF Entry, Kinds
<1>3. /\ req'[t].pc = Entry(a.kind) /\ req'[t].ask = a
      /\ req'[t].answer = req[t].answer
      /\ \A u \in Requests \ {t} : req'[u] = req[u]
  <2> DEFINE p == Entry(a.kind)
  <2>1. req' = [req EXCEPT ![t].ask = a, ![t].pc = p]
    BY <1>1
  <2> HIDE DEF p
  <2>2. req'[t].pc = p /\ req'[t].ask = a /\ req'[t].answer = req[t].answer
        /\ \A u \in Requests \ {t} : req'[u] = req[u]
    BY <2>1 DEF Inv, TypeInv, LocalOK, Local
  <2>3. QED
    BY <2>2 DEF p
<1>4. QED
  BY <1>2, <1>3 DEF Receive, At, Ask, Promise

LEMMA UpdateReadPromise ==
  ASSUME Inv, Promises, NEW t \in Requests, UpdateRead(t)
  PROVE  Promise(t)'
<1> DEFINE s == Ask(t).sub
           n == First(s)
<1>1. Ask(t) \in Asks /\ Ask(t).kind \in {"update", "upsert"}
  BY DEF UpdateRead, Enter, Promises, Promise, At
<1>2. CASE Matches(s) # {}
  <2>1. n \in Nat \ {0} /\ ops[n] \in Rows
    BY <1>2, FirstMatch DEF Inv, TypeInv
  <2>2. Hold(t, n, ops[n], Edited(ops[n], Ask(t)))
    BY <1>2 DEF UpdateRead
  <2>3. /\ req'[t].pc = "write" /\ req'[t].ask = Ask(t)
        /\ req'[t].was = ops[n] /\ req'[t].row = Edited(ops[n], Ask(t))
        /\ req'[t].number = n
    BY <2>2, HoldShape DEF Ask
  <2>4. Base(t)' = Record(ops[n])
    BY <2>1, <2>3 DEF Base, Record
  <2> HIDE DEF n
  <2>5. QED
    BY <1>1, <2>1, <2>3, <2>4, EditedRecord DEF Promise, At, Ask, Record
<1>3. CASE Matches(s) = {}
  <2>1. CASE Ask(t).kind = "update" /\ Answer(t, "not_found")
    BY <2>1, AnswerPromise DEF Answers
  <2>2. CASE Ask(t).kind = "upsert" /\ Go(t, "check")
    BY <1>1, <2>2, GoShape DEF Promise, At, Ask, Pcs
  <2>3. ~At(t, "updateAgain")
    BY <1>3 DEF Promises, Promise
  <2>4. QED
    BY <1>3, <2>1, <2>2, <2>3 DEF UpdateRead
<1>4. QED
  BY <1>2, <1>3

LEMMA CheckSubmissionPromise ==
  ASSUME Inv, Promises, NEW t \in Requests, CheckSubmission(t)
  PROVE  Promise(t)'
<1>1. Ask(t) \in Asks /\ Ask(t).kind = "upsert" /\ submitted' = submitted
  BY DEF CheckSubmission, Promises, Promise, At, sheets
<1>2. CASE Ask(t).sub \in submitted /\ Go(t, "create")
  BY <1>1, <1>2, GoShape DEF Promise, At, Ask, Pcs
<1>3. CASE Answer(t, "not_found")
  BY <1>3, AnswerPromise DEF Answers
<1>4. QED
  BY <1>2, <1>3 DEF CheckSubmission

LEMMA CreateReadPromise ==
  ASSUME Inv, Promises, NEW t \in Requests, CreateRead(t)
  PROVE  Promise(t)'
<1> DEFINE s == Ask(t).sub
<1>1. /\ Ask(t) \in Asks /\ UNCHANGED sheets
      /\ \/ Ask(t).kind = "create"
         \/ Ask(t).kind = "upsert" /\ s \in submitted
  BY DEF CreateRead, Enter, Promises, Promise, At
<1>2. CASE Matches(s) = {}
  <2>1. Hold(t, 0, BlankRow(s), FirstState(Ask(t)))
    BY <1>2 DEF CreateRead
  <2>2. /\ req'[t].pc = "write" /\ req'[t].ask = Ask(t)
        /\ req'[t].row = FirstState(Ask(t)) /\ req'[t].number = 0
    BY <2>1, HoldShape DEF Ask
  <2>3. Base(t)' = Desk!Fresh
    BY <2>2 DEF Base, Desk!Fresh
  <2>4. QED
    BY <1>1, <2>2, <2>3, FirstStateRecord DEF Promise, At, Ask, Record, sheets
<1>3. CASE Matches(s) # {}
  <2>1. CASE Ask(t).kind = "create" /\ Answer(t, "exists")
    BY <2>1, AnswerPromise DEF Answers
  <2>2. CASE Ask(t).kind = "upsert" /\ Go(t, "updateAgain")
    BY <1>1, <1>3, <2>2, GoShape DEF Promise, At, Ask, Pcs, Matches, sheets
  <2>3. QED
    BY <1>1, <1>3, <2>1, <2>2 DEF CreateRead
<1>4. QED
  BY <1>2, <1>3

LEMMA IntendPromise ==
  ASSUME Inv, NEW t \in Requests, NEW n \in Nat, NEW row \in Rows,
         Intend(t, n, row), Ask(t) \in Asks,
         Ask(t).kind \in {"preserve", "end"}, UNCHANGED sheets,
         n = 0 => /\ Record(row) = Desk!Fresh
                  /\ Ask(t).kind = "preserve" /\ Ask(t).sub \in submitted
  PROVE  Promise(t)'
<1> DEFINE new == [row EXCEPT !.coordination = Applied(@, Ask(t).kind)]
<1>1. CASE Ask(t).kind = "end" /\ row.coordination.state = "unassessed"
  BY <1>1, AnswerPromise DEF Intend, Answers
<1>2. CASE ~(Ask(t).kind = "end" /\ row.coordination.state = "unassessed")
  <2>1. Hold(t, n, row, new)
    BY <1>2 DEF Intend
  <2>2. /\ new.status = row.status /\ new.notes = row.notes
        /\ new.coordination = Applied(row.coordination, Ask(t).kind)
    BY DEF Rows
  <2>3. Applied(row.coordination, Ask(t).kind).state =
          IF Ask(t).kind = "preserve" THEN "active" ELSE "ended"
    BY DEF Applied, Rows, Coordinations
  <2> HIDE DEF new
  <2>4. /\ req'[t].pc = "write" /\ req'[t].ask = Ask(t)
        /\ req'[t].was = row /\ req'[t].row = new /\ req'[t].number = n
    BY <2>1, HoldShape DEF Ask
  <2>5. Base(t)' = Record(row)
    BY <2>4 DEF Base, Record, Desk!Fresh
  <2>6. Ask(t).status = Omit /\ Ask(t).notes = Omit
    BY AskKind
  <2>7. /\ Record(new).status = Desk!Overlay(Record(row).status, Ask(t).status)
        /\ Record(new).notes = Desk!Overlay(Record(row).notes, Ask(t).notes)
        /\ Record(new).purpose =
              IF Ask(t).kind = "preserve" THEN "active" ELSE "ended"
    BY <2>2, <2>3, <2>6 DEF Record, Desk!Overlay
  <2>8. Ask(t).kind = "end" => Record(row).purpose # "unassessed"
    BY <1>2 DEF Record
  <2>9. Record(req[t].row)' = Record(new)
    BY <2>4 DEF Record
  <2>10. QED
    BY <2>4, <2>5, <2>7, <2>8, <2>9 DEF Promise, At, Ask, Desk!Overlay, sheets
<1>3. QED
  BY <1>1, <1>2

LEMMA CoordinateReadPromise ==
  ASSUME Inv, Promises, NEW t \in Requests, CoordinateRead(t)
  PROVE  Promise(t)'
<1> DEFINE s == Ask(t).sub
<1>1. /\ Ask(t) \in Asks /\ Ask(t).kind \in {"preserve", "end"}
      /\ UNCHANGED sheets
  BY DEF CoordinateRead, Enter, Promises, Promise, At, Ask, Inv, TypeInv, LocalOK
<1>2. CASE Cardinality(Matches(s)) = 1 /\ Intend(t, First(s), ops[First(s)])
  <2>1. Matches(s) # {}
    BY <1>2, FS_EmptySet
  <2>2. First(s) \in Nat \ {0} /\ ops[First(s)] \in Rows
    BY <2>1, FirstMatch DEF Inv, TypeInv
  <2>3. QED
    BY <1>1, <1>2, <2>2, IntendPromise
<1>3. CASE Answer(t, "conflict")
  BY <1>3, AnswerPromise DEF Answers
<1>4. CASE Ask(t).kind = "preserve" /\ Go(t, "root")
  BY <1>1, <1>4, GoShape DEF Promise, At, Ask, Pcs
<1>5. QED
  BY <1>2, <1>3, <1>4 DEF CoordinateRead

LEMMA CoordinateRootPromise ==
  ASSUME Inv, Promises, NEW t \in Requests, CoordinateRoot(t)
  PROVE  Promise(t)'
<1> DEFINE s == Ask(t).sub
           first == [BlankRow(s) EXCEPT !.status = New]
<1>1. Ask(t) \in Asks /\ Ask(t).kind = "preserve" /\ UNCHANGED sheets
  BY DEF CoordinateRoot, Promises, Promise, At
<1>2. CASE s \in submitted /\ Intend(t, 0, first)
  <2>1. first \in Rows /\ Record(first) = Desk!Fresh
    BY <1>1, AskType, BlankRowType
       DEF Record, Desk!Fresh, BlankRow, Unassessed
  <2>2. QED
    BY <1>1, <1>2, <2>1, IntendPromise
<1>3. CASE Answer(t, "conflict")
  BY <1>3, AnswerPromise DEF Answers
<1>4. QED
  BY <1>2, <1>3 DEF CoordinateRoot

LEMMA LatePromise ==
  ASSUME Inv, Promises, NEW t \in Requests,
         Write(t) \/ WriteFails(t) \/ Log(t) \/ ReadFails(t)
  PROVE  Promise(t)'
<1>1. CASE \E a \in {"ok", "error"} : Answer(t, a)
  BY <1>1, AnswerPromise DEF Answers
<1>2. CASE At(t, "write") /\ Go(t, "log")
  BY <1>2, GoShape DEF Promises, Promise, At, Ask, Pcs
<1>3. QED
  BY <1>1, <1>2 DEF Write, WriteFails, Log, ReadFails

\* A step of t leaves the other requests' memories alone.
LEMMA StepShape ==
  ASSUME Inv, Promises, NEW t \in Requests, Step(t)
  PROVE  Promise(t)' /\ \A u \in Requests \ {t} : req'[u] = req[u]
<1>1. Promise(t)'
  BY UpdateReadPromise, CheckSubmissionPromise, CreateReadPromise,
     CoordinateReadPromise, CoordinateRootPromise, LatePromise DEF Step
<1>2. req \in [Requests -> Local]
  BY DEF Inv, TypeInv, LocalOK
<1>3. QED
  BY <1>1, <1>2 DEF Step, UpdateRead, CheckSubmission, CreateRead, CoordinateRead,
     CoordinateRoot, Intend, Write, WriteFails, Log, ReadFails, Go, Answer, Hold

LEMMA NextPromises ==
  ASSUME Inv, Promises, [Next]_vars
  PROVE  Promises'
<1>1. CASE UNCHANGED req
  BY <1>1, OthersPromise DEF Promises
<1>2. ASSUME NEW t \in Requests, Receive(t) \/ Step(t) PROVE Promises'
  <2>1. Promise(t)' /\ \A u \in Requests \ {t} : req'[u] = req[u]
    BY <1>2, ReceivePromise, StepShape
  <2>2. \A u \in Requests \ {t} : Promise(u)'
    BY <2>1, OthersPromise
  <2>3. QED
    BY <2>1, <2>2 DEF Promises
<1>3. CASE Crash
  <2>1. \A u \in Requests : \/ req'[u] = req[u] \/ req'[u].pc = "done"
    BY <1>3, IdleType DEF Crash, Inv, TypeInv, TypeOK, LocalOK, Answers
  <2>2. \A u \in Requests : Promise(u)'
    BY <2>1, OthersPromise DEF Promise, At
  <2>3. QED
    BY <2>2 DEF Promises
<1>4. QED
  BY <1>1, <1>2, <1>3 DEF Next, Submit, Tick, vars

LEMMA FirstUnique ==
  ASSUME Inv, NEW s, NEW i \in Matches(s)
  PROVE  First(s) = i
<1>1. First(s) \in Matches(s)
  BY FirstMatch DEF Inv, TypeInv, Matches
<1>2. QED
  BY <1>1 DEF Inv, OneOpsRow, Matches

-----------------------------------------------------------------------------
(* What a request holds between its read, its write and its events *)

\* The values a field has before anyone wrote it.
Unset == {New, Blank, "unassessed"}

\* The row to write differs from the row read only in what the request is for,
\* and its purpose is the next step of the purpose read.
Memory(t) ==
    /\ req[t].pc # "done" => req[t].answer = "none"
    /\ req[t].pc \in {"write", "log"} =>
          IF Ask(t).kind \in {"preserve", "end"}
          THEN req[t].row.status = req[t].was.status /\ req[t].row.notes = req[t].was.notes
          ELSE req[t].row.coordination = req[t].was.coordination
    /\ At(t, "write") =>
          /\ LifecycleStep(req[t].was.coordination, req[t].row.coordination)
          /\ req[t].number = 0 => \A f \in Fields : Cell(req[t].was, f) \in Unset

Memories == \A t \in Requests : Memory(t)

LEMMA AppliedStep ==
  ASSUME now \in Time, NEW c \in Coordinations, Past(c),
         NEW kind \in {"preserve", "end"}, kind = "end" => c.state # "unassessed"
  PROVE  LifecycleStep(c, Applied(c, kind))
<1>1. /\ c.started \in Nat /\ c.ended \in Nat /\ now \in Nat
      /\ c = [state |-> c.state, started |-> c.started, ended |-> c.ended]
      /\ c.state \in {"unassessed", "active", "ended"}
      /\ c.state # "ended" => c.ended = 0
  BY DEF Coordinations, Time
<1>2. CASE kind = "preserve"
  <2> DEFINE start == IF c.state = "active" THEN c.started ELSE now
             new == [state |-> "active", ended |-> 0, started |-> start]
  <2>1. Applied(c, kind) = new
    BY <1>2 DEF Applied
  <2>2. new.state = "active" /\ new.ended = 0 /\ new.started = start
    OBVIOUS
  <2>3. c.state = "active" => new = c
    BY <1>1
  <2>4. QED
    BY <1>1, <2>1, <2>2, <2>3 DEF LifecycleStep, Past
<1>3. CASE kind = "end"
  <2> DEFINE stamp == IF c.state = "ended" THEN c.ended ELSE now
             new == [state |-> "ended", started |-> c.started, ended |-> stamp]
  <2>1. Applied(c, kind) = new
    BY <1>1, <1>3 DEF Applied, Coordinations
  <2>2. new.state = "ended" /\ new.started = c.started /\ new.ended = stamp
    OBVIOUS
  <2>3. c.state = "ended" => new = c
    BY <1>1
  <2>4. QED
    BY <1>1, <1>3, <2>1, <2>2, <2>3 DEF LifecycleStep
<1>4. QED
  BY <1>2, <1>3

LEMMA SameStep ==
  ASSUME NEW c  PROVE LifecycleStep(c, c)
  BY DEF LifecycleStep

\* A row computed under the lock.
LEMMA HoldMemory ==
  ASSUME Inv, Memories, NEW t \in Requests, req[t].pc # "done",
         NEW n \in Nat, NEW old, NEW new, Hold(t, n, old, new),
         LifecycleStep(old.coordination, new.coordination),
         IF Ask(t).kind \in {"preserve", "end"}
         THEN new.status = old.status /\ new.notes = old.notes
         ELSE new.coordination = old.coordination,
         n = 0 => /\ old.status \in {New, Blank} /\ old.notes = Blank
                  /\ old.coordination = Unassessed
  PROVE  Memory(t)'
<1>1. n = 0 => \A f \in Fields : Cell(old, f) \in Unset
  BY DEF Cell, Fields, Unset, Unassessed
<1>2. QED
  BY <1>1, HoldShape DEF Memories, Memory, At, Ask, Cell

LEMMA AnswerMemory ==
  ASSUME Inv, NEW t \in Requests, NEW a \in Answers, Answer(t, a)
  PROVE  Memory(t)'
<1>1. req'[t] = Done(a) /\ Done(a).pc = "done"
  BY IdleType DEF Answer, Inv, TypeInv, TypeOK, LocalOK
<1>2. QED
  BY <1>1 DEF Memory, At

LEMMA GoMemory ==
  ASSUME Inv, Memories, NEW t \in Requests, NEW p \in Pcs, Go(t, p),
         req[t].pc # "done", p = "log" => At(t, "write"), p # "write"
  PROVE  Memory(t)'
  BY GoShape DEF Memories, Memory, At, Ask, Pcs

LEMMA UpdateReadMemory ==
  ASSUME Inv, Promises, Memories, NEW t \in Requests, UpdateRead(t)
  PROVE  Memory(t)'
<1> DEFINE s == Ask(t).sub
           n == First(s)
<1>1. /\ Ask(t) \in Asks /\ Ask(t).kind \in {"update", "upsert"}
      /\ req[t].pc # "done"
  BY DEF UpdateRead, Enter, Promises, Promise, At
<1>2. CASE Matches(s) # {}
  <2>1. n \in Nat \ {0} /\ ops[n] \in Rows
    BY <1>2, FirstMatch DEF Inv, TypeInv
  <2>2. Hold(t, n, ops[n], Edited(ops[n], Ask(t)))
    BY <1>2 DEF UpdateRead
  <2>3. Edited(ops[n], Ask(t)).coordination = ops[n].coordination
    BY <1>1, <2>1, EditedType
  <2> HIDE DEF n
  <2>4. QED
    BY <1>1, <2>1, <2>2, <2>3, SameStep, HoldMemory
<1>3. CASE Matches(s) = {}
  <2>1. Answer(t, "not_found") \/ Answer(t, "stuck") \/ Go(t, "check")
    BY <1>3 DEF UpdateRead
  <2>2. QED
    BY <1>1, <2>1, AnswerMemory, GoMemory DEF Answers, Pcs
<1>4. QED
  BY <1>2, <1>3

LEMMA CreateReadMemory ==
  ASSUME Inv, Promises, Memories, NEW t \in Requests, CreateRead(t)
  PROVE  Memory(t)'
<1> DEFINE s == Ask(t).sub
           first == [BlankRow(s) EXCEPT !.status = New]
<1>1. /\ Ask(t) \in Asks /\ Ask(t).kind \in {"create", "upsert"}
      /\ req[t].pc # "done"
  BY DEF CreateRead, Enter, Promises, Promise, At
<1>2. CASE Matches(s) = {}
  <2>1. Hold(t, 0, BlankRow(s), FirstState(Ask(t)))
    BY <1>2 DEF CreateRead
  <2>2. /\ first \in Rows /\ BlankRow(s).status = Blank /\ BlankRow(s).notes = Blank
        /\ BlankRow(s).coordination = Unassessed
        /\ first.coordination = Unassessed
    BY <1>1, AskType, BlankRowType DEF BlankRow
  <2>3. FirstState(Ask(t)).coordination = Unassessed
    BY <1>1, <2>2, EditedType DEF FirstState
  <2> HIDE DEF first, s
  <2>4. QED
    BY <1>1, <2>1, <2>2, <2>3, SameStep, HoldMemory
<1>3. CASE Matches(s) # {}
  <2>1. Answer(t, "exists") \/ Go(t, "updateAgain")
    BY <1>3 DEF CreateRead
  <2>2. QED
    BY <1>1, <2>1, AnswerMemory, GoMemory DEF Answers, Pcs
<1>4. QED
  BY <1>2, <1>3

LEMMA IntendMemory ==
  ASSUME Inv, Memories, NEW t \in Requests, req[t].pc # "done",
         NEW n \in Nat, NEW row \in Rows, Past(row.coordination),
         Intend(t, n, row), Ask(t).kind \in {"preserve", "end"},
         n = 0 => /\ row.status \in {New, Blank} /\ row.notes = Blank
                  /\ row.coordination = Unassessed
  PROVE  Memory(t)'
<1> DEFINE c == row.coordination
           new == [row EXCEPT !.coordination = Applied(@, Ask(t).kind)]
<1>1. CASE Ask(t).kind = "end" /\ c.state = "unassessed"
  BY <1>1, AnswerMemory DEF Intend, Answers
<1>2. CASE ~(Ask(t).kind = "end" /\ c.state = "unassessed")
  <2>1. Hold(t, n, row, new)
    BY <1>2 DEF Intend
  <2>2. c \in Coordinations /\ now \in Time
    BY DEF Rows, Inv, TypeInv, TypeOK
  <2>3. LifecycleStep(c, Applied(c, Ask(t).kind))
    BY <1>2, <2>2, AppliedStep
  <2>4. /\ new.coordination = Applied(c, Ask(t).kind)
        /\ new.status = row.status /\ new.notes = row.notes
    BY DEF Rows
  <2> HIDE DEF new
  <2>5. QED
    BY <2>1, <2>3, <2>4, HoldMemory
<1>3. QED
  BY <1>1, <1>2

LEMMA CoordinateMemory ==
  ASSUME Inv, Promises, Memories, NEW t \in Requests,
         CoordinateRead(t) \/ CoordinateRoot(t)
  PROVE  Memory(t)'
<1> DEFINE s == Ask(t).sub
           first == [BlankRow(s) EXCEPT !.status = New]
<1>1. /\ Ask(t) \in Asks /\ Ask(t).kind \in {"preserve", "end"}
      /\ req[t].pc # "done" /\ now \in Time
  BY DEF CoordinateRead, CoordinateRoot, Enter, Promises, Promise, At, Ask,
         Inv, TypeInv, TypeOK, LocalOK
<1>2. CASE Cardinality(Matches(s)) = 1 /\ Intend(t, First(s), ops[First(s)])
  <2>1. Matches(s) # {}
    BY <1>2, FS_EmptySet
  <2>2. /\ First(s) \in Nat \ {0} /\ ops[First(s)] \in Rows
        /\ Past(ops[First(s)].coordination)
    BY <2>1, FirstMatch DEF Inv, TypeInv
  <2>3. QED
    BY <1>1, <1>2, <2>2, IntendMemory
<1>3. CASE Answer(t, "conflict")
  BY <1>3, AnswerMemory DEF Answers
<1>4. CASE Go(t, "root")
  BY <1>1, <1>4, GoMemory DEF Pcs
<1>5. CASE Intend(t, 0, first)
  <2>1. /\ first \in Rows /\ first.status = New /\ first.notes = Blank
        /\ first.coordination = Unassessed
    BY <1>1, AskType, BlankRowType DEF BlankRow
  <2>2. Past(Unassessed)
    BY <1>1 DEF Past, Unassessed, Time
  <2> HIDE DEF first
  <2>3. QED
    BY <1>1, <1>5, <2>1, <2>2, IntendMemory
<1>6. QED
  BY <1>2, <1>3, <1>4, <1>5 DEF CoordinateRead, CoordinateRoot

LEMMA ReceiveMemory ==
  ASSUME Inv, Memories, NEW t \in Requests, Receive(t)
  PROVE  Memory(t)'
  BY ReceivePromise DEF Memories, Memory, At

LEMMA LateMemory ==
  ASSUME Inv, Memories, NEW t \in Requests,
         \/ CheckSubmission(t) \/ Write(t) \/ WriteFails(t)
         \/ Log(t) \/ ReadFails(t)
  PROVE  Memory(t)'
<1>1. CASE \E a \in Answers : Answer(t, a)
  BY <1>1, AnswerMemory
<1>2. CASE At(t, "write") /\ Go(t, "log")
  BY <1>2, GoMemory DEF At, Pcs
<1>3. CASE At(t, "check") /\ Go(t, "create")
  BY <1>3, GoMemory DEF At, Pcs
<1>4. QED
  BY <1>1, <1>2, <1>3
     DEF CheckSubmission, Write, WriteFails, Log, ReadFails, Answers

LEMMA NextMemories ==
  ASSUME Inv, Promises, Memories, [Next]_vars
  PROVE  Memories'
<1>1. ASSUME NEW u \in Requests, req'[u] = req[u] PROVE Memory(u)'
  BY <1>1 DEF Memories, Memory, At, Ask, Cell
<1>2. CASE UNCHANGED req
  BY <1>1, <1>2 DEF Memories
<1>3. ASSUME NEW t \in Requests, Receive(t) \/ Step(t) PROVE Memories'
  <2>1. \A u \in Requests \ {t} : req'[u] = req[u]
    BY <1>3, ReceivePromise, StepShape
  <2>2. Memory(t)'
    BY <1>3, ReceiveMemory, UpdateReadMemory, CreateReadMemory,
       CoordinateMemory, LateMemory DEF Step
  <2>3. QED
    BY <1>1, <2>1, <2>2 DEF Memories
<1>4. CASE Crash
  <2>1. \A u \in Requests : req'[u] = req[u] \/ req'[u].pc = "done"
    BY <1>4, IdleType DEF Crash, Inv, TypeInv, TypeOK, LocalOK, Answers
  <2>2. \A u \in Requests : Memory(u)'
    BY <1>1, <2>1 DEF Memory, At
  <2>3. QED
    BY <2>2 DEF Memories
<1>5. QED
  BY <1>2, <1>3, <1>4 DEF Next, Submit, Tick, vars

LEMMA InitMemories == Init => Memories
  BY DEF Init, Memories, Memory, Idle, At

-----------------------------------------------------------------------------
(* The mapping *)

LEMMA RecordSame ==
  ASSUME UNCHANGED ops  PROVE recordBar' = recordBar
  BY DEF recordBar, Matches, First, Record

LEMMA CallStep ==
  ASSUME NEW t \in Requests, \A u \in Requests \ {t} : req'[u] = req[u]
  PROVE  /\ callBar' = [callBar EXCEPT ![t] = Shown(req'[t])]
         /\ callBar[t] = Shown(req[t])
  BY DEF callBar, Shown

\* The desk's record of a submission, seen from a request about to write it.
LEMMA WriteBase ==
  ASSUME Inv, Promises, NEW t \in Requests, At(t, "write")
  PROVE  /\ Desk!Current(Ask(t).sub) = Base(t)
         /\ recordBar[Ask(t).sub] # NoRecord <=> req[t].number # 0
<1> DEFINE s == Ask(t).sub
           n == req[t].number
<1>1. s \in Subs
  BY AskType DEF Ask, Inv, TypeInv, LocalOK, Local
<1>2. CASE n = 0
  <2>1. Matches(s) = {}
    BY <1>2 DEF Inv, CopiesFresh
  <2>2. recordBar[s] = NoRecord
    BY <1>1, <2>1 DEF recordBar
  <2>3. QED
    BY <1>2, <2>2 DEF Base, Desk!Current, Desk!Fresh
<1>3. CASE n # 0
  <2>1. n \in DOMAIN ops /\ ops[n] = req[t].was /\ ops[n].sub = s
    BY <1>3 DEF Inv, CopiesFresh
  <2>2. n \in Matches(s) /\ First(s) = n
    BY <2>1, FirstUnique DEF Matches
  <2>3. recordBar[s] = Record(req[t].was)
    BY <1>1, <2>1, <2>2 DEF recordBar
  <2>4. req[t].was \in Rows
    BY DEF Inv, TypeInv, LocalOK, Local
  <2>5. Record(req[t].was) # NoRecord
    BY <2>4 DEF Record, Rows, Coordinations
  <2>6. QED
    BY <1>3, <2>3, <2>5 DEF Base, Desk!Current, Desk!Fresh
<1>4. QED
  BY <1>2, <1>3

\* A write carries out exactly what its request asked for.
LEMMA WriteEffect ==
  ASSUME Inv, Promises, NEW t \in Requests, At(t, "write")
  PROVE  /\ Desk!Permitted(Ask(t))
         /\ Desk!Effect(Ask(t)) = Record(req[t].row)
<1>1. Promise(t) /\ Ask(t) \in Asks /\ Ask(t).kind \in Kinds
  BY AskKind DEF Promises, Promise, At
<1>2. Desk!Permitted(Ask(t))
  BY <1>1, WriteBase DEF Promise, Desk!Permitted, Kinds
<1>3. Desk!Effect(Ask(t)) = Record(req[t].row)
  BY <1>1, WriteBase DEF Promise, Desk!Effect, Record
<1>4. QED
  BY <1>2, <1>3

\* What a write does to the first rows: its own submission's is the row
\* computed, every other one is as it was.
LEMMA WriteRows ==
  ASSUME Inv, Inv', NEW t \in Requests, At(t, "write"), ops' = Written(t)
  PROVE  /\ \A s \in Subs : s = Ask(t).sub =>
               Matches(s)' # {} /\ ops'[First(s)'] = req[t].row
         /\ \A s \in Subs : s # Ask(t).sub =>
               /\ Matches(s)' = Matches(s) /\ First(s)' = First(s)
               /\ Matches(s) # {} => ops'[First(s)] = ops[First(s)]
<1> DEFINE row == req[t].row
           n == req[t].number
           at == IF n = 0 THEN Len(ops) + 1 ELSE n
<1>1. /\ ops \in Seq(Rows) /\ row \in Rows /\ n \in Nat
      /\ DOMAIN ops = 1..Len(ops) /\ Len(ops) \in Nat
      /\ row.sub = Ask(t).sub
      /\ n # 0 => n \in DOMAIN ops /\ ops[n].sub = Ask(t).sub
      /\ Ask(t).sub \in Subs
  BY AskType DEF Inv, TypeInv, SheetOK, LocalOK, Local, CopiesFresh, Ask
<1>2. /\ at \in DOMAIN ops' /\ ops'[at] = row
      /\ DOMAIN ops' = DOMAIN ops \cup {at}
      /\ \A i \in DOMAIN ops' : i # at => ops'[i] = ops[i]
      /\ at \in DOMAIN ops => ops[at].sub = row.sub
  <2>1. CASE n = 0
    <3>1. ops' = Append(ops, row)
      BY <2>1 DEF Written
    <3>2. QED
      BY <1>1, <2>1, <3>1
  <2>2. CASE n # 0
    <3>1. ops' = [ops EXCEPT ![n] = row]
      BY <2>2 DEF Written
    <3>2. QED
      BY <1>1, <2>2, <3>1
  <2>3. QED
    BY <2>1, <2>2
<1> HIDE DEF at, row, n
<1>3. ASSUME NEW s \in Subs, s = row.sub
      PROVE  Matches(s)' # {} /\ ops'[First(s)'] = row
  <2>1. at \in Matches(s)'
    BY <1>2, <1>3 DEF Matches
  <2>2. First(s)' = at
    <3>1. \A i \in Matches(s)' : i = at
      BY <2>1 DEF Inv, OneOpsRow, Matches
    <3>2. at \in Nat
      BY <1>1 DEF at, n
    <3>3. at \in Matches(s)' /\ \A k \in Matches(s)' : at <= k
      BY <2>1, <3>1, <3>2
    <3>4. First(s)' \in Matches(s)'
      BY <3>3 DEF First
    <3>5. QED
      BY <3>1, <3>4
  <2>3. QED
    BY <1>2, <2>1, <2>2
<1>4. ASSUME NEW s \in Subs, s # row.sub
      PROVE  /\ Matches(s)' = Matches(s) /\ First(s)' = First(s)
             /\ Matches(s) # {} => ops'[First(s)] = ops[First(s)]
  <2>1. Matches(s)' = Matches(s) /\ at \notin Matches(s)
    BY <1>2, <1>4 DEF Matches
  <2>2. First(s)' = First(s)
    BY <2>1 DEF First
  <2>3. Matches(s) # {} => First(s) \in Matches(s)
    BY FirstMatch DEF Inv, TypeInv, Matches
  <2>4. QED
    BY <1>2, <2>1, <2>2, <2>3 DEF Matches
<1>5. QED
  BY <1>1, <1>3, <1>4 DEF row

LEMMA WriteRecord ==
  ASSUME Inv, Inv', NEW t \in Requests, At(t, "write"), ops' = Written(t)
  PROVE  recordBar' = [recordBar EXCEPT ![Ask(t).sub] = Record(req[t].row)]
<1> DEFINE row == req[t].row
           s0 == Ask(t).sub
<1>1. s0 \in Subs
  BY AskType DEF Inv, TypeInv, LocalOK, Local, Ask
<1>2. \A s \in Subs :
        recordBar'[s] = IF s = s0 THEN Record(row) ELSE recordBar[s]
  BY WriteRows DEF recordBar, Record
<1>3. recordBar' = [s \in Subs |-> recordBar'[s]]
  BY DEF recordBar
<1>4. [recordBar EXCEPT ![s0] = Record(row)] =
        [s \in Subs |-> IF s = s0 THEN Record(row) ELSE recordBar[s]]
  BY DEF recordBar
<1>5. QED
  BY <1>1, <1>2, <1>3, <1>4

\* A row about to be overwritten is the first of its submission; a field that
\* is not among the changed ones keeps its value.
LEMMA WriteWas ==
  ASSUME Inv, NEW t \in Requests, At(t, "write"), Matches(Ask(t).sub) # {}
  PROVE  ops[First(Ask(t).sub)] = req[t].was
<1>1. /\ req[t].number \in DOMAIN ops /\ ops[req[t].number] = req[t].was
      /\ req[t].was.sub = Ask(t).sub
  BY DEF Inv, CopiesFresh
<1>2. req[t].number \in Matches(Ask(t).sub)
  BY <1>1 DEF Matches
<1>3. QED
  BY <1>1, <1>2, FirstUnique

LEMMA SameCells ==
  ASSUME Inv, Memories, NEW t \in Requests, req[t].pc \in {"write", "log"}
  PROVE  \A f \in Fields : f \notin Changed(t) =>
            Cell(req[t].row, f) = Cell(req[t].was, f)
<1>1. req[t].row \in Rows /\ req[t].was \in Rows
  BY DEF Inv, TypeInv, LocalOK, Local
<1>2. \A row \in Rows : row["status"] = row.status /\ row["notes"] = row.notes
  OBVIOUS
<1>3. QED
  BY <1>1, <1>2 DEF Memories, Memory, Changed, Cell, Fields

-----------------------------------------------------------------------------
(* The purpose of a submission, and its history *)

LEMMA NextSpan ==
  ASSUME Inv, Inv', Memories, [Next]_vars, NEW s \in Subs, Matches(s) # {}
  PROVE  /\ Matches(s)' # {}
         /\ LifecycleStep(ops[First(s)].coordination,
                          ops'[First(s)'].coordination)
<1>1. CASE ops' = ops
  <2>1. Matches(s)' = Matches(s) /\ First(s)' = First(s)
    BY <1>1 DEF Matches, First
  <2>2. QED
    BY <1>1, <2>1, SameStep
<1>2. ASSUME NEW t \in Requests, At(t, "write"), ops' = Written(t)
      PROVE  /\ Matches(s)' # {}
             /\ LifecycleStep(ops[First(s)].coordination,
                              ops'[First(s)'].coordination)
  <2>1. CASE s # Ask(t).sub
    <3>1. /\ Matches(s)' = Matches(s) /\ First(s)' = First(s)
          /\ ops'[First(s)] = ops[First(s)]
      BY <1>2, <2>1, WriteRows
    <3>2. QED
      BY <3>1, SameStep
  <2>2. CASE s = Ask(t).sub
    <3>1. Matches(s)' # {} /\ ops'[First(s)'] = req[t].row
      BY <1>2, <2>2, WriteRows
    <3>2. ops[First(s)] = req[t].was
      BY <1>2, <2>2, WriteWas
    <3>3. LifecycleStep(req[t].was.coordination, req[t].row.coordination)
      BY <1>2 DEF Memories, Memory
    <3>4. QED
      BY <3>1, <3>2, <3>3
  <2>3. QED
    BY <2>1, <2>2
<1>3. QED
  BY <1>1, <1>2 DEF Next, Step, Receive, UpdateRead, CheckSubmission, CreateRead,
     CoordinateRead, CoordinateRoot, Write, WriteFails, Log, ReadFails,
     Crash, Submit, Tick, vars, sheets

\* A log each of whose events starts from the value the one before it left.
Linked(log) == \A i \in DOMAIN log : i > 1 => log[i][1] = log[i - 1][2]

\* A log that ends in value v, or says nothing of a field no one has set.
Told(log, v) == IF log = <<>> THEN v \in Unset ELSE log[Len(log)][2] = v

NoneFailed == \A t \in Requests : req[t].answer \notin {"error", "lost"}

Logging(s) == \E t \in Requests : At(t, "log") /\ Ask(t).sub = s

ChainsLinked == \A s \in Subs : \A f \in Fields : Linked(events[s][f])

\* Outside the append of its events a submission's log tells its row.
RowsTold == \A s \in Subs : ~Logging(s) => \A f \in Fields :
    IF Matches(s) = {} THEN events[s][f] = <<>>
                       ELSE Told(events[s][f], Cell(ops[First(s)], f))

\* Between the write and the events the row is the new one, the log the old.
LogsTold == \A t \in Requests : At(t, "log") =>
    /\ Matches(Ask(t).sub) # {} /\ ops[First(Ask(t).sub)] = req[t].row
    /\ \A f \in Fields : Told(events[Ask(t).sub][f], Cell(req[t].was, f))

History == ChainsLinked /\ RowsTold /\ LogsTold

\* A linked log grows by an event that starts where it ended.
LEMMA LinkedAppend ==
  ASSUME NEW log \in Seq(Values \X Values), Linked(log), NEW v \in Values,
         NEW w \in Values, log = <<>> \/ Told(log, v)
  PROVE  Linked(Append(log, <<v, w>>)) /\ Told(Append(log, <<v, w>>), w)
<1> DEFINE e == <<v, w>>
           more == Append(log, e)
<1>1. e \in Values \X Values /\ e[1] = v /\ e[2] = w
  OBVIOUS
<1> HIDE DEF e
<1>2. /\ more \in Seq(Values \X Values) /\ Len(more) = Len(log) + 1
      /\ more[Len(log) + 1] = e /\ Len(log) \in Nat
      /\ \A i \in 1..Len(log) : more[i] = log[i]
      /\ DOMAIN more = 1..(Len(log) + 1) /\ DOMAIN log = 1..Len(log)
  BY <1>1
<1>3. log # <<>> => Len(log) \in 1..Len(log) /\ log[Len(log)][2] = v
  BY DEF Told
<1>4. log = <<>> => Len(log) = 0
  OBVIOUS
<1> HIDE DEF more
<1>5. ASSUME NEW i \in DOMAIN more, i > 1 PROVE more[i][1] = more[i - 1][2]
  <2>1. CASE i \in 1..Len(log)
    BY <1>2, <1>5, <2>1 DEF Linked
  <2>2. CASE i = Len(log) + 1
    <3>1. log # <<>>
      BY <1>4, <1>5, <2>2
    <3>2. i - 1 = Len(log) /\ more[i - 1] = log[Len(log)]
      BY <1>2, <1>3, <2>2, <3>1
    <3>3. QED
      BY <1>1, <1>2, <1>3, <2>2, <3>1, <3>2
  <2>3. QED
    BY <1>2, <2>1, <2>2
<1>6. more # <<>> /\ more[Len(more)][2] = w
  BY <1>1, <1>2
<1>7. QED
  BY <1>5, <1>6 DEF Linked, Told, more, e

LEMMA CellType ==
  ASSUME NEW row \in Rows, NEW f \in Fields
  PROVE  Cell(row, f) \in Values
  BY DEF Cell, Fields, Rows, Values, Coordinations

\* A step that writes neither sheet and does not end an append.
LEMMA QuietHistory ==
  ASSUME History, ops' = ops, events' = events,
         \A u \in Requests : \/ req'[u] = req[u]
                             \/ ~At(u, "log") /\ req'[u].pc # "log"
  PROVE  History'
<1>1. \A s \in Subs : Matches(s)' = Matches(s) /\ First(s)' = First(s)
  BY DEF Matches, First
<1>2. \A s \in Subs : Logging(s)' <=> Logging(s)
  BY DEF Logging, At, Ask
<1>3. ChainsLinked'
  BY DEF History, ChainsLinked
<1>4. RowsTold'
  BY <1>1, <1>2 DEF History, RowsTold
<1>5. LogsTold'
  BY DEF History, LogsTold, At, Ask, Matches, First
<1>6. QED
  BY <1>3, <1>4, <1>5 DEF History

LEMMA WriteHistory ==
  ASSUME Inv, Inv', Memories, History, NEW t \in Requests, Write(t)
  PROVE  History'
<1> DEFINE s0 == Ask(t).sub
           row == req[t].row
           was == req[t].was
<1>1. /\ At(t, "write") /\ ops' = Written(t) /\ events' = events
      /\ s0 \in Subs /\ row \in Rows /\ was \in Rows
      /\ events \in [Subs -> [Fields -> Seq(Values \X Values)]]
  BY AskType DEF Write, Inv, TypeInv, TypeOK, LocalOK, Local, Ask
<1>2. /\ \A s \in Subs : s = s0 => Matches(s)' # {} /\ ops'[First(s)'] = row
      /\ \A s \in Subs : s # s0 =>
            /\ Matches(s)' = Matches(s) /\ First(s)' = First(s)
            /\ Matches(s) # {} => ops'[First(s)] = ops[First(s)]
  BY <1>1, WriteRows
<1>3. \A u \in Requests : ~At(u, "log")
  BY <1>1 DEF Inv, CopiesFresh, At
<1>4. ASSUME NEW f \in Fields PROVE Told(events[s0][f], Cell(was, f))
  <2>1. ~Logging(s0)
    BY <1>3 DEF Logging
  <2>2. CASE Matches(s0) = {}
    <3>1. events[s0][f] = <<>>
      BY <1>1, <2>1, <2>2 DEF History, RowsTold
    <3>2. req[t].number = 0
      BY <1>1, <2>2 DEF Inv, CopiesFresh, Matches
    <3>3. Cell(was, f) \in Unset
      BY <1>1, <3>2 DEF Memories, Memory
    <3>4. QED
      BY <3>1, <3>3 DEF Told
  <2>3. CASE Matches(s0) # {}
    <3>1. ops[First(s0)] = was
      BY <1>1, <2>3, WriteWas
    <3>2. QED
      BY <1>1, <2>1, <2>3, <3>1 DEF History, RowsTold
  <2>4. QED
    BY <2>2, <2>3
<1>5. \A u \in Requests \ {t} : req'[u] = req[u]
  BY DEF Write, Go, Answer, Inv, TypeInv, LocalOK
<1>6. ASSUME NEW s \in Subs, s # s0, NEW f \in Fields
      PROVE  IF Matches(s)' = {} THEN events'[s][f] = <<>>
             ELSE Told(events'[s][f], Cell(ops'[First(s)'], f))
  <2>1. ~Logging(s)
    BY <1>3 DEF Logging
  <2>2. QED
    BY <1>1, <1>2, <1>6, <2>1 DEF History, RowsTold
<1>7. ChainsLinked'
  BY <1>1 DEF History, ChainsLinked
<1>8. CASE Changed(t) = {}
  <2>1. Answer(t, "ok")
    BY <1>8 DEF Write
  <2>2. req'[t].pc = "done"
    BY <2>1, IdleType DEF Answer, Answers, Inv, TypeInv, TypeOK, LocalOK
  <2>3. \A u \in Requests : ~At(u, "log")'
    BY <1>3, <1>5, <2>2 DEF At
  <2>4. \A f \in Fields : Cell(row, f) = Cell(was, f)
    BY <1>1, <1>8, SameCells DEF At
  <2>5. RowsTold'
    <3>1. ASSUME NEW s \in Subs, s = s0, NEW f \in Fields
          PROVE  Matches(s)' # {} /\ Told(events'[s][f], Cell(ops'[First(s)'], f))
      <4>1. Matches(s)' # {} /\ ops'[First(s)'] = row
        BY <1>2, <3>1
      <4>2. Told(events'[s][f], Cell(row, f))
        BY <1>1, <1>4, <2>4, <3>1
      <4>3. QED
        BY <4>1, <4>2
    <3>2. \A s \in Subs : \A f \in Fields :
            IF Matches(s)' = {} THEN events'[s][f] = <<>>
            ELSE Told(events'[s][f], Cell(ops'[First(s)'], f))
      BY <1>6, <3>1
    <3>3. QED
      BY <3>2 DEF RowsTold
  <2>6. LogsTold'
    BY <2>3 DEF LogsTold
  <2>7. QED
    BY <1>7, <2>5, <2>6 DEF History
<1>9. CASE Changed(t) # {}
  <2>1. Go(t, "log")
    BY <1>9 DEF Write
  <2>2. /\ req'[t].pc = "log" /\ req'[t].ask = req[t].ask
        /\ req'[t].row = row /\ req'[t].was = was
    BY <2>1, GoShape DEF Pcs
  <2>3. \A s \in Subs : s = s0 => Logging(s)'
    BY <2>2 DEF Logging, At, Ask
  <2>4. RowsTold'
    BY <1>6, <2>3 DEF RowsTold
  <2>5. \A u \in Requests : At(u, "log")' => u = t
    BY <1>3, <1>5 DEF At
  <2>6. Ask(t)' = Ask(t)
    BY <2>2 DEF Ask
  <2>7. LogsTold'
    BY <1>1, <1>2, <1>4, <2>2, <2>5, <2>6 DEF LogsTold
  <2>8. QED
    BY <1>7, <2>4, <2>7 DEF History
<1>10. QED
  BY <1>8, <1>9

LEMMA LogHistory ==
  ASSUME Inv, Memories, History, NEW t \in Requests, Log(t), "log" \notin Faults
  PROVE  History'
<1> DEFINE s0 == Ask(t).sub
           row == req[t].row
           was == req[t].was
           longer == [f \in Fields |->
             IF f \in Changed(t)
             THEN Append(events[s0][f], <<Cell(was, f), Cell(row, f)>>)
             ELSE events[s0][f]]
<1>1. /\ At(t, "log") /\ ops' = ops
      /\ s0 \in Subs /\ row \in Rows /\ was \in Rows
      /\ events \in [Subs -> [Fields -> Seq(Values \X Values)]]
  BY AskType DEF Log, Inv, TypeInv, TypeOK, LocalOK, Local, Ask
<1>2. events' = [events EXCEPT ![s0] = longer]
  BY <1>1 DEF Log
<1>3. /\ Matches(s0) # {} /\ ops[First(s0)] = row
      /\ \A f \in Fields : Told(events[s0][f], Cell(was, f))
  BY <1>1 DEF History, LogsTold
<1>4. ASSUME NEW f \in Fields
      PROVE  Linked(longer[f]) /\ Told(longer[f], Cell(row, f))
  <2>1. /\ Linked(events[s0][f]) /\ events[s0][f] \in Seq(Values \X Values)
        /\ Cell(was, f) \in Values /\ Cell(row, f) \in Values
    BY <1>1, CellType DEF History, ChainsLinked
  <2>2. CASE f \in Changed(t)
    <3>1. longer[f] = Append(events[s0][f], <<Cell(was, f), Cell(row, f)>>)
      BY <2>2
    <3>2. QED
      BY <1>3, <2>1, <3>1, LinkedAppend
  <2>3. CASE f \notin Changed(t)
    <3>1. longer[f] = events[s0][f]
      BY <2>3
    <3>2. Cell(row, f) = Cell(was, f)
      BY <1>1, <2>3, SameCells DEF At
    <3>3. QED
      BY <1>3, <2>1, <3>1, <3>2
  <2>4. QED
    BY <2>2, <2>3
<1> HIDE DEF longer
<1>5. \A s \in Subs : events'[s] = IF s = s0 THEN longer ELSE events[s]
  BY <1>1, <1>2
<1>6. /\ \A u \in Requests \ {t} : req'[u] = req[u]
      /\ req'[t].pc = "done"
  BY IdleType DEF Log, Answer, Answers, Inv, TypeInv, TypeOK, LocalOK
<1>7. \A u \in Requests \ {t} : ~At(u, "log")
  BY <1>1 DEF Inv, CopiesFresh, At
<1>8. \A s \in Subs : Matches(s)' = Matches(s) /\ First(s)' = First(s)
  BY <1>1 DEF Matches, First
<1>9. ChainsLinked'
  BY <1>4, <1>5 DEF History, ChainsLinked
<1>10. RowsTold'
  <2>1. \A s \in Subs : s # s0 => ~Logging(s)
    BY <1>7 DEF Logging
  <2>2. QED
    BY <1>1, <1>3, <1>4, <1>5, <1>8, <2>1 DEF History, RowsTold
<1>11. LogsTold'
  BY <1>6, <1>7 DEF LogsTold, At
<1>12. QED
  BY <1>9, <1>10, <1>11 DEF History

LEMMA NextHistory ==
  ASSUME Inv, Inv', Promises, Memories, NoneFailed => History, [Next]_vars,
         "log" \notin Faults
  PROVE  NoneFailed' => History'
<1> SUFFICES ASSUME NoneFailed' PROVE History'
  OBVIOUS
<1>1. ASSUME NEW t \in Requests, Receive(t) \/ Step(t) PROVE History'
  <2>1. \A u \in Requests \ {t} : req'[u] = req[u]
    BY <1>1, ReceivePromise, StepShape
  <2>2. req[t].pc # "done"
    BY <1>1 DEF Receive, Step, UpdateRead, CheckSubmission, CreateRead,
       CoordinateRead, CoordinateRoot, Write, WriteFails, Log, ReadFails,
       Enter, At
  <2>3. req[t].answer = "none"
    BY <2>2 DEF Memories, Memory
  <2>4. History
    BY <2>1, <2>3 DEF NoneFailed
  <2>5. ASSUME NEW a \in {"error"}, Answer(t, a) PROVE FALSE
    <3>1. req'[t] = Done(a) /\ Done(a).answer = a
      BY <2>5 DEF Answer, Done, Idle, Inv, TypeInv, LocalOK
    <3>2. QED
      BY <2>5, <3>1 DEF NoneFailed
  <2>6. CASE Write(t) \/ Log(t)
    BY <2>4, <2>6, WriteHistory, LogHistory
  <2>7. CASE ~(Write(t) \/ Log(t))
    <3>1. /\ ops' = ops /\ events' = events
          /\ req[t].pc # "log" /\ req'[t].pc # "log"
      <4>1. CASE Receive(t)
        BY <4>1, ReceivePromise DEF Receive, sheets
      <4>2. CASE Step(t)
        <5>1. \/ UpdateRead(t) \/ CheckSubmission(t) \/ CreateRead(t)
              \/ CoordinateRead(t) \/ CoordinateRoot(t)
          BY <2>5, <2>7, <4>2 DEF Step, WriteFails, ReadFails
        <5>2. /\ ops' = ops /\ events' = events /\ req[t].pc # "log"
          BY <5>1 DEF UpdateRead, CheckSubmission, CreateRead,
             CoordinateRead, CoordinateRoot, Enter, At, sheets
        <5>3. \/ \E a \in Answers : Answer(t, a)
              \/ \E p \in Pcs \ {"log"} : Go(t, p)
              \/ \E n, old, new : Hold(t, n, old, new)
          BY <5>1 DEF UpdateRead, CheckSubmission, CreateRead, CoordinateRead,
             CoordinateRoot, Intend, Answers, Pcs
        <5>4. req'[t].pc # "log"
          <6>1. ASSUME NEW a \in Answers, Answer(t, a) PROVE req'[t].pc # "log"
            BY <6>1, IdleType DEF Answer, Inv, TypeInv, TypeOK, LocalOK
          <6>2. QED
            BY <5>3, <6>1, GoShape, HoldShape
        <5>5. QED
          BY <5>2, <5>4
      <4>3. QED
        BY <1>1, <4>1, <4>2
    <3>2. QED
      BY <2>1, <2>4, <3>1, QuietHistory DEF At
  <2>8. QED
    BY <2>6, <2>7
<1>2. ASSUME Crash PROVE FALSE
  <2>1. PICK t \in Requests : req[t].pc \notin {"new", "done"}
    BY <1>2 DEF Crash
  <2>2. req'[t] = Done("lost") /\ Done("lost").answer = "lost"
    BY <1>2, <2>1 DEF Crash, Done, Idle
  <2>3. QED
    BY <2>2 DEF NoneFailed
<1>3. CASE UNCHANGED <<ops, events, req>>
  BY <1>3, QuietHistory DEF NoneFailed
<1>4. QED
  BY <1>1, <1>2, <1>3 DEF Next, Submit, Tick, vars, sheets

LEMMA InitHistory == Init => History
  BY DEF Init, History, ChainsLinked, RowsTold, LogsTold, Linked, Matches, Idle, At

\* With the lock free no request is appending its events.
LEMMA HistoryReplay ==
  ASSUME Inv, NoneFailed => History
  PROVE  EventsReplay
<1> SUFFICES ASSUME History, NEW s \in Subs, NEW f \in Fields
             PROVE  LET log == events[s][f]
                        quiet == lock = NoReq
                    IN  /\ \A i \in DOMAIN log : i > 1 => log[i][1] = log[i - 1][2]
                        /\ quiet /\ log # <<>> /\ Matches(s) # {} =>
                              log[Len(log)][2] = Cell(ops[First(s)], f)
                        /\ quiet /\ log = <<>> /\ Matches(s) # {} =>
                              Cell(ops[First(s)], f) \in {New, Blank, "unassessed"}
  BY DEF EventsReplay, NoneFailed
<1>1. lock = NoReq => ~Logging(s)
  BY DEF Inv, CopiesFresh, Logging, At
<1>2. Linked(events[s][f])
  BY DEF History, ChainsLinked
<1>3. lock = NoReq /\ Matches(s) # {} => Told(events[s][f], Cell(ops[First(s)], f))
  BY <1>1 DEF History, RowsTold
<1>4. QED
  BY <1>2, <1>3 DEF Linked, Told, Unset

-----------------------------------------------------------------------------
(* Every step is a step of the desk, or invisible to it *)

\* Program points of a call the desk sees as open.
OpenPcs == {"update", "check", "create", "updateAgain", "coordinate", "root",
            "write"}

LEMMA ShownOpen ==
  ASSUME NEW r, r.pc \in OpenPcs
  PROVE  Shown(r) = [stage |-> "open", ask |-> r.ask, answer |-> r.answer]
  BY DEF Shown, OpenPcs

LEMMA ShownDone ==
  ASSUME now \in Time, NEW a \in Answers
  PROVE  Shown(Done(a)) = Desk!Closed(a)
<1>1. /\ Done(a).pc = "done" /\ Done(a).ask = NoAsk /\ Done(a).answer = a
  BY DEF Done, Idle
<1>2. QED
  BY <1>1 DEF Shown, Desk!Closed

\* Moving on inside an open call is invisible.
LEMMA Inside ==
  ASSUME Inv, NEW t \in Requests, req[t].pc \in OpenPcs,
         \A u \in Requests \ {t} : req'[u] = req[u],
         req'[t].pc \in OpenPcs, req'[t].ask = req[t].ask,
         req'[t].answer = req[t].answer, UNCHANGED <<submitted, ops>>
  PROVE  UNCHANGED Desk!deskVars
<1>1. Shown(req'[t]) = Shown(req[t])
  BY ShownOpen
<1>2. callBar' = [callBar EXCEPT ![t] = Shown(req[t])] /\ callBar[t] = Shown(req[t])
  BY <1>1, CallStep
<1>3. callBar' = callBar
  BY <1>2 DEF callBar
<1>4. QED
  BY <1>3, RecordSame DEF Desk!deskVars

LEMMA Answered ==
  ASSUME Inv, NEW t \in Requests, NEW a \in Answers, Answer(t, a)
  PROVE  Desk!Close(t, a)
<1>1. /\ \A u \in Requests \ {t} : req'[u] = req[u]
      /\ req'[t] = Done(a)
  BY DEF Answer, Inv, TypeInv, LocalOK
<1>2. callBar' = [callBar EXCEPT ![t] = Desk!Closed(a)]
  BY <1>1, CallStep, ShownDone DEF Inv, TypeInv, TypeOK
<1>3. QED
  BY <1>2 DEF Desk!Close

LEMMA Opened ==
  ASSUME Inv, NEW t \in Requests, req[t].pc \in OpenPcs
  PROVE  callBar[t].stage = "open" /\ callBar[t].ask = Ask(t)
  BY ShownOpen DEF callBar, Ask

\* An open call that is answered without a write: refused, or failed.
LEMMA RefuseStep ==
  ASSUME Inv, NEW t \in Requests, req[t].pc \in OpenPcs,
         NEW a \in {"exists", "not_found", "conflict"}, Answer(t, a),
         Desk!Refusal(Ask(t), a), UNCHANGED <<submitted, ops>>
  PROVE  Desk!Refuse(t)
<1>1. a \in Answers
  BY DEF Answers
<1>2. Desk!Close(t, a) /\ callBar[t].stage = "open" /\ callBar[t].ask = Ask(t)
  BY <1>1, Answered, Opened
<1>3. QED
  BY <1>2, RecordSame DEF Desk!Refuse

LEMMA FailStep ==
  ASSUME Inv, NEW t \in Requests, req[t].pc \in OpenPcs,
         Answer(t, "error"), UNCHANGED <<submitted, ops>>
  PROVE  Desk!Fail(t)
<1>1. Desk!Close(t, "error") /\ callBar[t].stage = "open"
  BY Answered, Opened DEF Answers
<1>2. QED
  BY <1>1, RecordSame DEF Desk!Fail

LEMMA NoRecordYet ==
  ASSUME Inv, NEW s \in Subs
  PROVE  /\ Matches(s) = {} <=> recordBar[s] = NoRecord
         /\ Matches(s) # {} => recordBar[s] = Record(ops[First(s)])
<1>1. ASSUME Matches(s) # {} PROVE Record(ops[First(s)]) # NoRecord
  <2>1. ops[First(s)] \in Rows
    BY <1>1, FirstMatch DEF Inv, TypeInv
  <2>2. QED
    BY <2>1 DEF Record, Rows, Coordinations
<1>2. QED
  BY <1>1 DEF recordBar

\* What a step of the workflow shows the desk.
DeskStep == Desk!DeskNext \/ UNCHANGED Desk!deskVars

LEMMA UpdateReadDesk ==
  ASSUME Inv, Promises, NEW t \in Requests, UpdateRead(t)
  PROVE  DeskStep
<1> DEFINE s == Ask(t).sub
<1>1. /\ Ask(t) \in Asks /\ s \in Subs /\ UNCHANGED <<submitted, ops>>
      /\ req[t].pc \in OpenPcs
  BY AskType DEF UpdateRead, Enter, Promises, Promise, At, OpenPcs, sheets
<1>2. CASE Matches(s) # {}
  <2>1. PICK n, old, new : Hold(t, n, old, new)
    BY <1>2 DEF UpdateRead
  <2>2. UNCHANGED Desk!deskVars
    BY <1>1, <2>1, HoldShape, Inside DEF OpenPcs
  <2>3. QED
    BY <2>2 DEF DeskStep
<1>3. CASE Matches(s) = {} /\ Ask(t).kind = "update" /\ Answer(t, "not_found")
  <2>1. Desk!Refusal(Ask(t), "not_found")
    BY <1>1, <1>3, NoRecordYet DEF Desk!Refusal
  <2>2. Desk!Refuse(t)
    BY <1>1, <1>3, <2>1, RefuseStep
  <2>3. QED
    BY <2>2 DEF DeskStep, Desk!DeskNext
<1>4. CASE Go(t, "check")
  BY <1>1, <1>4, GoShape, Inside DEF DeskStep, OpenPcs, Pcs
<1>5. At(t, "updateAgain") => Matches(s) # {}
  BY DEF Promises, Promise
<1>6. QED
  BY <1>2, <1>3, <1>4, <1>5 DEF UpdateRead

LEMMA CheckSubmissionDesk ==
  ASSUME Inv, Promises, NEW t \in Requests, CheckSubmission(t)
  PROVE  DeskStep
<1>1. /\ Ask(t).kind = "upsert" /\ UNCHANGED <<submitted, ops>>
      /\ req[t].pc \in OpenPcs
  BY DEF CheckSubmission, Promises, Promise, At, OpenPcs, sheets
<1>2. CASE Ask(t).sub \notin submitted /\ Answer(t, "not_found")
  <2>1. Desk!Refuse(t)
    BY <1>1, <1>2, RefuseStep DEF Desk!Refusal
  <2>2. QED
    BY <2>1 DEF DeskStep, Desk!DeskNext
<1>3. CASE Go(t, "create")
  BY <1>1, <1>3, GoShape, Inside DEF DeskStep, OpenPcs, Pcs
<1>4. QED
  BY <1>2, <1>3 DEF CheckSubmission

LEMMA CreateReadDesk ==
  ASSUME Inv, Promises, NEW t \in Requests, CreateRead(t)
  PROVE  DeskStep
<1> DEFINE s == Ask(t).sub
<1>1. /\ Ask(t) \in Asks /\ s \in Subs /\ UNCHANGED <<submitted, ops>>
      /\ req[t].pc \in OpenPcs
  BY AskType DEF CreateRead, Enter, Promises, Promise, At, OpenPcs, sheets
<1>2. CASE Matches(s) = {}
  <2>1. PICK n, old, new : Hold(t, n, old, new)
    BY <1>2 DEF CreateRead
  <2>2. QED
    BY <1>1, <2>1, HoldShape, Inside DEF OpenPcs, DeskStep
<1>3. CASE Matches(s) # {} /\ Ask(t).kind = "create" /\ Answer(t, "exists")
  <2>1. Desk!Refusal(Ask(t), "exists")
    BY <1>1, <1>3, NoRecordYet DEF Desk!Refusal
  <2>2. Desk!Refuse(t)
    BY <1>1, <1>3, <2>1, RefuseStep
  <2>3. QED
    BY <2>2 DEF DeskStep, Desk!DeskNext
<1>4. CASE Go(t, "updateAgain")
  BY <1>1, <1>4, GoShape, Inside DEF DeskStep, OpenPcs, Pcs
<1>5. QED
  BY <1>2, <1>3, <1>4 DEF CreateRead

\* An intent is refused only where the desk does not permit it.
LEMMA IntendDesk ==
  ASSUME Inv, NEW t \in Requests, NEW n, NEW row, Intend(t, n, row),
         req[t].pc \in OpenPcs, UNCHANGED <<submitted, ops>>,
         Desk!Current(Ask(t).sub).purpose = row.coordination.state
  PROVE  DeskStep
<1>1. CASE Ask(t).kind = "end" /\ row.coordination.state = "unassessed"
  <2>1. Answer(t, "conflict") /\ Desk!Refusal(Ask(t), "conflict")
    BY <1>1 DEF Intend, Desk!Refusal, Desk!Permitted
  <2>2. Desk!Refuse(t)
    BY <2>1, RefuseStep
  <2>3. QED
    BY <2>2 DEF DeskStep, Desk!DeskNext
<1>2. CASE ~(Ask(t).kind = "end" /\ row.coordination.state = "unassessed")
  <2>1. PICK new : Hold(t, n, row, new)
    BY <1>2 DEF Intend
  <2>2. QED
    BY <2>1, HoldShape, Inside DEF OpenPcs, DeskStep
<1>3. QED
  BY <1>1, <1>2

LEMMA CoordinateReadDesk ==
  ASSUME Inv, Promises, NEW t \in Requests, CoordinateRead(t)
  PROVE  DeskStep
<1> DEFINE s == Ask(t).sub
<1>1. /\ Ask(t) \in Asks /\ s \in Subs /\ UNCHANGED <<submitted, ops>>
      /\ req[t].pc \in OpenPcs
  BY AskType DEF CoordinateRead, Enter, Promises, Promise, At, OpenPcs, sheets
<1>2. CASE Cardinality(Matches(s)) = 1 /\ Intend(t, First(s), ops[First(s)])
  <2>1. Matches(s) # {}
    BY <1>2, FS_EmptySet
  <2>2. recordBar[s] = Record(ops[First(s)]) /\ recordBar[s] # NoRecord
    BY <1>1, <2>1, NoRecordYet
  <2>3. Desk!Current(s).purpose = ops[First(s)].coordination.state
    BY <2>2 DEF Desk!Current, Record
  <2>4. QED
    BY <1>1, <1>2, <2>3, IntendDesk
<1>3. ~(Cardinality(Matches(s)) > 1)
  <2>1. CASE Matches(s) = {}
    BY <2>1, FS_EmptySet
  <2>2. ASSUME NEW i \in Matches(s) PROVE Cardinality(Matches(s)) = 1
    <3>1. Matches(s) = {i}
      BY <2>2 DEF Inv, OneOpsRow, Matches
    <3>2. QED
      BY <3>1, FS_Singleton
  <2>3. QED
    BY <2>1, <2>2
<1>4. CASE /\ Matches(s) = {} /\ Ask(t).kind = "end"
           /\ Answer(t, "conflict")
  <2>1. Desk!Refusal(Ask(t), "conflict")
    BY <1>1, <1>4, NoRecordYet DEF Desk!Refusal, Desk!Permitted
  <2>2. Desk!Refuse(t)
    BY <1>1, <1>4, <2>1, RefuseStep
  <2>3. QED
    BY <2>2 DEF DeskStep, Desk!DeskNext
<1>5. CASE Go(t, "root")
  BY <1>1, <1>5, GoShape, Inside DEF DeskStep, OpenPcs, Pcs
<1>6. QED
  BY <1>2, <1>3, <1>4, <1>5 DEF CoordinateRead

LEMMA CoordinateRootDesk ==
  ASSUME Inv, Promises, NEW t \in Requests, CoordinateRoot(t)
  PROVE  DeskStep
<1> DEFINE s == Ask(t).sub
           first == [BlankRow(s) EXCEPT !.status = New]
<1>1. /\ Ask(t) \in Asks /\ s \in Subs /\ UNCHANGED <<submitted, ops>>
      /\ req[t].pc \in OpenPcs /\ Matches(s) = {} /\ Ask(t).kind = "preserve"
  BY AskType DEF CoordinateRoot, Promises, Promise, At, OpenPcs, sheets, Inv,
                 CopiesFresh
<1>2. recordBar[s] = NoRecord
  BY <1>1, NoRecordYet
<1>3. CASE Intend(t, 0, first)
  <2>1. Desk!Current(s).purpose = first.coordination.state
    BY <1>2 DEF Desk!Current, Desk!Fresh, BlankRow, Unassessed
  <2> HIDE DEF first
  <2>2. QED
    BY <1>1, <1>3, <2>1, IntendDesk
<1>4. CASE s \notin submitted /\ Answer(t, "conflict")
  <2>1. Desk!Refusal(Ask(t), "conflict")
    BY <1>1, <1>2, <1>4 DEF Desk!Refusal, Desk!Permitted
  <2>2. Desk!Refuse(t)
    BY <1>1, <1>4, <2>1, RefuseStep
  <2>3. QED
    BY <2>2 DEF DeskStep, Desk!DeskNext
<1>5. QED
  BY <1>3, <1>4 DEF CoordinateRoot

\* The write is the moment a call takes effect.
LEMMA WriteDesk ==
  ASSUME Inv, Inv', Promises, NEW t \in Requests, Write(t) \/ WriteFails(t)
  PROVE  DeskStep
<1>1. /\ At(t, "write") /\ req[t].pc \in OpenPcs /\ UNCHANGED submitted
      /\ {"ok", "error"} \subseteq Answers
  BY DEF Write, WriteFails, At, OpenPcs, Answers
<1>2. CASE ops' = Written(t)
  <2>1. /\ Desk!Permitted(Ask(t))
        /\ recordBar' = [recordBar EXCEPT ![Ask(t).sub] = Desk!Effect(Ask(t))]
    BY <1>1, <1>2, WriteEffect, WriteRecord
  <2>2. callBar[t].stage = "open" /\ callBar[t].ask = Ask(t)
    BY <1>1, Opened
  <2>3. ASSUME NEW a \in {"ok", "error"}, Answer(t, a) PROVE Desk!Close(t, a)
    BY <1>1, <2>3, Answered
  <2>4. ASSUME Go(t, "log")
        PROVE  callBar' = [callBar EXCEPT ![t].stage = "performed"]
    <3>1. /\ \A u \in Requests \ {t} : req'[u] = req[u]
          /\ req'[t].pc = "log" /\ req'[t].ask = req[t].ask
          /\ req'[t].answer = req[t].answer
      BY <2>4, GoShape DEF Pcs
    <3>2. Shown(req'[t]) = [Shown(req[t]) EXCEPT !.stage = "performed"]
      BY <1>1, <3>1 DEF Shown, At
    <3>3. QED
      BY <3>1, <3>2, CallStep
  <2>5. Desk!Perform(t)
    BY <1>1, <2>1, <2>2, <2>3, <2>4 DEF Write, WriteFails, Desk!Perform
  <2>6. QED
    BY <2>5 DEF DeskStep, Desk!DeskNext
<1>3. CASE ops' = ops /\ Answer(t, "error")
  <2>1. Desk!Fail(t)
    BY <1>1, <1>3, FailStep
  <2>2. QED
    BY <2>1 DEF DeskStep, Desk!DeskNext
<1>4. QED
  BY <1>2, <1>3 DEF Write, WriteFails

\* Appending the events, or failing to, acknowledges the call.
LEMMA LogDesk ==
  ASSUME Inv, NEW t \in Requests, Log(t)
  PROVE  DeskStep
<1>1. At(t, "log") /\ Answer(t, "ok") /\ UNCHANGED <<submitted, ops>>
  BY DEF Log
<1>2. callBar[t].stage = "performed"
  BY <1>1 DEF callBar, Shown, At
<1>3. Desk!Close(t, "ok")
  BY <1>1, Answered DEF Answers
<1>4. Desk!Acknowledge(t)
  BY <1>1, <1>2, <1>3, RecordSame DEF Desk!Acknowledge
<1>5. QED
  BY <1>4 DEF DeskStep, Desk!DeskNext

LEMMA ReadFailsDesk ==
  ASSUME Inv, NEW t \in Requests, ReadFails(t)
  PROVE  DeskStep
<1>1. /\ req[t].pc \in OpenPcs /\ Answer(t, "error")
      /\ UNCHANGED <<submitted, ops>>
  BY DEF ReadFails, Enter, At, OpenPcs, sheets
<1>2. Desk!Fail(t)
  BY <1>1, FailStep
<1>3. QED
  BY <1>2 DEF DeskStep, Desk!DeskNext

LEMMA ReceiveDesk ==
  ASSUME Inv, NEW t \in Requests, Receive(t)
  PROVE  DeskStep
<1> DEFINE a == req'[t].ask
<1>1. /\ UNCHANGED <<submitted, ops>> /\ req[t].pc = "new"
      /\ \A u \in Requests \ {t} : req'[u] = req[u]
      /\ req'[t].pc \in OpenPcs /\ req'[t].answer = req[t].answer
  BY ReceivePromise DEF Receive, OpenPcs, sheets
<1>2. Shown(req[t]) = [stage |-> "idle", ask |-> req[t].ask,
                       answer |-> req[t].answer]
  BY <1>1 DEF Shown
<1>3. Shown(req'[t]) = [stage |-> "open", ask |-> a, answer |-> req[t].answer]
  BY <1>1, ShownOpen
<1>4. /\ callBar' = [callBar EXCEPT ![t] = Shown(req'[t])]
      /\ callBar[t] = Shown(req[t]) /\ DOMAIN callBar = Requests
  BY <1>1, CallStep DEF callBar
<1>5. callBar[t].stage = "idle" /\ callBar'[t].ask = a
  BY <1>2, <1>3, <1>4
<1> HIDE DEF a
<1>6. callBar' = [callBar EXCEPT ![t].stage = "open", ![t].ask = a]
  <2> DEFINE old == Shown(req[t])
             new == Shown(req'[t])
             k   == req[t].ask
             ans == req[t].answer
  <2>1. new = [old EXCEPT !.stage = "open", !.ask = a]
    <3>1. /\ old = [stage |-> "idle", ask |-> k, answer |-> ans]
          /\ new = [stage |-> "open", ask |-> a, answer |-> ans]
      BY <1>2, <1>3
    <3> DEFINE mid == [old EXCEPT !.stage = "open"]
    <3>2. mid = [stage |-> "open", ask |-> k, answer |-> ans]
      <4> HIDE DEF old, new, k, ans
      <4>1. QED
        BY <3>1
    <3> HIDE DEF old, new, k, ans, mid
    <3>3. new = [mid EXCEPT !.ask = a]
      BY <3>1, <3>2
    <3>4. QED
      BY <3>3 DEF mid
  <2>2. QED
    BY <1>4, <2>1
<1>7. Desk!Invoke(t, callBar'[t].ask)
  BY <1>1, <1>5, <1>6, RecordSame DEF Desk!Invoke
<1>8. QED
  BY <1>7 DEF DeskStep, Desk!DeskNext

\* A crash loses the answers of the calls being served, and nothing else.
LEMMA CrashDesk ==
  ASSUME Inv, Crash
  PROVE  DeskStep
<1>1. UNCHANGED <<submitted, ops>>
  BY DEF Crash, sheets
<1>2. ASSUME NEW t \in Requests
      PROVE  Shown(req'[t]) =
               IF callBar[t].stage \in {"open", "performed"}
               THEN Desk!Closed("lost") ELSE callBar[t]
  <2>1. req[t].pc \in Pcs
    BY DEF Inv, TypeInv, LocalOK, Local, Pcs
  <2>2. callBar[t] = Shown(req[t])
    BY DEF callBar
  <2>3. CASE req[t].pc \in {"new", "done"}
    <3>1. req'[t] = req[t] /\ Shown(req[t]).stage \in {"idle", "closed"}
      BY <2>3 DEF Crash, Shown
    <3>2. QED
      BY <2>2, <3>1
  <2>4. CASE req[t].pc \notin {"new", "done"}
    <3>1. req'[t] = Done("lost")
      BY <2>4 DEF Crash
    <3>2. Shown(req[t]).stage \in {"open", "performed"}
      BY <2>1, <2>4 DEF Shown, Pcs
    <3>3. Shown(Done("lost")) = Desk!Closed("lost")
      BY ShownDone DEF Answers, Inv, TypeInv, TypeOK
    <3>4. QED
      BY <2>2, <3>1, <3>2, <3>3
  <2>5. QED
    BY <2>3, <2>4
<1>3. callBar' = [t \in Requests |-> Shown(req'[t])]
  BY DEF callBar, Shown
<1>4. callBar' = [t \in Requests |->
                    IF callBar[t].stage \in {"open", "performed"}
                    THEN Desk!Closed("lost") ELSE callBar[t]]
  BY <1>2, <1>3
<1>5. Desk!Die
  BY <1>1, <1>4, RecordSame DEF Desk!Die
<1>6. QED
  BY <1>5 DEF DeskStep, Desk!DeskNext

LEMMA InitDesk == Init => Desk!DeskInit
<1> SUFFICES ASSUME Init PROVE Desk!DeskInit
  OBVIOUS
<1>1. \A s \in Subs : Matches(s) = {}
  BY DEF Init, Matches
<1>2. recordBar = [s \in Subs |-> NoRecord]
  BY <1>1 DEF recordBar
<1>3. Idle.pc = "new" /\ Idle.answer = "none"
  BY DEF Idle
<1>4. \A t \in Requests : callBar[t].stage = "idle" /\ callBar[t].answer = "none"
  BY <1>3 DEF Init, callBar, Shown
<1>5. QED
  BY <1>2, <1>4 DEF Init, Desk!DeskInit

LEMMA NextDesk ==
  ASSUME Inv, Inv', Promises, [Next]_vars
  PROVE  [Desk!DeskNext]_(Desk!deskVars)
<1>1. ASSUME NEW t \in Requests, Step(t) PROVE DeskStep
  BY <1>1, UpdateReadDesk, CheckSubmissionDesk, CreateReadDesk,
     CoordinateReadDesk, CoordinateRootDesk, WriteDesk, LogDesk, ReadFailsDesk
     DEF Step
<1>2. ASSUME NEW t \in Requests, Receive(t) PROVE DeskStep
  BY <1>2, ReceiveDesk
<1>3. UNCHANGED <<ops, req>> => callBar' = callBar /\ recordBar' = recordBar
  BY RecordSame DEF callBar, Shown
<1>4. ASSUME NEW s \in Subs, Submit(s) PROVE DeskStep
  <2>1. Desk!Submit(s)
    BY <1>3, <1>4 DEF Submit, Desk!Submit
  <2>2. QED
    BY <2>1 DEF DeskStep, Desk!DeskNext
<1>5. ASSUME Tick \/ UNCHANGED vars PROVE DeskStep
  BY <1>3, <1>5 DEF Tick, vars, sheets, DeskStep, Desk!deskVars
<1>6. ASSUME Crash PROVE DeskStep
  BY <1>6, CrashDesk
<1>7. DeskStep
  BY <1>1, <1>2, <1>4, <1>5, <1>6 DEF Next
<1>8. QED
  BY <1>7 DEF DeskStep

\* The promises hold in every reachable state.
THEOREM PromisesAlways == Spec => []Promises
<1>1. Inv /\ Promises /\ [Next]_vars => Promises'
  BY NextPromises
<1>2. QED
  BY <1>1, InitPromises, InvAlways, PTL DEF Spec

\* Reviewer calls are atomic: with any number of requests, overlapping,
\* failing half-way or dying with the process, each takes effect at most once,
\* at one moment, on exactly the fields it names, is acknowledged only if it
\* did, and is refused only for a reason that holds; the upsert never gives up.
THEOREM ImplementsDeskAlways == Spec => ImplementsDesk
<1>1. Inv /\ Inv' /\ Promises /\ [Next]_vars => [Desk!DeskNext]_(Desk!deskVars)
  BY NextDesk
<1>2. QED
  BY <1>1, InitDesk, InvAlways, PromisesAlways, PTL
     DEF Spec, ImplementsDesk, Desk!DeskSpec

\* What requests hold in memory, in every reachable state.
LEMMA MemoriesAlways == Spec => []Memories
<1>1. Inv /\ Promises /\ Memories /\ [Next]_vars => Memories'
  BY NextMemories
<1>2. QED
  BY <1>1, InitMemories, InvAlways, PromisesAlways, PTL DEF Spec

\* Over every step of the system a submission's coordination lifecycle goes
\* forward: its row is never lost, an assessed purpose stays assessed, its
\* start is fixed while it runs, its end is stamped once and not before its
\* start, and a new purpose starts no earlier than the last one ended.
THEOREM PurposeGoesForward == Spec => PurposeSpan
<1> DEFINE Span == \A s \in Subs : Matches(s) # {} =>
             /\ Matches(s)' # {}
             /\ LifecycleStep(ops[First(s)].coordination,
                              ops'[First(s)'].coordination)
<1>1. Inv /\ Inv' /\ Memories /\ [Next]_vars => Span
  BY NextSpan
<1>2. PurposeSpan <=> [][Span]_vars
  BY DEF PurposeSpan
<1> HIDE DEF Span
<1>3. QED
  BY <1>1, <1>2, InvAlways, MemoriesAlways, PTL DEF Spec

\* Where the append of events does not fail, the ops_events rows of a field
\* retell its history: linked, and ending in the value the row has now,
\* whatever reviewers overlap.
THEOREM HistoryReplays == "log" \notin Faults => (Spec => []EventsReplay)
<1> SUFFICES ASSUME "log" \notin Faults PROVE Spec => []EventsReplay
  OBVIOUS
<1> DEFINE Story == NoneFailed => History
<1>1. Inv /\ Inv' /\ Promises /\ Memories /\ Story /\ [Next]_vars => Story'
  BY NextHistory
<1>2. Init => Story
  BY InitHistory
<1>3. Inv /\ Story => EventsReplay
  BY HistoryReplay
<1> HIDE DEF Story
<1>4. QED
  BY <1>1, <1>2, <1>3, InvAlways, PromisesAlways, MemoriesAlways, PTL DEF Spec
=============================================================================
