----------------------------- MODULE ReviewDesk -----------------------------
(***************************************************************************)
(* What reviewers are promised about a submission's review record: every   *)
(* call takes effect at most once and at one moment, changes only what it  *)
(* asked to change, is acknowledged only if it took effect, and is refused *)
(* only for a reason that holds when it is refused.                        *)
(***************************************************************************)
CONSTANTS Subs, Requests, New, Blank, Omit, NoRecord, NoAsk

VARIABLES
    submitted, \* submissions with an intake row
    record,    \* the review record of each submission, or NoRecord
    call       \* [stage, ask, answer] of each reviewer call

deskVars == <<submitted, record, call>>

Fresh == [status |-> New, notes |-> Blank, purpose |-> "unassessed"]

Current(s) == IF record[s] = NoRecord THEN Fresh ELSE record[s]

Overlay(old, asked) == IF asked = Omit THEN old ELSE asked

Effect(a) ==
    [status  |-> Overlay(Current(a.sub).status, a.status),
     notes   |-> Overlay(Current(a.sub).notes, a.notes),
     purpose |-> CASE a.kind = "preserve" -> "active"
                   [] a.kind = "end"      -> "ended"
                   [] OTHER               -> Current(a.sub).purpose]

Permitted(a) ==
    LET exists == record[a.sub] # NoRecord
    IN  CASE a.kind = "create" -> ~exists
          [] a.kind = "update" -> exists
          [] a.kind = "end"    -> exists /\ Current(a.sub).purpose # "unassessed"
          [] OTHER             -> exists \/ a.sub \in submitted

\* The answers that turn a call down, each with what it says.
Refusal(a, answer) ==
    \/ answer = "exists" /\ a.kind = "create" /\ record[a.sub] # NoRecord
    \/ answer = "not_found" /\ a.kind = "update" /\ record[a.sub] = NoRecord
    \/ answer = "not_found" /\ a.kind = "upsert" /\ a.sub \notin submitted
    \/ answer = "conflict" /\ a.kind \in {"preserve", "end"} /\ ~Permitted(a)

Closed(answer) == [stage |-> "closed", ask |-> NoAsk, answer |-> answer]
Close(t, answer) == call' = [call EXCEPT ![t] = Closed(answer)]

DeskInit ==
    /\ submitted \subseteq Subs
    /\ record = [s \in Subs |-> NoRecord]
    /\ \A t \in Requests : call[t].stage = "idle" /\ call[t].answer = "none"

Submit(s) == submitted' = submitted \cup {s} /\ UNCHANGED <<record, call>>

Invoke(t, a) ==
    /\ call[t].stage = "idle"
    /\ call' = [call EXCEPT ![t].stage = "open", ![t].ask = a]
    /\ UNCHANGED <<submitted, record>>

\* The one moment a call takes effect; its answer may get lost.
Perform(t) == LET a == call[t].ask IN
    /\ call[t].stage = "open" /\ Permitted(a)
    /\ record' = [record EXCEPT ![a.sub] = Effect(a)]
    /\ \/ call' = [call EXCEPT ![t].stage = "performed"]
       \/ Close(t, "ok") \/ Close(t, "error")
    /\ UNCHANGED submitted

Acknowledge(t) ==
    /\ call[t].stage = "performed" /\ Close(t, "ok")
    /\ UNCHANGED <<submitted, record>>

Refuse(t) ==
    /\ call[t].stage = "open"
    /\ \E answer \in {"exists", "not_found", "conflict"} :
          Refusal(call[t].ask, answer) /\ Close(t, answer)
    /\ UNCHANGED <<submitted, record>>

Fail(t) ==
    /\ call[t].stage = "open" /\ Close(t, "error")
    /\ UNCHANGED <<submitted, record>>

\* The service dies: the calls it was serving are never answered.
Die ==
    /\ call' = [t \in Requests |->
          IF call[t].stage \in {"open", "performed"}
          THEN Closed("lost")
          ELSE call[t]]
    /\ UNCHANGED <<submitted, record>>

DeskNext ==
    \/ \E s \in Subs : Submit(s)
    \/ \E t \in Requests : Perform(t) \/ Acknowledge(t) \/ Refuse(t) \/ Fail(t)
    \/ \E t \in Requests : Invoke(t, call'[t].ask)
    \/ Die

DeskSpec == DeskInit /\ [][DeskNext]_deskVars
=============================================================================
