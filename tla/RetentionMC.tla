---------------------------- MODULE RetentionMC ----------------------------
(* Instances of Retention for TLC. *)
EXTENDS Retention

CONSTANTS s1, s2

In(s, f) == [sub |-> s, file |-> f]
Ops(s, state, ended) == [sub |-> s, state |-> state, ended |-> ended]
Event(s, action) == [sub |-> s, action |-> action]

\* Rows of two submissions alternate or follow each other; s1 has a second job
\* and two results, s2 an active purpose or one that nobody has reviewed.
Alternating == {
    [submissions |-> <<In(s1, 1), In(s2, 2)>>,
     parser_jobs |-> <<In(s1, 1), In(s2, 2), In(s1, 3)>>,
     derived     |-> <<[sub |-> s1], [sub |-> s1], [sub |-> s2]>>,
     ops         |-> <<Ops(s1, "ended", 1), Ops(s2, state, 0)>>,
     ops_events  |-> <<Event(s1, "create"), Event(s2, "update"),
                       Event(s1, "coordination_intent")>>]
        : state \in {"active", "unassessed"}}

\* A submission whose resume nobody refers to and that no reviewer has opened,
\* and one whose coordination ended late.
Ragged == {
    [submissions |-> <<In(s1, lack), In(s2, 1)>>,
     parser_jobs |-> <<In(s2, 1)>>,
     derived     |-> <<[sub |-> s2]>>,
     ops         |-> <<Ops(s2, "ended", 2)>>,
     ops_events  |-> <<Event(s2, "create")>>]
        : lack \in {NoFile, Lost}}

Both == Alternating \cup Ragged
=============================================================================
