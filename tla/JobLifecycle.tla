---------------------------- MODULE JobLifecycle ----------------------------
(***************************************************************************)
(* What the parser queue promises to its readers, without leases, copies   *)
(* of rows or failing calls: a job is attempted at most MaxAttempts times, *)
(* one attempt after the other, each under a run of its own; it succeeds   *)
(* with the run of its latest attempt or fails when its budget is spent,   *)
(* and neither outcome is ever revised.                                    *)
(***************************************************************************)
EXTENDS Naturals

CONSTANTS Jobs, Runs, NoRun, MaxAttempts

VARIABLES
    phase,    \* what the job is waiting for, or its outcome
    attempts, \* attempts started
    current,  \* run of the latest attempt
    chosen    \* run whose result readers are shown

vars == <<phase, attempts, current, chosen>>

Init ==
    /\ phase = [j \in Jobs |-> "waiting"]
    /\ attempts = [j \in Jobs |-> 0]
    /\ current = [j \in Jobs |-> NoRun]
    /\ chosen = [j \in Jobs |-> NoRun]

\* A waiting job is attempted, or an abandoned attempt is replaced.
Start(j, r) ==
    /\ phase[j] \in {"waiting", "attempting"}
    /\ attempts[j] < MaxAttempts
    /\ \A i \in Jobs : r # current[i] /\ r # chosen[i]
    /\ phase' = [phase EXCEPT ![j] = "attempting"]
    /\ attempts' = [attempts EXCEPT ![j] = @ + 1]
    /\ current' = [current EXCEPT ![j] = r]
    /\ UNCHANGED chosen

Retry(j) ==
    /\ phase[j] = "attempting"
    /\ attempts[j] < MaxAttempts
    /\ phase' = [phase EXCEPT ![j] = "waiting"]
    /\ UNCHANGED <<attempts, current, chosen>>

Fail(j) ==
    /\ phase[j] = "attempting"
    /\ attempts[j] = MaxAttempts
    /\ phase' = [phase EXCEPT ![j] = "failed"]
    /\ UNCHANGED <<attempts, current, chosen>>

Succeed(j) ==
    /\ phase[j] = "attempting"
    /\ phase' = [phase EXCEPT ![j] = "succeeded"]
    /\ chosen' = [chosen EXCEPT ![j] = current[j]]
    /\ UNCHANGED <<attempts, current>>

Next == \E j \in Jobs :
    \/ \E r \in Runs : Start(j, r)
    \/ Retry(j)
    \/ Fail(j)
    \/ Succeed(j)

Spec == Init /\ [][Next]_vars
=============================================================================
