---------------------------- MODULE OpsWorkflowMC ----------------------------
(* Instances of OpsWorkflow for TLC. *)
EXTENDS OpsWorkflow, TLC

\* No constant names a particular request.
RequestSymmetry == Permutations(Requests)
=============================================================================
