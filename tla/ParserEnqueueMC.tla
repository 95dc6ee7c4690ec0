--------------------------- MODULE ParserEnqueueMC ---------------------------
(* Instances of ParserEnqueue for TLC. *)
EXTENDS ParserEnqueue, TLC

ProcessSymmetry == Permutations(Reconcilers)
=============================================================================
