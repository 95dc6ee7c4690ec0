--------------------------- MODULE ParserWorkerMC ---------------------------
(* Instances of ParserWorker for TLC. *)
EXTENDS ParserWorker, TLC

RunSymmetry == Permutations(Runs)
AllSymmetry == Permutations(Runs) \cup Permutations(Workers)
=============================================================================
