---------------------------- MODULE DashboardMC ----------------------------
(* Instances of Dashboard for TLC. *)
EXTENDS Dashboard, TLC

RunSymmetry == Permutations(Runs)

\* The parts of the model do not touch: the system runs next to one archive,
\* and the other archives are inspected as they stand.
Plain == [source |-> TRUE, resume |-> "missing", results |-> <<>>,
          errors |-> <<>>, job |-> NoRow, ops |-> <<>>]
Inspect == archive # Plain /\ UNCHANGED dashboardVars

MCNext == (archive = Plain /\ DashboardNext) \/ Inspect

MCSpec == DashboardInit /\ [][MCNext]_dashboardVars
=============================================================================
