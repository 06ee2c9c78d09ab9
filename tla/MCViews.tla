------------------------------ MODULE MCViews -------------------------------
(***************************************************************************)
(* Two threads that share a physical and a virtual CPU, every view, and a  *)
(* sample of two hardware counters, one of them 0, with one of other size. *)
(***************************************************************************)
EXTENDS Views

\* MPI has the stacks of different values; elsewhere one value is enough to tell a
\* row that shows it from one that does not.
MCLabel == [v \in View |-> IF v = "mpi" THEN {1, 2} ELSE {1}]
MCMaxHeld == [v \in View |-> IF v \in {"mpi", "kernel", "mark"} THEN 2 ELSE 1]
\* An API call, a user task and an API call whose value is 0.
MCXtasksEvent == {<<5, 85>>, <<0, 80>>, <<0, 85>>}
MCSample == {<<0, 7>>, <<7>>}
MCNone == <<>>
=============================================================================
