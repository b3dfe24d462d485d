------------------------------- MODULE MCTasks -------------------------------
(***************************************************************************)
(* NotifyTask, for TLC.  A worker's task can call one directly and so can  *)
(* a web app's request: a third level would repeat the second.             *)
(***************************************************************************)
EXTENDS NotifyTask, TLC

CallsInWorkersAndWebs == [p \in Processes |-> IF p \in Workers THEN 2 ELSE 1]

Interchangeable == Permutations(Tasks)
=============================================================================
