------------------------------ MODULE MCEventlet ------------------------------
(***************************************************************************)
(* The parts of an eventlet worker, for TLC.  They share its green threads *)
(* but no state, so in each behaviour only one of them moves: whatever     *)
(* they do side by side, each does here.                                   *)
(***************************************************************************)
EXTENDS ContextPool, GreenletAccounting, InterruptibleEvery, RequestLog, TLC

VARIABLE part  \* which of them moves

Parts == {"contexts", "accounts", "interruptions", "log"}

Init ==
  /\ part \in Parts
  /\ PoolInit
  /\ AccountsInit
  /\ EveryInit
  /\ LogInit /\ (part # "log" => level = INFO)

Next ==
  /\ UNCHANGED part
  /\ \/ part = "contexts" /\ PoolNext /\ UNCHANGED <<accounts_vars, every_vars, log_vars>>
     \/ part = "accounts" /\ AccountsNext /\ UNCHANGED <<pool_vars, every_vars, log_vars>>
     \/ part = "interruptions" /\ EveryNext /\ UNCHANGED <<pool_vars, accounts_vars, log_vars>>
     \/ part = "log" /\ LogNext /\ UNCHANGED <<pool_vars, accounts_vars, every_vars>>

Spec == Init /\ [][Next]_<<part, pool_vars, accounts_vars, every_vars, log_vars>>

Interchangeable == Permutations(Greenlets)
=============================================================================
