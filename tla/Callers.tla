------------------------------- MODULE Callers -------------------------------
(***************************************************************************)
(* The threads and processes that share a rate limiter's redis key.  Each  *)
(* reads its own clock, which may be ahead of others', and redis runs its  *)
(* command some time later.                                                *)
(***************************************************************************)
EXTENDS Integers

CONSTANTS Callers,
          Skew,       \* by how much each one's clock is ahead
          MaxSkew,
          MaxDelay,   \* longest time from time() to redis' run of the command
          MaxClock,   \* bound: time that passes
          Idle

ASSUME CallersAssumption ==
  /\ MaxSkew \in Nat
  /\ Skew \in [Callers -> 0..MaxSkew]
  /\ MaxDelay \in Nat
  /\ MaxClock \in Nat
  /\ Idle \notin Nat

VARIABLES
  clock,  \* the time, as redis and the slowest clock show it
  asked   \* when each caller under way read its clock, or Idle
=============================================================================
