---------------------------- MODULE EagerBucket ----------------------------
(***************************************************************************)
(* What a token bucket promises: a token drops in every TicksPerToken      *)
(* ticks from the first request on, the bucket overflows at BucketMax, and *)
(* a request takes a token, or falls into debt as far as BucketMin.  A     *)
(* request is served if it leaves tokens behind.                           *)
(***************************************************************************)
EXTENDS Integers

CONSTANTS TicksPerToken, BucketMax, BucketMin

VARIABLES
  started,   \* has there been a request?
  level,     \* tokens in the bucket
  phase,     \* ticks since the last token dropped in
  served     \* requests served

vars == <<started, level, phase, served>>

Init ==
  /\ started = FALSE
  /\ level = BucketMax
  /\ phase = 0
  /\ served = 0

Tick ==
  /\ started
  /\ IF phase + 1 = TicksPerToken
     THEN /\ phase' = 0
          /\ level' = IF level < BucketMax THEN level + 1 ELSE level
     ELSE /\ phase' = phase + 1
          /\ UNCHANGED level
  /\ UNCHANGED <<started, served>>

Request ==
  /\ started' = TRUE
  /\ level' = IF level > BucketMin THEN level - 1 ELSE BucketMin
  /\ served' = IF level' > 0 THEN served + 1 ELSE served
  /\ UNCHANGED phase

Reset ==
  /\ started' = FALSE
  /\ level' = BucketMax
  /\ phase' = 0
  /\ served' = 0

Next == Tick \/ Request \/ Reset

Spec == Init /\ [][Next]_vars
=============================================================================
