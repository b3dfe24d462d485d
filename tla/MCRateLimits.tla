----------------------------- MODULE MCRateLimits -----------------------------
(***************************************************************************)
(* Both rate limiters, for TLC.  A request asks one or the other, so in    *)
(* each behaviour only one of them moves.                                  *)
(***************************************************************************)
EXTENDS TokenBucket, SlidingWindow, TLC

CONSTANTS c1, c2

OneAhead == (c1 :> 0) @@ (c2 :> 1)
OneOwed == -1

VARIABLE limiter  \* the one that moves

Init ==
  /\ limiter \in {"bucket", "window"}
  /\ BucketInit
  /\ WindowInit

Next ==
  /\ UNCHANGED limiter
  /\ \/ /\ limiter = "bucket"
        /\ BucketNext
        /\ UNCHANGED <<zset, key_expires, recorded, admitted>>
     \/ /\ limiter = "window"
        /\ WindowNext
        /\ UNCHANGED <<bucket, made, granted, served, newest>>

Spec == Init /\ [][Next]_<<limiter, bucket_vars, window_vars>>
=============================================================================
