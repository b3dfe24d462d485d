---------------------------- MODULE RedisClient ----------------------------
(***************************************************************************)
(* What notifications_utils/clients/redis/redis_client.py makes of a redis *)
(* command that ends in an exception.  The module has no state: the        *)
(* modules of the client's callers (RequestCache, TokenBucket,             *)
(* SlidingWindow) apply these operators to the state they keep.            *)
(***************************************************************************)

(* The exceptions the client tells apart.  "soft" and "hard" are raised in *)
(* a request whose deadline passed (eventlet.py), "timeout" is redis-py's  *)
(* own TimeoutError, "readonly" a command that reached a demoted primary,  *)
(* and "error" every other exception.                                      *)
SoftEventletTimeout == "soft"
HardEventletTimeout == "hard"
RedisTimeoutError == "timeout"
ReadOnlyError == "readonly"
OtherError == "error"

RedisExceptions == {SoftEventletTimeout, HardEventletTimeout,
                    RedisTimeoutError, ReadOnlyError, OtherError}

(* An answer that never came says nothing about whether the command ran;   *)
(* a READONLY answer says that it did not.                                 *)
MayHaveRun(e) == e # ReadOnlyError

always_raise == {HardEventletTimeout}
flakey_exceptions == {SoftEventletTimeout, RedisTimeoutError}

(* The last two decisions of __handle_exception: does it mark the app      *)
(* context as flakey, and does it let the exception out?                   *)
MarksFlakey(e) == e \in flakey_exceptions
LetsOut(e, raise_exception) == raise_exception \/ e \in always_raise
=============================================================================
