--------------------------- MODULE MCRequestCache ---------------------------
(***************************************************************************)
(* Instances of RequestCache for TLC.  Its keys are those that calls of a  *)
(* get_user make, which reads, and of an update_user, which has its        *)
(* parameters in another order.                                            *)
(***************************************************************************)
EXTENDS RequestCache, CacheKeys, TLC

CONSTANTS c1, c2, c3

AllFaults == RedisExceptions
NoFaults == {}
PlainFaults == {OtherError}
Interchangeable == Permutations(Active)

(* Two users' ids and other ways to write the first.                       *)
Ids == "1a" :> "1a" @@ "1A" :> "1a" @@ "{1a}" :> "1a" @@ "2b" :> "2b"
FirstUser == {"1a", "1A", "{1a}"}

get_user ==
  [parameters |-> <<"self", "user_id", "fresh">>,
   default |-> [name \in {"self", "user_id", "fresh"} |->
                  IF name = "fresh" THEN "no" ELSE Empty]]

update_user ==
  [parameters |-> <<"self", "name", "user_id">>,
   default |-> [name \in {"self", "name", "user_id"} |-> Empty]]

key_format == <<"user_id">>

(* All ways to call a method with an id and other things.                  *)
Calls(method, ids) ==
  LET texts == ids \cup {"self", "no"}
      n == Len(method.parameters)
      Made(positional, kwargs) ==
        /\ Takes(method, positional, kwargs)
        /\ Bound(method, positional, kwargs)["user_id"] \in ids
        /\ Bound(method, positional, kwargs)["self"] = "self"
  IN {call \in (UNION {[1..m -> texts] : m \in 0..n})
                 \X (UNION {[names -> texts] : names \in SUBSET Names(method)}) :
        Made(call[1], call[2])}

KeysMade(method, ids) ==
  {_make_key(key_format, method, call[1], call[2]) : call \in Calls(method, ids)}

OneKey == {<<"1a">>}
TwoKeys == {<<"1a">>, <<"2b">>}
DeleteTheKey == {{k} : k \in OneKey}
KeyAndPattern == DeleteTheKey \cup {TwoKeys}

(* However it is written that it is about the first user, a call of either *)
(* method makes the first key.                                             *)
ASSUME CallsMakeTheKeys ==
  /\ KeysMade(get_user, FirstUser) = OneKey
  /\ KeysMade(update_user, FirstUser) = OneKey
  /\ KeysMade(get_user, DOMAIN UUIDs) = TwoKeys
=============================================================================
