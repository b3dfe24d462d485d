---------------------------- MODULE RequestCache ----------------------------
(***************************************************************************)
(* clients/redis/request_cache.py over clients/redis/redis_client.py: API  *)
(* client methods decorated with @cache.set read through redis, those      *)
(* decorated with @cache.delete or @cache.delete_by_pattern invalidate     *)
(* around the API call that updates the database.                          *)
(*                                                                         *)
(* An app context (one web request or one task) makes one decorated call   *)
(* after another; every step of a call that touches redis or the API is an *)
(* action, so the calls of different contexts interleave between them.     *)
(* A value is the version of the data it was made from.                    *)
(***************************************************************************)
EXTENDS Integers, RedisClient

CONSTANTS Contexts,    \* app contexts, alive at the same time
          Active,      \* those of apps with REDIS_ENABLED
          Keys,        \* redis keys
          Patterns,    \* what an updating call invalidates: {k} for
                       \* @delete, the matching keys for @delete_by_pattern
          Faults,      \* the exceptions a redis command may end in
          MaxVersion,  \* bound: updates of one key
          NoEntry

ASSUME ConstantsAssumption ==
  /\ Active \subseteq Contexts
  /\ Patterns \subseteq SUBSET Keys
  /\ Faults \subseteq RedisExceptions
  /\ MaxVersion \in Nat
  /\ NoEntry \notin [version : Nat, expires : BOOLEAN, late : BOOLEAN]

VARIABLES
  db,        \* version of the data behind each key, in the API's database
  store,     \* redis: what each key holds
  inflight,  \* SETs whose client gave up, which redis may still run
  pc,        \* where each context stands in its call
  args,      \* the keys of its call
  seen,      \* the versions its call read, or wrote
  flakey,    \* g.redis_flakey
  deadline,  \* which of its EventletTimeouts have fired
  \* History, read by no action's guard:
  settled,   \* newest version of a key whose update has returned
  floor,     \* settled, when the read of this context began
  excused,   \* this read was answered from an entry that landed late
  refilled,  \* keys filled since this update's first delete
  waits      \* skippable redis calls that cost this context a wait (0..2)

vars == <<db, store, inflight, pc, args, seen, flakey, deadline,
          settled, floor, excused, refilled, waits>>

history == <<settled, floor, excused, refilled, waits>>

Versions == 0..MaxVersion
ApiFaults == Faults \cap {SoftEventletTimeout, HardEventletTimeout, OtherError}
Entry == [version : Versions, expires : BOOLEAN, late : BOOLEAN]
Steps == {"idle", "get", "call", "set", "delete1", "api", "delete2",
          "returned", "raised"}

Init ==
  /\ db = [k \in Keys |-> 0]
  /\ store = [k \in Keys |-> NoEntry]
  /\ inflight = {}
  /\ pc = [c \in Contexts |-> "idle"]
  /\ args = [c \in Contexts |-> {}]
  /\ seen = [c \in Contexts |-> [k \in Keys |-> 0]]
  /\ flakey = [c \in Contexts |-> FALSE]
  /\ deadline = [c \in Contexts |-> "none"]
  /\ settled = [k \in Keys |-> 0]
  /\ floor = [c \in Contexts |-> [k \in Keys |-> 0]]
  /\ excused = [c \in Contexts |-> FALSE]
  /\ refilled = [c \in Contexts |-> {}]
  /\ waits = [c \in Contexts |-> 0]

-----------------------------------------------------------------------------
(* Exceptions.                                                             *)

Goto(c, step) == pc' = [pc EXCEPT ![c] = step]

(* EventletTimeoutMiddleware arms one soft and one hard timer a request.   *)
(* Each fires once, the soft one first.                                    *)
CanMeet(c, e) ==
  /\ e = SoftEventletTimeout => deadline[c] = "none"
  /\ e = HardEventletTimeout => deadline[c] # "hard"

(* Mutant of Meet: any exception is taken for an expired deadline.         *)
MeetAny(c, e) == deadline' = [deadline EXCEPT ![c] = e]

Meet(c, e) ==
  deadline' = [deadline EXCEPT ![c] =
    IF e \in {SoftEventletTimeout, HardEventletTimeout} THEN e ELSE @]

(* __handle_exception, for a call of context c; `skippable` says whether a *)
(* flakey context would have left the call out.                            *)
HandleException(c, e, skippable) ==
  /\ CanMeet(c, e)
  /\ Meet(c, e)
  /\ flakey' = [flakey EXCEPT ![c] = @ \/ MarksFlakey(e)]
  /\ waits' = [waits EXCEPT ![c] =
       IF ~MarksFlakey(e) THEN @
       ELSE IF skippable /\ @ < 2 THEN @ + 1
       ELSE IF @ = 0 THEN 1 ELSE @]

(* Mutant of Skips: a flakey context goes on calling.                      *)
SkipsInactiveOnly(c) == c \notin Active

(* A skippable call of a flakey context and every call of an inactive      *)
(* client do nothing.                                                      *)
Skips(c) == flakey[c] \/ c \notin Active

-----------------------------------------------------------------------------
(* @cache.set: read through.                                               *)

BeginRead(c, k) ==
  /\ pc[c] = "idle"
  /\ Goto(c, "get")
  /\ args' = [args EXCEPT ![c] = {k}]
  /\ floor' = [floor EXCEPT ![c][k] = settled[k]]
  /\ UNCHANGED <<db, store, inflight, seen, flakey, deadline,
                 settled, excused, refilled, waits>>

(* redis_client.get(redis_key, skippable=True)                             *)
GetSkipped(c) ==
  /\ pc[c] = "get"
  /\ Skips(c)
  /\ Goto(c, "call")
  /\ UNCHANGED <<db, store, inflight, args, seen, flakey, deadline, history>>

GetAnswered(c) ==
  /\ pc[c] = "get"
  /\ ~Skips(c)
  /\ \E k \in args[c] :
       \/ /\ store[k] = NoEntry
          /\ Goto(c, "call")
          /\ UNCHANGED <<seen, excused>>
       \/ /\ store[k] # NoEntry
          /\ Goto(c, "returned")
          /\ seen' = [seen EXCEPT ![c][k] = store[k].version]
          /\ excused' = [excused EXCEPT ![c] = store[k].late]
  /\ UNCHANGED <<db, store, inflight, args, flakey, deadline,
                 settled, floor, refilled, waits>>

GetFailed(c, e) ==
  /\ pc[c] = "get"
  /\ ~Skips(c)
  /\ HandleException(c, e, TRUE)
  /\ Goto(c, IF LetsOut(e, FALSE) THEN "raised" ELSE "call")
  /\ UNCHANGED <<db, store, inflight, args, seen,
                 settled, floor, excused, refilled>>

(* What client_method returned: a value, or a CacheResultWrapper around    *)
(* one, which says whether to cache it.                                    *)
Results == [wrapped : BOOLEAN, cache_decision : BOOLEAN]

get_cache_decision(result) == result.wrapped => result.cache_decision

(* client_method reads the database.                                       *)
CallAnswered(c) ==
  /\ pc[c] = "call"
  /\ \E k \in args[c] : seen' = [seen EXCEPT ![c][k] = db[k]]
  /\ \E result \in Results :
       Goto(c, IF get_cache_decision(result) THEN "set" ELSE "returned")
  /\ UNCHANGED <<db, store, inflight, args, flakey, deadline, history>>

(* A client_method that raises: the decorator does not catch it.           *)
CallFailed(c, e) ==
  /\ pc[c] = "call"
  /\ CanMeet(c, e)
  /\ Meet(c, e)
  /\ Goto(c, "raised")
  /\ UNCHANGED <<db, store, inflight, args, seen, flakey, history>>

(* Mutant of NewEntry: the SET loses its EX argument.                      *)
NewEntryForGood(k, version) ==
  [version |-> version, expires |-> FALSE, late |-> version < settled[k]]

(* Redis runs SET key version EX ttl.                                      *)
NewEntry(k, version) ==
  [version |-> version, expires |-> TRUE, late |-> version < settled[k]]

RunSet(k, version) ==
  /\ store' = [store EXCEPT ![k] = NewEntry(k, version)]
  /\ refilled' = [c \in Contexts |-> IF pc[c] = "api" THEN refilled[c] \cup {k}
                                    ELSE refilled[c]]

(* redis_client.set(redis_key, value, ex=..., skippable=True)              *)
SetSkipped(c) ==
  /\ pc[c] = "set"
  /\ Skips(c)
  /\ Goto(c, "returned")
  /\ UNCHANGED <<db, store, inflight, args, seen, flakey, deadline, history>>

SetAnswered(c) ==
  /\ pc[c] = "set"
  /\ ~Skips(c)
  /\ \E k \in args[c] : RunSet(k, seen[c][k])
  /\ Goto(c, "returned")
  /\ UNCHANGED <<db, inflight, args, seen, flakey, deadline,
                 settled, floor, excused, waits>>

(* The command was lost, was run, or is yet to be run.                     *)
SetFailed(c, e) ==
  /\ pc[c] = "set"
  /\ ~Skips(c)
  /\ HandleException(c, e, TRUE)
  /\ Goto(c, IF LetsOut(e, FALSE) THEN "raised" ELSE "returned")
  /\ \/ UNCHANGED <<store, inflight, refilled>>
     \/ /\ MayHaveRun(e)
        /\ \E k \in args[c] : RunSet(k, seen[c][k])
        /\ UNCHANGED inflight
     \/ /\ MayHaveRun(e)
        /\ \E k \in args[c] : inflight' = inflight \cup {<<k, seen[c][k]>>}
        /\ UNCHANGED <<store, refilled>>
  /\ UNCHANGED <<db, args, seen, settled, floor, excused>>

-----------------------------------------------------------------------------
(* @cache.delete, @cache.delete_by_pattern: delete, update, delete again.  *)

BeginUpdate(c, pattern) ==
  /\ pc[c] = "idle"
  /\ Goto(c, "delete1")
  /\ args' = [args EXCEPT ![c] = pattern]
  /\ UNCHANGED <<db, store, inflight, seen, flakey, deadline, history>>

(* Redis runs DEL, or the delete-keys-by-pattern script.                   *)
Without(keys) == [k \in Keys |-> IF k \in keys THEN NoEntry ELSE store[k]]

(* delete_by_pattern, or delete, that ends in no exception.                *)
Deleted(c) == IF c \in Active THEN Without(args[c]) ELSE store

FirstDelete(c) ==
  /\ pc[c] = "delete1"
  /\ Goto(c, "api")
  /\ store' = Deleted(c)
  /\ UNCHANGED <<db, inflight, args, seen, flakey, deadline, history>>

(* client_method updates the database.                                     *)
Commit(c) ==
  /\ \A k \in args[c] : db[k] < MaxVersion
  /\ db' = [k \in Keys |-> IF k \in args[c] THEN db[k] + 1 ELSE db[k]]
  /\ seen' = [seen EXCEPT ![c] = [k \in Keys |-> IF k \in args[c] THEN db'[k] ELSE 0]]

ApiAnswered(c) ==
  /\ pc[c] = "api"
  /\ Commit(c)
  /\ Goto(c, "delete2")
  /\ UNCHANGED <<store, inflight, args, flakey, deadline, history>>

(* The API call raises, with or without its update done.                   *)
ApiFailed(c, e) ==
  /\ pc[c] = "api"
  /\ CanMeet(c, e)
  /\ Meet(c, e)
  /\ \/ UNCHANGED <<db, seen>>
     \/ Commit(c)
  /\ Goto(c, "raised")
  /\ UNCHANGED <<store, inflight, args, flakey, history>>

Settle(c) ==
  [k \in Keys |-> IF k \in args[c] /\ seen[c][k] > settled[k]
                  THEN seen[c][k] ELSE settled[k]]

(* Mutant of SecondDelete: a flakey context leaves it out.                 *)
SecondDeleteSkippable(c) ==
  /\ pc[c] = "delete2"
  /\ Goto(c, "returned")
  /\ store' = IF Skips(c) THEN store ELSE Without(args[c])
  /\ settled' = IF c \in Active THEN Settle(c) ELSE settled
  /\ UNCHANGED <<db, inflight, args, seen, flakey, deadline,
                 floor, excused, refilled, waits>>

SecondDelete(c) ==
  /\ pc[c] = "delete2"
  /\ Goto(c, "returned")
  /\ store' = Deleted(c)
  /\ settled' = IF c \in Active THEN Settle(c) ELSE settled
  /\ UNCHANGED <<db, inflight, args, seen, flakey, deadline,
                 floor, excused, refilled, waits>>

(* Mutant of DeleteFailed: deletes made without raise_exception=True.      *)
DeleteFailedQuietly(c, e) ==
  /\ pc[c] \in {"delete1", "delete2"}
  /\ c \in Active
  /\ HandleException(c, e, FALSE)
  /\ Goto(c, IF LetsOut(e, FALSE) THEN "raised"
             ELSE IF pc[c] = "delete1" THEN "api" ELSE "returned")
  /\ UNCHANGED <<db, store, inflight, args, seen,
                 settled, floor, excused, refilled>>

(* redis_client.delete(redis_key, raise_exception=True) ends in an         *)
(* exception.  A DEL that redis runs later still is not kept: like         *)
(* Expire, all it could do is remove an entry.                             *)
DeleteFailed(c, e) ==
  /\ pc[c] \in {"delete1", "delete2"}
  /\ c \in Active
  /\ HandleException(c, e, FALSE)
  /\ LetsOut(e, TRUE)
  /\ Goto(c, "raised")
  /\ \/ UNCHANGED store
     \/ MayHaveRun(e) /\ store' = Without(args[c])
  /\ UNCHANGED <<db, inflight, args, seen, settled, floor, excused, refilled>>

-----------------------------------------------------------------------------
(* The rest of the world.                                                  *)

(* Redis gets to a SET whose client is gone.                               *)
LateSet(k, version) ==
  /\ <<k, version>> \in inflight
  /\ RunSet(k, version)
  /\ inflight' = inflight \ {<<k, version>>}
  /\ UNCHANGED <<db, pc, args, seen, flakey, deadline,
                 settled, floor, excused, waits>>

(* The TTL of an entry runs out, or redis evicts it.                       *)
Expire(k) ==
  /\ store[k] # NoEntry
  /\ store[k].expires
  /\ store' = [store EXCEPT ![k] = NoEntry]
  /\ UNCHANGED <<db, inflight, pc, args, seen, flakey, deadline, history>>

Ended(c) == pc[c] \in {"returned", "raised"}

(* What belonged to the call goes with it.                                 *)
EndCall(c) ==
  /\ Ended(c)
  /\ Goto(c, "idle")
  /\ args' = [args EXCEPT ![c] = {}]
  /\ seen' = [seen EXCEPT ![c] = [k \in Keys |-> 0]]
  /\ floor' = [floor EXCEPT ![c] = [k \in Keys |-> 0]]
  /\ excused' = [excused EXCEPT ![c] = FALSE]
  /\ refilled' = [refilled EXCEPT ![c] = {}]
  /\ UNCHANGED <<db, store, inflight, settled>>

(* The context makes another call; a request past its hard deadline makes  *)
(* none.                                                                   *)
NextCall(c) ==
  /\ EndCall(c)
  /\ deadline[c] # HardEventletTimeout
  /\ UNCHANGED <<flakey, deadline, waits>>

(* The app context is popped and another takes its place, with a g and     *)
(* timers of its own.                                                      *)
PopContext(c) ==
  /\ EndCall(c)
  /\ flakey' = [flakey EXCEPT ![c] = FALSE]
  /\ deadline' = [deadline EXCEPT ![c] = "none"]
  /\ waits' = [waits EXCEPT ![c] = 0]

-----------------------------------------------------------------------------
Read(c) ==
  \/ \E k \in Keys : BeginRead(c, k)
  \/ GetSkipped(c) \/ GetAnswered(c)
  \/ CallAnswered(c)
  \/ SetSkipped(c) \/ SetAnswered(c)
  \/ \E e \in Faults : GetFailed(c, e) \/ SetFailed(c, e)
  \/ \E e \in ApiFaults : CallFailed(c, e)

Update(c) ==
  \/ \E pattern \in Patterns : BeginUpdate(c, pattern)
  \/ FirstDelete(c) \/ ApiAnswered(c) \/ SecondDelete(c)
  \/ \E e \in ApiFaults : ApiFailed(c, e)
  \/ \E e \in Faults : DeleteFailed(c, e)

Next ==
  \/ \E c \in Contexts : Read(c) \/ Update(c) \/ NextCall(c) \/ PopContext(c)
  \/ \E k \in Keys : Expire(k)
  \/ \E k \in Keys, version \in Versions : LateSet(k, version)

Spec == Init /\ [][Next]_vars

(* Redis expires what it was given a TTL for.  Nothing is assumed of the   *)
(* contexts: they may stop anywhere.                                       *)
FairSpec == Spec /\ \A k \in Keys : WF_vars(Expire(k))

-----------------------------------------------------------------------------
(* Properties.                                                             *)

TypeOK ==
  /\ db \in [Keys -> Versions]
  /\ store \in [Keys -> Entry \cup {NoEntry}]
  /\ inflight \subseteq Keys \X Versions
  /\ pc \in [Contexts -> Steps]
  /\ args \in [Contexts -> SUBSET Keys]
  /\ seen \in [Contexts -> [Keys -> Versions]]
  /\ flakey \in [Contexts -> BOOLEAN]
  /\ deadline \in [Contexts -> {"none", "soft", "hard"}]
  /\ settled \in [Keys -> Versions]
  /\ floor \in [Contexts -> [Keys -> Versions]]
  /\ excused \in [Contexts -> BOOLEAN]
  /\ refilled \in [Contexts -> SUBSET Keys]
  /\ waits \in [Contexts -> 0..2]

(* A read that began after an update had returned answers with that update *)
(* or a newer one, whatever failed meanwhile, unless redis answered it     *)
(* from an entry whose SET landed after the update's second delete.        *)
ReturnedUpdatesAreSeen ==
  \A c \in Contexts : pc[c] = "returned" =>
    \A k \in args[c] : excused[c] \/ seen[c][k] >= floor[c][k]

(* "It is important to attempt the redis deletion first": when the API is  *)
(* asked to update, nothing is left in redis of what was there before; an  *)
(* update whose second delete then fails leaves only younger entries.      *)
DeletedBeforeUpdated ==
  \A c \in Active : pc[c] = "api" =>
    \A k \in args[c] : store[k] # NoEntry => k \in refilled[c]

(* "We'd rather not waste any more time waiting for redis requests in this *)
(* app context": a get or set never times out in a context in which a      *)
(* redis call timed out before.                                            *)
SkippableCallsWaitOnce == \A c \in Contexts : waits[c] <= 1

(* Whatever raced, failed or arrived late: once there are no more updates, *)
(* redis comes to hold nothing stale, for as long as it lasts.             *)
Fresh(k) == store[k] # NoEntry => store[k].version = db[k]
EventuallyFresh == <>[](\A k \in Keys : Fresh(k))

(* What the comments on @cache.delete promise of its two deletes: redis is *)
(* not left with data older than an update that returned.                  *)
NoStaleDataAfterUpdate ==
  \A k \in Keys : store[k] # NoEntry => store[k].version >= settled[k]
=============================================================================
