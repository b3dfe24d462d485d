---------------------------- MODULE TokenBucket ----------------------------
(***************************************************************************)
(* The rate limiter behind RedisClient.get_remaining_bucket_tokens: a      *)
(* bucket of tokens kept under one redis key, replenished lazily by the    *)
(* tally-bucket-rate-limit script.                                         *)
(*                                                                         *)
(* Time is counted in ticks so short that a token takes a whole number of  *)
(* them, TicksPerToken = 1 / replenish_per_sec.                            *)
(***************************************************************************)
EXTENDS Callers

CONSTANTS TicksPerToken,
          BucketMax,
          BucketMin,
          NoBucket

ASSUME BucketAssumption ==
  /\ TicksPerToken \in Nat \ {0}
  /\ BucketMax \in Nat \ {0}
  /\ BucketMin \in Int /\ BucketMin <= 0
  /\ NoBucket \notin [last_replenished : Int, tokens_remaining : Int]

VARIABLES
  bucket,    \* the value of the redis key
  \* History of the bucket since it was made, read by no guard:
  made,      \* last_replenished when it was made
  granted,   \* tokens it was replenished by, those above the limit included
  served,    \* requests told that tokens remain
  newest     \* latest reading of a clock it was asked with

bucket_vars == <<clock, bucket, asked, made, granted, served, newest>>

Bucket == [last_replenished : Int, tokens_remaining : Int]

BucketInit ==
  /\ clock = 0
  /\ bucket = NoBucket
  /\ asked = [c \in Callers |-> Idle]
  /\ made = 0
  /\ granted = 0
  /\ served = 0
  /\ newest = 0

-----------------------------------------------------------------------------
(* The script.                                                             *)

Min2(a, b) == IF a <= b THEN a ELSE b
Max2(a, b) == IF a >= b THEN a ELSE b

Now(c) == asked[c] + Skew[c]

(* The bucket the script starts from.                                      *)
Found(now) ==
  IF bucket = NoBucket
  THEN [last_replenished |-> now, tokens_remaining |-> BucketMax]
  ELSE bucket

(* Mutants of Replenishment: rounded to the next token; only what the      *)
(* bucket has room for.                                                    *)
ReplenishmentRoundedUp(now) ==
  (Max2(now - Found(now).last_replenished, 0) + TicksPerToken - 1)
    \div TicksPerToken

ReplenishmentThatFits(now) ==
  Min2(Max2(now - Found(now).last_replenished, 0) \div TicksPerToken,
       BucketMax - Found(now).tokens_remaining)

(* math.floor(elapsed * replenish_per_sec)                                 *)
Replenishment(now) ==
  Max2(now - Found(now).last_replenished, 0) \div TicksPerToken

(* Mutant of Remaining: no floor.                                          *)
RemainingNoFloor(now) ==
  Min2(Found(now).tokens_remaining + Replenishment(now), BucketMax) - 1

Remaining(now) ==
  Max2(Min2(Found(now).tokens_remaining + Replenishment(now), BucketMax) - 1,
       BucketMin)

(* Mutant of Replenished: the clock, unless that goes backwards, with the  *)
(* fraction of a token lost.                                               *)
ReplenishedNowOrLater(now) == Max2(now, Found(now).last_replenished)

(* Not `now`, but the time of the last whole token.                        *)
Replenished(now) ==
  Found(now).last_replenished + Replenishment(now) * TicksPerToken

-----------------------------------------------------------------------------
BucketTick ==
  /\ clock < MaxClock
  /\ \A c \in Callers : asked[c] # Idle => clock - asked[c] < MaxDelay
  /\ clock' = clock + 1
  /\ UNCHANGED <<bucket, asked, made, granted, served, newest>>

(* get_remaining_bucket_tokens: now = time()                               *)
BucketAsk(c) ==
  /\ asked[c] = Idle
  /\ asked' = [asked EXCEPT ![c] = clock]
  /\ UNCHANGED <<clock, bucket, made, granted, served, newest>>

(* Redis runs the script.  Its answer counts as the caller's, also where   *)
(* an exception takes its place and the caller is left with None.          *)
RunScript(c) ==
  /\ asked[c] # Idle
  /\ LET now == Now(c) IN
       /\ bucket' = [last_replenished |-> Replenished(now),
                     tokens_remaining |-> Remaining(now)]
       /\ made' = IF bucket = NoBucket THEN now ELSE made
       /\ granted' = granted + Replenishment(now)
       /\ served' = IF Remaining(now) > 0 THEN served + 1 ELSE served
       /\ newest' = IF bucket = NoBucket THEN now ELSE Max2(newest, now)
  /\ asked' = [asked EXCEPT ![c] = Idle]
  /\ UNCHANGED clock

(* The command fails and the script is not run.                            *)
BucketFail(c) ==
  /\ asked[c] # Idle
  /\ asked' = [asked EXCEPT ![c] = Idle]
  /\ UNCHANGED <<clock, bucket, made, granted, served, newest>>

(* Redis loses the key (the script gives it no TTL).                       *)
Lose ==
  /\ bucket # NoBucket
  /\ bucket' = NoBucket
  /\ made' = 0
  /\ granted' = 0
  /\ served' = 0
  /\ newest' = 0
  /\ UNCHANGED <<clock, asked>>

BucketNext ==
  \/ BucketTick
  \/ Lose
  \/ \E c \in Callers : BucketAsk(c) \/ RunScript(c) \/ BucketFail(c)

BucketSpec == BucketInit /\ [][BucketNext]_bucket_vars

-----------------------------------------------------------------------------
(* Properties.                                                             *)

BucketTypeOK ==
  /\ clock \in Nat
  /\ bucket \in Bucket \cup {NoBucket}
  /\ asked \in [Callers -> Nat \cup {Idle}]
  /\ made \in Int
  /\ granted \in Nat
  /\ served \in Nat
  /\ newest \in Int

(* The bucket holds no more than its limit less the token just taken, and  *)
(* owes no more than bucket_min allows.                                    *)
WithinLimits ==
  bucket # NoBucket =>
    bucket.tokens_remaining \in BucketMin..(BucketMax - 1)

(* However callers interleave and whatever their clocks show, the requests *)
(* served never exceed a full bucket and one token for every TicksPerToken *)
(* ticks from the making of the bucket to the latest clock it was asked    *)
(* with; what remains positive in the bucket is included.                  *)
BucketRateIsLimited ==
  bucket # NoBucket =>
    served + Max2(bucket.tokens_remaining, 0)
      <= BucketMax + (newest - made) \div TicksPerToken

(* "We only ever allow last_replenished to go forwards", and never past    *)
(* the clocks it was set by.                                               *)
OnlyForwards ==
  [][bucket # NoBucket /\ bucket' # NoBucket =>
       /\ bucket.last_replenished <= bucket'.last_replenished
       /\ bucket'.last_replenished <= newest']_bucket_vars

(* No time is lost to rounding: after a request, less than one token's     *)
(* time is left unaccounted for.                                           *)
NoTimeLost ==
  [][\A c \in Callers : RunScript(c) =>
       Now(c) - bucket'.last_replenished < TicksPerToken]_bucket_vars

(* Refused requests count against the limit, "but only to a reasonable     *)
(* (and controllable) degree": after a pause long enough to pay back       *)
(* -bucket_min tokens and gain two, the next request is served.            *)
PauseRestores ==
  [][\A c \in Callers :
       (/\ bucket # NoBucket
        /\ BucketMax >= 2
        /\ RunScript(c)
        /\ Now(c) - bucket.last_replenished >= (2 - BucketMin) * TicksPerToken)
       => served' = served + 1]_bucket_vars

(* "Critically, we do not use `now`": asked with one clock and answered at *)
(* once, the bucket replenished on demand cannot be told from one that     *)
(* gains its tokens as time passes.                                        *)
EagerLevel ==
  IF bucket = NoBucket THEN BucketMax
  ELSE Min2(bucket.tokens_remaining
              + (clock - bucket.last_replenished) \div TicksPerToken, BucketMax)
EagerPhase ==
  IF bucket = NoBucket THEN 0
  ELSE (clock - bucket.last_replenished) % TicksPerToken

Eager == INSTANCE EagerBucket WITH
  started <- bucket # NoBucket, level <- EagerLevel, phase <- EagerPhase

ImplementsEagerBucket == Eager!Spec
=============================================================================
