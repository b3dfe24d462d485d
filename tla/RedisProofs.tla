----------------------------- MODULE RedisProofs -----------------------------
(***************************************************************************)
(* Theorems about what is kept in Redis: TokenBucket, for every rate and   *)
(* size of the bucket, SlidingWindow, for every delay, limit and interval, *)
(* both for any callers and skew of their clocks, and RequestCache, for    *)
(* any contexts, keys, patterns and updates and any of the faults.         *)
(***************************************************************************)
EXTENDS TokenBucket, SlidingWindow, RequestCache, CacheKeys, FiniteSetTheorems, TLAPS

-----------------------------------------------------------------------------
(* The token bucket.                                                       *)

-----------------------------------------------------------------------------
(* Division.                                                               *)

LEMMA DivFacts ==
  ASSUME NEW x \in Nat, NEW k \in Nat \ {0}
  PROVE  /\ x \div k \in Nat
         /\ x % k \in 0..(k - 1)
         /\ x = (x \div k) * k + (x % k)
  BY Z3

LEMMA WholePart ==
  ASSUME NEW x \in Nat, NEW k \in Nat \ {0}
  PROVE  /\ (x \div k) * k \in 0..x
         /\ x - (x \div k) * k < k
<1>1. (x \div k) * k = x - (x % k)
  BY DivFacts, Z3
<1>2. (x \div k) * k >= 0
  BY DivFacts, Z3
<1> QED BY <1>1, <1>2, DivFacts

LEMMA DivMonotone ==
  ASSUME NEW x \in Int, NEW k \in Nat \ {0}, NEW q \in Nat, q * k <= x
  PROVE  q <= x \div k
  BY Z3

LEMMA DivUnique ==
  ASSUME NEW k \in Nat \ {0}, NEW q \in Nat, NEW r \in 0..(k - 1)
  PROVE  /\ (q * k + r) \div k = q
         /\ (q * k + r) % k = r
  BY Z3

-----------------------------------------------------------------------------
(* The inductive invariant.  BucketRateIsLimited alone is not inductive: it      *)
(* speaks of time, and the bucket of tokens.  What ties them is that       *)
(* last_replenished is a whole number of tokens after the making of the    *)
(* bucket, and never ahead of the latest clock.                            *)

Accounts ==
  /\ bucket = NoBucket => granted = 0 /\ served = 0
  /\ bucket # NoBucket =>
       /\ bucket.tokens_remaining \in BucketMin..(BucketMax - 1)
       /\ bucket.last_replenished = made + granted * TicksPerToken
       /\ bucket.last_replenished <= newest
       /\ served + Max2(bucket.tokens_remaining, 0) <= BucketMax + granted

BucketInv == BucketTypeOK /\ Accounts

LEMMA BucketInitInvariant == BucketInit => BucketInv
  BY BucketAssumption, CallersAssumption DEF BucketInit, BucketInv, BucketTypeOK, Accounts

(* What the script computes, from the bucket it finds.                     *)
LEMMA ScriptFacts ==
  ASSUME BucketInv, NEW c \in Callers, asked[c] # Idle
  PROVE  LET now == Now(c)
             last == Found(now).last_replenished
             tokens == Found(now).tokens_remaining
         IN /\ now \in Nat
            /\ last \in Int
            /\ tokens \in BucketMin..BucketMax
            /\ bucket # NoBucket => bucket = Found(now)
            /\ bucket = NoBucket => last = now /\ tokens = BucketMax
            /\ Replenishment(now) \in Nat
            /\ last <= now => /\ Replenished(now) <= now
                              /\ now - Replenished(now) < TicksPerToken
            /\ last > now => Replenished(now) = last
            /\ last <= Replenished(now)
            /\ Replenished(now) = last + Replenishment(now) * TicksPerToken
            /\ Remaining(now) \in BucketMin..(BucketMax - 1)
            /\ Remaining(now) > 0
                 => Remaining(now) <= tokens + Replenishment(now) - 1
<1> DEFINE now == Now(c)
           last == Found(now).last_replenished
           tokens == Found(now).tokens_remaining
           elapsed == Max2(now - last, 0)
<1>1. now \in Nat
  BY BucketAssumption, CallersAssumption DEF BucketInv, BucketTypeOK, Now
<1>2. /\ last \in Int
      /\ tokens \in BucketMin..BucketMax
      /\ bucket # NoBucket => bucket = Found(now)
      /\ bucket = NoBucket => last = now /\ tokens = BucketMax
  BY <1>1, BucketAssumption, CallersAssumption DEF BucketInv, BucketTypeOK, Accounts, Found, Bucket
<1>3. /\ elapsed \in Nat
      /\ last <= now => elapsed = now - last
      /\ last > now => elapsed = 0
  BY <1>1, <1>2 DEF Max2
<1>4. /\ elapsed \div TicksPerToken \in Nat
      /\ (elapsed \div TicksPerToken) * TicksPerToken \in 0..elapsed
      /\ elapsed - (elapsed \div TicksPerToken) * TicksPerToken < TicksPerToken
  BY <1>3, DivFacts, WholePart, BucketAssumption, CallersAssumption
<1>5. Replenishment(now) = elapsed \div TicksPerToken
  BY DEF Replenishment
<1>6. Replenished(now) = last + Replenishment(now) * TicksPerToken
  BY DEF Replenished
<1> DEFINE gain == Replenishment(now) * TicksPerToken
<1>7. gain \in Nat /\ gain <= elapsed /\ elapsed - gain < TicksPerToken
  <2> HIDE DEF now, last, elapsed
  <2> QED BY <1>3, <1>4, <1>5
<1>8. /\ last <= now => /\ Replenished(now) <= now
                        /\ now - Replenished(now) < TicksPerToken
      /\ last > now => Replenished(now) = last
      /\ last <= Replenished(now)
  <2> HIDE DEF now, last, gain, elapsed
  <2> QED BY <1>1, <1>2, <1>3, <1>6, <1>7, BucketAssumption, CallersAssumption
          DEF gain
<1>9. /\ Remaining(now) \in BucketMin..(BucketMax - 1)
      /\ Remaining(now) > 0
           => Remaining(now) <= tokens + Replenishment(now) - 1
  <2> HIDE DEF now
  <2> QED BY <1>2, <1>4, <1>5, BucketAssumption, CallersAssumption DEF Remaining, Min2, Max2
<1> QED BY <1>1, <1>2, <1>4, <1>5, <1>6, <1>8, <1>9

LEMMA BucketStepInvariant == BucketInv /\ [BucketNext]_bucket_vars => BucketInv'
<1> SUFFICES ASSUME BucketInv, [BucketNext]_bucket_vars
             PROVE  BucketInv'
  OBVIOUS
<1> USE DEF BucketInv
<1>1. CASE BucketTick
  BY <1>1 DEF BucketTick, BucketTypeOK, Accounts
<1>2. CASE Lose
  BY <1>2 DEF Lose, BucketTypeOK, Accounts
<1>3. CASE \E c \in Callers : BucketAsk(c)
  BY <1>3 DEF BucketAsk, BucketTypeOK, Accounts
<1>4. CASE \E c \in Callers : BucketFail(c)
  BY <1>4 DEF BucketFail, BucketTypeOK, Accounts
<1>5. ASSUME NEW c \in Callers, RunScript(c)
      PROVE  BucketInv'
  <2> DEFINE now == Now(c)
             last == Found(now).last_replenished
             tokens == Found(now).tokens_remaining
             rep == Replenishment(now)
  <2>1. /\ now \in Nat
        /\ last \in Int
        /\ tokens \in BucketMin..BucketMax
        /\ bucket # NoBucket => bucket = Found(now)
        /\ bucket = NoBucket => last = now /\ tokens = BucketMax
        /\ rep \in Nat
        /\ last <= now => Replenished(now) <= now
        /\ last > now => Replenished(now) = last
        /\ last <= Replenished(now)
        /\ Replenished(now) = last + rep * TicksPerToken
        /\ Remaining(now) \in BucketMin..(BucketMax - 1)
        /\ Remaining(now) > 0 => Remaining(now) <= tokens + rep - 1
    BY <1>5, ScriptFacts DEF RunScript
  <2>2. /\ bucket' = [last_replenished |-> Replenished(now),
                      tokens_remaining |-> Remaining(now)]
        /\ made' = IF bucket = NoBucket THEN now ELSE made
        /\ granted' = granted + rep
        /\ served' = IF Remaining(now) > 0 THEN served + 1 ELSE served
        /\ newest' = IF bucket = NoBucket THEN now ELSE Max2(newest, now)
        /\ asked' = [asked EXCEPT ![c] = Idle]
        /\ clock' = clock
    BY <1>5 DEF RunScript
  <2>3. Replenished(now) \in Int
    <3> HIDE DEF now, last, tokens, rep
    <3> QED BY <2>1, BucketAssumption, CallersAssumption
  <2>4. BucketTypeOK'
    <3> HIDE DEF now, last, tokens, rep
    <3> QED BY <2>1, <2>2, <2>3, BucketAssumption, CallersAssumption
            DEF BucketTypeOK, Bucket, Max2
  <2>5. bucket'.tokens_remaining \in BucketMin..(BucketMax - 1)
    BY <2>1, <2>2
  <2>6. bucket'.last_replenished = made' + granted' * TicksPerToken
    <3>1. bucket'.last_replenished = last + rep * TicksPerToken
      BY <2>1, <2>2
    <3>2. CASE bucket = NoBucket
      <4>1. rep = 0
        BY <2>1, <3>2, BucketAssumption, CallersAssumption DEF Replenishment, Max2
      <4>2. granted' = 0 /\ made' = last
        BY <2>1, <2>2, <3>2, <4>1 DEF Accounts
      <4> HIDE DEF now, last, rep
      <4> QED BY <2>1, <3>1, <4>1, <4>2, BucketAssumption, CallersAssumption
    <3>3. CASE bucket # NoBucket
      <4>1. last = made + granted * TicksPerToken
        BY <2>1, <3>3 DEF Accounts
      <4>2. made' = made /\ granted' = granted + rep
        BY <2>2, <3>3
      <4>3. granted \in Nat /\ made \in Int
        BY DEF BucketTypeOK
      <4> HIDE DEF now, last, rep
      <4>4. (granted + rep) * TicksPerToken
              = granted * TicksPerToken + rep * TicksPerToken
        BY <2>1, <4>3, BucketAssumption, CallersAssumption, Z3
      <4> QED BY <2>1, <3>1, <4>1, <4>2, <4>3, <4>4, BucketAssumption, CallersAssumption
    <3> QED BY <3>2, <3>3
  <2>7. bucket'.last_replenished <= newest'
    <3>1. bucket'.last_replenished = Replenished(now)
      BY <2>2
    <3>2. newest \in Int /\ (bucket # NoBucket => last <= newest)
      BY <2>1 DEF BucketTypeOK, Accounts
    <3>3. /\ now <= newest'
          /\ bucket # NoBucket => newest <= newest'
      BY <2>1, <2>2, <3>2 DEF Max2
    <3>4. newest' \in Int
      BY <2>4 DEF BucketTypeOK
    <3>5. CASE last <= now
      BY <2>1, <2>3, <3>1, <3>3, <3>4, <3>5
    <3>6. CASE last > now
      <4>1. bucket # NoBucket
        BY <2>1, <3>6
      <4> HIDE DEF now, last
      <4> QED BY <2>1, <2>3, <3>1, <3>2, <3>3, <3>4, <3>6, <4>1
    <3> QED BY <2>1, <3>5, <3>6
  <2>8. served' + Max2(bucket'.tokens_remaining, 0) <= BucketMax + granted'
    <3>1. bucket'.tokens_remaining = Remaining(now)
      BY <2>2
    <3>2. /\ served \in Nat
          /\ granted \in Nat
          /\ tokens \in Int
          /\ served + Max2(tokens, 0) <= BucketMax + granted
      BY <2>1, BucketAssumption, CallersAssumption DEF BucketTypeOK, Accounts, Max2
    <3>3. Remaining(now) \in Int /\ rep \in Nat
      BY <2>1, BucketAssumption, CallersAssumption
    <3>4. CASE Remaining(now) > 0
      <4>1. served' = served + 1 /\ granted' = granted + rep
        BY <2>2, <3>4
      <4>2. Remaining(now) <= tokens + rep - 1
        BY <2>1, <3>4
      <4> HIDE DEF now, tokens, rep
      <4> QED BY <3>1, <3>2, <3>3, <3>4, <4>1, <4>2, BucketAssumption, CallersAssumption DEF Max2
    <3>5. CASE ~(Remaining(now) > 0)
      <4>1. served' = served /\ granted' = granted + rep
        BY <2>2, <3>5
      <4> HIDE DEF now, tokens, rep
      <4> QED BY <3>1, <3>2, <3>3, <3>5, <4>1, BucketAssumption, CallersAssumption DEF Max2
    <3> QED BY <3>4, <3>5
  <2>9. bucket' # NoBucket
    <3> HIDE DEF now
    <3> QED BY <2>2, <2>3, <2>1, BucketAssumption, CallersAssumption
  <2> QED BY <2>4, <2>5, <2>6, <2>7, <2>8, <2>9 DEF Accounts
<1>6. CASE UNCHANGED bucket_vars
  BY <1>6 DEF bucket_vars, BucketTypeOK, Accounts
<1> QED BY <1>1, <1>2, <1>3, <1>4, <1>5, <1>6 DEF BucketNext

THEOREM BucketInvariance == BucketSpec => []BucketInv
BY BucketInitInvariant, BucketStepInvariant, PTL DEF BucketSpec

(* The types of the model.                                                 *)
THEOREM BucketTypes == BucketSpec => []BucketTypeOK
BY BucketInvariance, PTL DEF BucketInv

(* The bucket never holds its limit after a request, nor more debt than    *)
(* bucket_min.                                                             *)
THEOREM BucketWithinLimits == BucketSpec => []WithinLimits
<1>1. BucketInv => WithinLimits
  BY DEF BucketInv, Accounts, WithinLimits
<1> QED BY <1>1, BucketInvariance, PTL

(* The rate limit holds for any number of callers with any clocks.         *)
THEOREM RateLimit == BucketSpec => []BucketRateIsLimited
<1>1. ASSUME BucketInv, bucket # NoBucket
      PROVE  served + Max2(bucket.tokens_remaining, 0)
               <= BucketMax + (newest - made) \div TicksPerToken
  <2>1. /\ granted \in Nat /\ made \in Int /\ newest \in Int /\ served \in Nat
        /\ granted * TicksPerToken <= newest - made
        /\ served + Max2(bucket.tokens_remaining, 0) <= BucketMax + granted
    <3>1. /\ granted \in Nat /\ made \in Int /\ newest \in Int /\ served \in Nat
          /\ bucket.last_replenished = made + granted * TicksPerToken
          /\ bucket.last_replenished <= newest
          /\ served + Max2(bucket.tokens_remaining, 0) <= BucketMax + granted
      BY <1>1 DEF BucketInv, BucketTypeOK, Accounts
    <3>2. granted * TicksPerToken \in Int
      BY <3>1, BucketAssumption, CallersAssumption
    <3> QED BY <3>1, <3>2
  <2>2. granted <= (newest - made) \div TicksPerToken
    BY <2>1, DivMonotone, BucketAssumption, CallersAssumption
  <2>3. /\ (newest - made) \div TicksPerToken \in Int
        /\ Max2(bucket.tokens_remaining, 0) \in Int
    BY <1>1, <2>1, BucketAssumption, CallersAssumption DEF BucketInv, Accounts, Max2
  <2> QED BY <2>1, <2>2, <2>3, BucketAssumption, CallersAssumption
<1>2. BucketInv => BucketRateIsLimited
  BY <1>1 DEF BucketRateIsLimited
<1> QED BY <1>2, BucketInvariance, PTL

(* last_replenished only goes forwards, and never past the clocks that the *)
(* bucket was asked with.                                                  *)
THEOREM ForwardsOnly == BucketSpec => OnlyForwards
<1> DEFINE Forwards ==
      bucket # NoBucket /\ bucket' # NoBucket =>
        /\ bucket.last_replenished <= bucket'.last_replenished
        /\ bucket'.last_replenished <= newest'
<1>1. ASSUME BucketInv, BucketInv', [BucketNext]_bucket_vars, bucket # NoBucket,
             bucket' # NoBucket
      PROVE  Forwards
  <2>1. bucket'.last_replenished <= newest'
    BY <1>1 DEF BucketInv, Accounts
  <2>2. bucket.last_replenished \in Int
    BY <1>1 DEF BucketInv, BucketTypeOK, Bucket
  <2>3. CASE UNCHANGED bucket
    BY <2>1, <2>2, <2>3
  <2>4. ASSUME NEW c \in Callers, RunScript(c)
        PROVE  bucket.last_replenished <= bucket'.last_replenished
    <3>1. asked[c] # Idle
      BY <2>4 DEF RunScript
    <3>2. bucket'.last_replenished = Replenished(Now(c))
      BY <2>4 DEF RunScript
    <3>3. bucket = Found(Now(c))
      BY <1>1, <3>1, ScriptFacts
    <3>4. Found(Now(c)).last_replenished <= Replenished(Now(c))
      BY <1>1, <3>1, ScriptFacts
    <3> QED BY <3>2, <3>3, <3>4
  <2>5. CASE \E c \in Callers : RunScript(c)
    BY <2>1, <2>4, <2>5
  <2> QED BY <1>1, <2>3, <2>5 DEF BucketNext, bucket_vars, BucketTick, Lose, BucketAsk, BucketFail
<1>2. BucketInv /\ BucketInv' /\ [BucketNext]_bucket_vars => [Forwards]_bucket_vars
  BY <1>1
<1> QED BY <1>2, BucketInvariance, PTL DEF OnlyForwards, BucketSpec

(* Rounding loses no time.                                                 *)
THEOREM NothingLost == BucketSpec => NoTimeLost
<1> DEFINE Kept == \A c \in Callers : RunScript(c) =>
                     Now(c) - bucket'.last_replenished < TicksPerToken
<1>1. ASSUME BucketInv, NEW c \in Callers, RunScript(c)
      PROVE  Now(c) - bucket'.last_replenished < TicksPerToken
  <2> DEFINE now == Now(c)
             last == Found(now).last_replenished
  <2>1. asked[c] # Idle
    BY <1>1 DEF RunScript
  <2>2. bucket'.last_replenished = Replenished(now)
    BY <1>1 DEF RunScript
  <2>3. /\ now \in Nat
        /\ last \in Int
        /\ last <= now => now - Replenished(now) < TicksPerToken
        /\ last > now => Replenished(now) = last
    BY <1>1, <2>1, ScriptFacts
  <2> HIDE DEF now, last
  <2>4. now - Replenished(now) < TicksPerToken
    BY <2>3, BucketAssumption, CallersAssumption
  <2> QED BY <2>2, <2>4 DEF now
<1>2. BucketInv /\ [BucketNext]_bucket_vars => [Kept]_bucket_vars
  BY <1>1
<1> QED BY <1>2, BucketInvariance, PTL DEF NoTimeLost, BucketSpec

(* Requests refused before are forgiven after a pause: whatever the bucket  *)
(* owed, the next request is served.                                       *)
THEOREM PausesRestore == BucketSpec => PauseRestores
<1>1. ASSUME BucketInv, NEW c \in Callers, bucket # NoBucket, BucketMax >= 2, RunScript(c),
             Now(c) - bucket.last_replenished >= (2 - BucketMin) * TicksPerToken
      PROVE  served' = served + 1
  <2> DEFINE now == Now(c)
             last == Found(now).last_replenished
             tokens == Found(now).tokens_remaining
             rep == Replenishment(now)
             needed == 2 - BucketMin
  <2>1. asked[c] # Idle
    BY <1>1 DEF RunScript
  <2>2. /\ now \in Nat /\ last \in Int /\ tokens \in BucketMin..BucketMax
        /\ rep \in Nat /\ bucket = Found(now)
    BY <1>1, <2>1, ScriptFacts
  <2>3. /\ needed \in Nat /\ needed * TicksPerToken \in Nat
        /\ needed * TicksPerToken <= now - last
    <3>1. needed \in Nat /\ needed * TicksPerToken \in Nat
      BY BucketAssumption
    <3> HIDE DEF now
    <3> QED BY <1>1, <2>2, <3>1 DEF now
  <2>4. rep = (now - last) \div TicksPerToken
    <3>1. Max2(now - last, 0) = now - last
      <4> HIDE DEF now, last, needed
      <4> QED BY <2>2, <2>3 DEF Max2
    <3> QED BY <3>1 DEF Replenishment
  <2>5. needed <= rep
    <3> HIDE DEF now, last, needed, rep
    <3>1. now - last \in Int
      BY <2>2
    <3> QED BY <2>3, <2>4, <3>1, DivMonotone, BucketAssumption
  <2>6. Remaining(now) > 0
    <3>1. tokens + rep >= 2
      <4> HIDE DEF now, tokens, rep
      <4> QED BY <2>2, <2>5, BucketAssumption
    <3>2. tokens + rep \in Int
      <4> HIDE DEF now, tokens, rep
      <4> QED BY <2>2, BucketAssumption
    <3>3. Remaining(now) = Max2(Min2(tokens + rep, BucketMax) - 1, BucketMin)
      BY DEF Remaining
    <3> HIDE DEF now, tokens, rep
    <3> QED BY <1>1, <3>1, <3>2, <3>3, BucketAssumption DEF Min2, Max2
  <2> QED BY <1>1, <2>6 DEF RunScript
<1> DEFINE Restored ==
      \A c \in Callers :
        (/\ bucket # NoBucket
         /\ BucketMax >= 2
         /\ RunScript(c)
         /\ Now(c) - bucket.last_replenished >= (2 - BucketMin) * TicksPerToken)
        => served' = served + 1
<1>2. BucketInv /\ [BucketNext]_bucket_vars => [Restored]_bucket_vars
  BY <1>1
<1> QED BY <1>2, BucketInvariance, PTL DEF PauseRestores, BucketSpec

-----------------------------------------------------------------------------
(* With one clock and no delay, TokenBucket implements EagerBucket.        *)

OneClock ==
  /\ MaxDelay = 0
  /\ \A c \in Callers : Skew[c] = 0

(* A caller under way asked at the present time, and the bucket was last   *)
(* replenished at or before it.                                            *)
InTime ==
  /\ \A c \in Callers : asked[c] # Idle => asked[c] = clock
  /\ bucket # NoBucket => bucket.last_replenished <= clock

LEMMA InTimeInvariance == ASSUME OneClock PROVE BucketSpec => []InTime
<1>1. BucketInit => InTime
  BY DEF BucketInit, InTime
<1>2. BucketInv /\ InTime /\ [BucketNext]_bucket_vars => InTime'
  <2> SUFFICES ASSUME BucketInv, InTime, [BucketNext]_bucket_vars
               PROVE  InTime'
    OBVIOUS
  <2>1. CASE BucketTick
    <3>1. \A c \in Callers : asked[c] = Idle
      BY <2>1, BucketAssumption, CallersAssumption DEF BucketTick, InTime, BucketInv, BucketTypeOK, OneClock
    <3>2. bucket # NoBucket => bucket.last_replenished <= clock + 1
      BY DEF InTime, BucketInv, BucketTypeOK, Bucket
    <3> QED BY <2>1, <3>1, <3>2 DEF BucketTick, InTime
  <2>2. CASE Lose
    BY <2>2 DEF Lose, InTime
  <2>3. CASE \E c \in Callers : BucketAsk(c)
    BY <2>3 DEF BucketAsk, InTime, BucketInv, BucketTypeOK
  <2>4. CASE \E c \in Callers : BucketFail(c)
    BY <2>4 DEF BucketFail, InTime, BucketInv, BucketTypeOK
  <2>5. ASSUME NEW c \in Callers, RunScript(c)
        PROVE  InTime'
    <3>1. asked[c] # Idle /\ Now(c) = clock
      BY <2>5 DEF RunScript, InTime, OneClock, Now, BucketInv, BucketTypeOK
    <3>2. Found(clock).last_replenished <= clock
      BY <3>1 DEF Found, InTime, BucketInv, BucketTypeOK
    <3>3. Replenished(clock) <= clock
      BY <3>1, <3>2, ScriptFacts
    <3> QED BY <2>5, <3>1, <3>3 DEF RunScript, InTime, BucketInv, BucketTypeOK
  <2>6. CASE UNCHANGED bucket_vars
    BY <2>6 DEF bucket_vars, InTime
  <2> QED BY <2>1, <2>2, <2>3, <2>4, <2>5, <2>6 DEF BucketNext
<1> QED BY <1>1, <1>2, BucketInvariance, PTL DEF BucketSpec

LEMMA NextTick ==
  ASSUME NEW d \in Nat, NEW k \in Nat \ {0}
  PROVE  /\ (d % k) + 1 = k => /\ (d + 1) \div k = (d \div k) + 1
                               /\ (d + 1) % k = 0
         /\ (d % k) + 1 # k => /\ (d + 1) \div k = d \div k
                               /\ (d + 1) % k = (d % k) + 1
<1> DEFINE q == d \div k
           r == d % k
<1>1. q \in Nat /\ r \in 0..(k - 1) /\ d = q * k + r
  BY DivFacts
<1> HIDE DEF q, r
<1>2. CASE r + 1 = k
  <2>1. d + 1 = (q + 1) * k + 0
    BY <1>1, <1>2, Z3
  <2>2. q + 1 \in Nat /\ 0 \in 0..(k - 1)
    BY <1>1
  <2>3. ((q + 1) * k + 0) \div k = q + 1 /\ ((q + 1) * k + 0) % k = 0
    BY <2>2, DivUnique
  <2> QED BY <1>2, <2>1, <2>3 DEF q, r
<1>3. CASE r + 1 # k
  <2>1. d + 1 = q * k + (r + 1) /\ r + 1 \in 0..(k - 1)
    BY <1>1, <1>3
  <2>2. (q * k + (r + 1)) \div k = q /\ (q * k + (r + 1)) % k = r + 1
    BY <1>1, <2>1, DivUnique
  <2> QED BY <1>3, <2>1, <2>2 DEF q, r
<1> QED BY <1>2, <1>3 DEF q, r

LEMMA LeftOver ==
  ASSUME NEW d \in Nat, NEW k \in Nat \ {0}
  PROVE  /\ (d - (d \div k) * k) \div k = 0
         /\ (d - (d \div k) * k) % k = d % k
<1>1. d % k \in 0..(k - 1) /\ d - (d \div k) * k = 0 * k + (d % k)
  BY DivFacts
<1>2. (0 * k + (d % k)) \div k = 0 /\ (0 * k + (d % k)) % k = d % k
  BY <1>1, DivUnique
<1> QED BY <1>1, <1>2

LEMMA EagerTick ==
  ASSUME BucketInv, InTime, BucketTick, bucket # NoBucket
  PROVE  Eager!Tick
<1> DEFINE d == clock - bucket.last_replenished
           tokens == bucket.tokens_remaining
<1>1. /\ d \in Nat
      /\ tokens \in Int /\ tokens <= BucketMax
      /\ bucket' = bucket
      /\ served' = served
      /\ clock' - bucket'.last_replenished = d + 1
  BY BucketAssumption, CallersAssumption DEF BucketInv, BucketTypeOK, Accounts, InTime, Bucket, BucketTick
<1>2. /\ EagerLevel = Min2(tokens + d \div TicksPerToken, BucketMax)
      /\ EagerPhase = d % TicksPerToken
      /\ EagerLevel' = Min2(tokens + (d + 1) \div TicksPerToken, BucketMax)
      /\ EagerPhase' = (d + 1) % TicksPerToken
  BY <1>1 DEF EagerLevel, EagerPhase, Min2
<1> HIDE DEF d, tokens
<1>3. d \div TicksPerToken \in Nat
  BY <1>1, DivFacts, BucketAssumption, CallersAssumption
<1>4. CASE EagerPhase + 1 = TicksPerToken
  <2>1. /\ (d + 1) \div TicksPerToken = (d \div TicksPerToken) + 1
        /\ (d + 1) % TicksPerToken = 0
    BY <1>1, <1>2, <1>4, NextTick, BucketAssumption, CallersAssumption
  <2>2. EagerLevel' = IF EagerLevel < BucketMax THEN EagerLevel + 1 ELSE EagerLevel
    BY <1>1, <1>2, <1>3, <2>1, BucketAssumption, CallersAssumption DEF Min2
  <2> QED BY <1>1, <1>2, <1>4, <2>1, <2>2 DEF Eager!Tick
<1>5. CASE EagerPhase + 1 # TicksPerToken
  <2>1. /\ (d + 1) \div TicksPerToken = d \div TicksPerToken
        /\ (d + 1) % TicksPerToken = (d % TicksPerToken) + 1
    BY <1>1, <1>2, <1>5, NextTick, BucketAssumption, CallersAssumption
  <2> QED BY <1>1, <1>2, <1>5, <2>1 DEF Eager!Tick
<1> QED BY <1>4, <1>5

LEMMA EagerRequest ==
  ASSUME BucketInv, InTime, OneClock, NEW c \in Callers, RunScript(c)
  PROVE  Eager!Request
<1>1. asked[c] # Idle /\ Now(c) = clock
  BY DEF RunScript, InTime, OneClock, Now, BucketInv, BucketTypeOK
<1> DEFINE last == Found(clock).last_replenished
           tokens == Found(clock).tokens_remaining
           d == clock - last
           rest == Remaining(clock)
<1>2. /\ clock \in Nat
      /\ last \in Int
      /\ tokens \in BucketMin..BucketMax
      /\ bucket # NoBucket => bucket = Found(clock)
      /\ bucket = NoBucket => last = clock /\ tokens = BucketMax
      /\ Replenished(clock) = last + Replenishment(clock) * TicksPerToken
      /\ rest \in BucketMin..(BucketMax - 1)
  BY <1>1, ScriptFacts
<1>3. d \in Nat
  BY <1>2 DEF InTime
<1>4. Replenishment(clock) = d \div TicksPerToken
  BY <1>3 DEF Replenishment, Max2
<1>5. d \div TicksPerToken \in Nat
  BY <1>3, DivFacts, BucketAssumption, CallersAssumption
<1>6. /\ bucket' = [last_replenished |-> Replenished(clock),
                    tokens_remaining |-> rest]
      /\ clock' = clock
      /\ served' = IF rest > 0 THEN served + 1 ELSE served
  BY <1>1 DEF RunScript
<1>7. Replenished(clock) \in Int
  <2> HIDE DEF last, d
  <2> QED BY <1>2, <1>4, <1>5, BucketAssumption, CallersAssumption
<1>8. bucket' # NoBucket
  BY <1>2, <1>6, <1>7, BucketAssumption, CallersAssumption
<1>9. clock' - bucket'.last_replenished = d - (d \div TicksPerToken) * TicksPerToken
  <2>1. bucket'.last_replenished = last + (d \div TicksPerToken) * TicksPerToken
    BY <1>2, <1>4, <1>6
  <2>2. (d \div TicksPerToken) * TicksPerToken \in Int
    BY <1>5, BucketAssumption, CallersAssumption
  <2>3. ASSUME NEW m \in Int PROVE clock - (last + m) = d - m
    BY <1>2
  <2> QED BY <1>6, <2>1, <2>2, <2>3
<1>10. EagerPhase' = d % TicksPerToken /\ EagerLevel' = rest
  <2>1. EagerPhase' = d % TicksPerToken
    BY <1>3, <1>8, <1>9, LeftOver, BucketAssumption, CallersAssumption DEF EagerPhase
  <2>2. (clock' - bucket'.last_replenished) \div TicksPerToken = 0
    BY <1>3, <1>9, LeftOver, BucketAssumption, CallersAssumption
  <2>3. EagerLevel' = Min2(rest + 0, BucketMax)
    BY <1>6, <1>8, <2>2 DEF EagerLevel, Min2
  <2> HIDE DEF rest
  <2>4. Min2(rest + 0, BucketMax) = rest
    BY <1>2, BucketAssumption, CallersAssumption DEF Min2
  <2> QED BY <2>1, <2>3, <2>4
<1>11. EagerLevel = Min2(tokens + d \div TicksPerToken, BucketMax)
  <2>1. CASE bucket = NoBucket
    <3>1. d = 0 /\ tokens = BucketMax /\ EagerLevel = BucketMax
      BY <1>2, <2>1 DEF EagerLevel
    <3> HIDE DEF d, tokens
    <3> QED BY <1>5, <3>1, BucketAssumption, CallersAssumption DEF Min2
  <2>2. CASE bucket # NoBucket
    BY <1>2, <2>2 DEF EagerLevel
  <2> QED BY <2>1, <2>2
<1>12. EagerPhase' = EagerPhase
  <2>1. CASE bucket = NoBucket
    <3>1. d = 0 /\ EagerPhase = 0
      BY <1>2, <2>1 DEF EagerPhase
    <3> QED BY <1>10, <3>1, BucketAssumption, CallersAssumption
  <2>2. CASE bucket # NoBucket
    BY <1>2, <1>10, <2>2 DEF EagerPhase
  <2> QED BY <2>1, <2>2
<1>13. rest = IF EagerLevel > BucketMin THEN EagerLevel - 1 ELSE BucketMin
  <2>1. rest = Max2(Min2(tokens + d \div TicksPerToken, BucketMax) - 1, BucketMin)
    BY <1>4 DEF Remaining
  <2>2. EagerLevel \in Int
    <3> HIDE DEF d, tokens
    <3> QED BY <1>2, <1>5, <1>11, BucketAssumption, CallersAssumption DEF Min2
  <2>3. rest = Max2(EagerLevel - 1, BucketMin)
    BY <1>11, <2>1
  <2> HIDE DEF rest
  <2> QED BY <2>2, <2>3, BucketAssumption, CallersAssumption DEF Max2
<1> QED
  <2> HIDE DEF rest
  <2> QED BY <1>6, <1>8, <1>10, <1>12, <1>13 DEF Eager!Request

(* The lazy bucket implements the eager one.                               *)
THEOREM EagerRefinement == ASSUME OneClock PROVE BucketSpec => ImplementsEagerBucket
<1>1. BucketInit => Eager!Init
  BY DEF BucketInit, Eager!Init, EagerLevel, EagerPhase
<1>2. BucketInv /\ InTime /\ [BucketNext]_bucket_vars => [Eager!Next]_Eager!vars
  <2> SUFFICES ASSUME BucketInv, InTime, [BucketNext]_bucket_vars
               PROVE  Eager!Next \/ UNCHANGED Eager!vars
    BY DEF Eager!vars
  <2>1. CASE BucketTick
    <3>1. CASE bucket = NoBucket
      BY <2>1, <3>1 DEF BucketTick, Eager!vars, EagerLevel, EagerPhase
    <3>2. CASE bucket # NoBucket
      BY <2>1, <3>2, EagerTick DEF Eager!Next
    <3> QED BY <3>1, <3>2
  <2>2. CASE Lose
    BY <2>2 DEF Lose, Eager!Next, Eager!Reset, EagerLevel, EagerPhase
  <2>3. CASE \E c \in Callers : BucketAsk(c) \/ BucketFail(c)
    BY <2>3 DEF BucketAsk, BucketFail, Eager!vars, EagerLevel, EagerPhase
  <2>4. CASE \E c \in Callers : RunScript(c)
    BY <2>4, EagerRequest DEF Eager!Next
  <2>5. CASE UNCHANGED bucket_vars
    BY <2>5 DEF bucket_vars, Eager!vars, EagerLevel, EagerPhase
  <2> QED BY <2>1, <2>2, <2>3, <2>4, <2>5 DEF BucketNext
<1>3. BucketSpec => []InTime
  BY InTimeInvariance
<1> QED BY <1>1, <1>2, <1>3, BucketInvariance, PTL
        DEF BucketSpec, ImplementsEagerBucket, Eager!Spec

-----------------------------------------------------------------------------
(* The sliding window.                                                     *)

LEMMA TimesFinite == IsFiniteSet(Times)
  BY FS_Interval, WindowAssumption, CallersAssumption DEF Times

LEMMA CardinalityOfPart ==
  ASSUME NEW T \in SUBSET Times, NEW S \in SUBSET T
  PROVE  /\ IsFiniteSet(S) /\ IsFiniteSet(T)
         /\ Cardinality(S) \in Nat
         /\ Cardinality(T) \in Nat
         /\ Cardinality(S) <= Cardinality(T)
  BY TimesFinite, FS_Subset, FS_CardinalityType

-----------------------------------------------------------------------------
(* The inductive invariant.  WindowRateIsLimited is about the requests admitted,   *)
(* and the code counts a sorted set: what ties them is how old a request   *)
(* must be for the set to have forgotten it, by the clock and not by the   *)
(* requests' own timestamps.                                               *)

(* Requests under way read their clock at most MaxDelay ago.               *)
AskedLately ==
  \A c \in Callers : asked[c] # Idle => asked[c] \in (clock - MaxDelay)..clock

(* No timestamp comes from the future, but for the skew of its clock, and  *)
(* the key outlives each by an Interval.                                   *)
NotAhead ==
  \A t \in recorded : t <= clock + MaxSkew /\ t <= key_expires - Interval + MaxSkew

(* The sorted set has forgotten no request but old ones.                   *)
Remembered ==
  \A t \in recorded : t \in zset \/ t <= clock + MaxSkew - Interval

(* And it holds nothing but requests.                                      *)
Genuine ==
  /\ zset \subseteq recorded
  /\ AdmittedTimes \subseteq recorded

WindowInv == WindowTypeOK /\ AskedLately /\ NotAhead /\ Remembered /\ Genuine

LEMMA WindowInitInvariant == WindowInit => WindowInv
  BY WindowAssumption, CallersAssumption
  DEF WindowInit, WindowInv, WindowTypeOK, AskedLately, NotAhead, Remembered, Genuine,
      AdmittedTimes

LEMMA WhenFacts ==
  ASSUME WindowTypeOK, AskedLately, NEW c \in Callers, asked[c] # Idle
  PROVE  /\ When(c) \in Times
         /\ When(c) >= clock - MaxDelay
         /\ When(c) <= clock + MaxSkew
         /\ asked[c] \in 0..MaxClock
  BY WindowAssumption, CallersAssumption DEF WindowTypeOK, AskedLately, When, Times

LEMMA ExecuteInvariant ==
  ASSUME WindowInv, NEW c \in Callers, asked[c] # Idle, Execute(c),
         asked' = [asked EXCEPT ![c] = Idle], UNCHANGED clock,
         admitted' \in [Times -> 0..MaxTies],
         \A t \in Times : admitted'[t] > 0 => admitted[t] > 0 \/ t = When(c)
  PROVE  WindowInv'
<1> USE WindowAssumption, CallersAssumption DEF WindowInv
<1>1. When(c) \in Times /\ When(c) <= clock + MaxSkew
  BY WhenFacts
<1>2. zset' = {t \in zset \cup {When(c)} : t > When(c) - Interval}
  BY DEF Execute, Counted
<1>3. key_expires' = clock + Interval /\ recorded' = recorded \cup {When(c)}
  BY DEF Execute
<1>4. WindowTypeOK'
  BY <1>1, <1>2, <1>3 DEF WindowTypeOK
<1>5. AskedLately'
  BY DEF AskedLately, WindowTypeOK
<1>6. NotAhead'
  BY <1>1, <1>3 DEF NotAhead, WindowTypeOK, Times
<1>7. Remembered'
  <2> SUFFICES ASSUME NEW t \in recorded', t \notin zset'
               PROVE  t <= clock + MaxSkew - Interval
    BY DEF Remembered
  <2>1. t \in Int /\ clock \in Int /\ When(c) \in Int
    BY <1>1, <1>3 DEF WindowTypeOK, Times
  <2>2. CASE t \in zset \cup {When(c)}
    BY <2>2, <2>1, <1>1, <1>2
  <2>3. CASE t \notin zset \cup {When(c)}
    BY <2>3, <1>3 DEF Remembered
  <2> QED BY <2>2, <2>3
<1>8. Genuine'
  BY <1>1, <1>2, <1>3 DEF Genuine, AdmittedTimes
<1> QED BY <1>4, <1>5, <1>6, <1>7, <1>8

LEMMA WindowStepInvariant == WindowInv /\ [WindowNext]_window_vars => WindowInv'
<1> SUFFICES ASSUME WindowInv, [WindowNext]_window_vars PROVE WindowInv'
  OBVIOUS
<1> USE WindowAssumption, CallersAssumption
<1>1. CASE WindowTick
  <2>1. clock' = clock + 1 /\ clock < MaxClock /\ key_expires' = key_expires
        /\ recorded' = recorded /\ admitted' = admitted /\ asked' = asked
    BY <1>1 DEF WindowTick
  <2>2. clock \in Nat /\ key_expires \in Nat /\ recorded \subseteq Int
    BY DEF WindowInv, WindowTypeOK, Times
  <2>3. CASE clock' >= key_expires
    <3>1. zset' = {}
      BY <1>1, <2>3 DEF WindowTick
    <3>2. \A t \in recorded : t <= clock' + MaxSkew - Interval
      BY <2>1, <2>2, <2>3 DEF WindowInv, NotAhead
    <3>3. WindowTypeOK' /\ NotAhead' /\ Remembered' /\ Genuine'
      BY <2>1, <2>2, <3>1, <3>2
      DEF WindowInv, WindowTypeOK, NotAhead, Remembered, Genuine, AdmittedTimes
    <3> QED BY <3>3, <2>1, <1>1 DEF WindowInv, AskedLately, WindowTypeOK, WindowTick
  <2>4. CASE ~(clock' >= key_expires)
    <3>1. zset' = zset
      BY <1>1, <2>4 DEF WindowTick
    <3>2. WindowTypeOK' /\ NotAhead' /\ Remembered' /\ Genuine'
      BY <2>1, <2>2, <3>1
      DEF WindowInv, WindowTypeOK, NotAhead, Remembered, Genuine, AdmittedTimes
    <3> QED BY <3>2, <2>1, <1>1 DEF WindowInv, AskedLately, WindowTypeOK, WindowTick
  <2> QED BY <2>3, <2>4
<1>2. ASSUME NEW c \in Callers, WindowAsk(c) PROVE WindowInv'
  BY <1>2
  DEF WindowAsk, WindowInv, WindowTypeOK, AskedLately, NotAhead, Remembered, Genuine,
      AdmittedTimes
<1>3. ASSUME NEW c \in Callers, Answer(c) PROVE WindowInv'
  <2>1. When(c) \in Times
    BY <1>3, WhenFacts DEF WindowInv, Answer
  <2>2. /\ admitted' \in [Times -> 0..MaxTies]
        /\ \A t \in Times : admitted'[t] > 0 => admitted[t] > 0 \/ t = When(c)
    <3>1. CASE admitted' = admitted
      BY <3>1 DEF WindowInv, WindowTypeOK
    <3>2. CASE admitted' = [admitted EXCEPT ![When(c)] =
                            IF @ < MaxTies THEN @ + 1 ELSE @]
      BY <3>2, <2>1 DEF WindowInv, WindowTypeOK
    <3> QED BY <1>3, <3>1, <3>2 DEF Answer
  <2> QED BY <1>3, <2>2, ExecuteInvariant DEF Answer
<1>4. ASSUME NEW c \in Callers, WindowFail(c) PROVE WindowInv'
  <2>1. CASE Execute(c)
    BY <1>4, <2>1, ExecuteInvariant DEF WindowFail, WindowInv, WindowTypeOK
  <2>2. CASE UNCHANGED <<zset, key_expires, recorded>>
    BY <1>4, <2>2
    DEF WindowFail, WindowInv, WindowTypeOK, AskedLately, NotAhead, Remembered, Genuine,
        AdmittedTimes
  <2> QED BY <1>4, <2>1, <2>2 DEF WindowFail
<1>5. CASE UNCHANGED window_vars
  BY <1>5
  DEF window_vars, WindowInv, WindowTypeOK, AskedLately, NotAhead, Remembered, Genuine,
      AdmittedTimes
<1> QED BY <1>1, <1>2, <1>3, <1>4, <1>5 DEF WindowNext

LEMMA WindowInvariance == WindowSpec => []WindowInv
  BY WindowInitInvariant, WindowStepInvariant, PTL DEF WindowSpec

(* The variables of SlidingWindow hold what they should.                   *)
THEOREM WindowTypes == WindowSpec => []WindowTypeOK
  BY WindowInvariance, PTL DEF WindowInv

-----------------------------------------------------------------------------
(* Whom the pipeline refuses.                                              *)

LEMMA CountedFacts ==
  ASSUME WindowInv, NEW c \in Callers, asked[c] # Idle
  PROVE  /\ When(c) \in Times
         /\ Counted(When(c)) \in SUBSET Times
         /\ When(c) \in Counted(When(c))
         /\ \A t \in recorded \cup {When(c)} :
              t > When(c) - (Interval - Slack) => t \in Counted(When(c))
         /\ \A t \in Counted(When(c)) :
              t \in recorded \cup {When(c)} /\ t > When(c) - Interval
<1> USE WindowAssumption, CallersAssumption
<1>1. /\ When(c) \in Times
      /\ When(c) >= clock - MaxDelay
      /\ When(c) <= clock + MaxSkew
  BY WhenFacts DEF WindowInv
<1>2. recorded \subseteq Times /\ zset \subseteq Times /\ clock \in Nat
  BY DEF WindowInv, WindowTypeOK
<1>3. Counted(When(c)) \in SUBSET Times /\ When(c) \in Counted(When(c))
  <2>1. When(c) \in Int /\ When(c) > When(c) - Interval
    BY <1>1 DEF Times
  <2> QED BY <1>1, <1>2, <2>1 DEF Counted
<1>4. ASSUME NEW t \in recorded \cup {When(c)},
             t > When(c) - (Interval - Slack)
      PROVE  t \in Counted(When(c))
  <2>1. t \in Nat /\ When(c) \in Nat
    BY <1>1, <1>2 DEF Times
  <2>2. t > clock + MaxSkew - Interval /\ t > When(c) - Interval
    BY <1>1, <1>2, <1>4, <2>1 DEF Slack
  <2>3. t \in zset \/ t = When(c)
    BY <1>2, <2>1, <2>2 DEF WindowInv, Remembered
  <2> QED BY <2>2, <2>3 DEF Counted
<1>5. ASSUME NEW t \in Counted(When(c))
      PROVE  t \in recorded \cup {When(c)} /\ t > When(c) - Interval
  BY <1>5 DEF Counted, WindowInv, Genuine
<1> QED BY <1>1, <1>3, <1>4, <1>5

(* DecidedByTheInterval: requests are refused if there were Limit others,  *)
(* whatever their answers, and only then.                                  *)
THEOREM Decision == WindowSpec => []DecidedByTheInterval
<1>1. WindowInv => DecidedByTheInterval
  <2> SUFFICES ASSUME WindowInv, NEW c \in Callers, asked[c] # Idle
               PROVE  LET others(age) ==
                            {t \in recorded \ {When(c)} : t > When(c) - age}
                      IN /\ Cardinality(others(Interval - Slack)) >= Limit
                              => Refused(When(c))
                         /\ Cardinality(others(Interval)) < Limit
                              => ~Refused(When(c))
    BY DEF DecidedByTheInterval
  <2> DEFINE others(age) == {t \in recorded \ {When(c)} : t > When(c) - age}
             C == Counted(When(c))
             Rest == C \ {When(c)}
  <2>1. /\ C \in SUBSET Times /\ When(c) \in C
        /\ others(Interval - Slack) \subseteq Rest
        /\ Rest \subseteq others(Interval)
        /\ others(Interval) \subseteq Times
    BY CountedFacts DEF WindowInv, WindowTypeOK
  <2> HIDE DEF others, C
  <2>2. Cardinality(Rest) = Cardinality(C) - 1 /\ Cardinality(C) \in Nat
    BY <2>1, CardinalityOfPart, FS_RemoveElement
  <2>3. /\ Cardinality(others(Interval - Slack)) <= Cardinality(Rest)
        /\ Cardinality(others(Interval - Slack)) \in Nat
    <3>1. Rest \in SUBSET Times
      BY <2>1
    <3> QED BY <2>1, <3>1, CardinalityOfPart
  <2>4. /\ Cardinality(Rest) <= Cardinality(others(Interval))
        /\ Cardinality(others(Interval)) \in Nat
    BY <2>1, CardinalityOfPart
  <2>5. Refused(When(c)) <=> Cardinality(C) > Limit
    BY DEF Refused, C
  <2>6. /\ Cardinality(others(Interval - Slack)) >= Limit => Refused(When(c))
        /\ Cardinality(others(Interval)) < Limit => ~Refused(When(c))
    BY <2>2, <2>3, <2>4, <2>5, WindowAssumption, CallersAssumption
  <2> QED BY <2>6 DEF others
<1> QED BY <1>1, WindowInvariance, PTL

-----------------------------------------------------------------------------
(* The limit.                                                              *)

Window(w) == {t \in AdmittedTimes : w - (Interval - Slack) < t /\ t <= w}

LEMMA AnswerKeepsTheLimit ==
  ASSUME WindowInv, WindowRateIsLimited, NEW c \in Callers, Answer(c)
  PROVE  WindowRateIsLimited'
<1> USE WindowAssumption, CallersAssumption
<1>1. asked[c] # Idle
  BY DEF Answer
<1>2. CASE Refused(When(c)) /\ UNCHANGED admitted
  BY <1>2 DEF WindowRateIsLimited, AdmittedTimes
<1>3. CASE /\ ~Refused(When(c))
           /\ admitted' = [admitted EXCEPT ![When(c)] =
                           IF @ < MaxTies THEN @ + 1 ELSE @]
  <2>1. When(c) \in Times /\ admitted \in [Times -> 0..MaxTies]
    BY <1>1, CountedFacts DEF WindowInv, WindowTypeOK
  <2>2. AdmittedTimes' \subseteq AdmittedTimes \cup {When(c)}
    BY <1>3, <2>1 DEF AdmittedTimes
  <2> SUFFICES ASSUME NEW w \in Times
               PROVE  Cardinality(Window(w)') <= Limit
    BY DEF WindowRateIsLimited, Window
  <2>3. CASE When(c) \in Window(w)'
    <3>1. When(c) <= w /\ w \in Int /\ When(c) \in Int /\ Interval - Slack \in Int
      BY <2>1, <2>3 DEF Window, Times, Slack
    <3>2. Window(w)' \subseteq Counted(When(c))
      <4> SUFFICES ASSUME NEW t \in Window(w)' PROVE t \in Counted(When(c))
        OBVIOUS
      <4>1. t \in recorded \cup {When(c)} /\ t > w - (Interval - Slack)
            /\ t \in Int
        BY <2>2 DEF Window, WindowInv, Genuine, AdmittedTimes, Times
      <4>2. t > When(c) - (Interval - Slack)
        BY <3>1, <4>1
      <4> QED BY <1>1, <4>1, <4>2, CountedFacts
    <3>3. Cardinality(Window(w)') <= Cardinality(Counted(When(c)))
      BY <1>1, <3>2, CountedFacts, CardinalityOfPart
    <3>4. /\ Cardinality(Counted(When(c))) <= Limit
          /\ Cardinality(Window(w)') \in Nat
          /\ Cardinality(Counted(When(c))) \in Nat
      BY <1>1, <1>3, <3>2, CountedFacts, CardinalityOfPart DEF Refused
    <3> QED BY <3>3, <3>4
  <2>4. CASE When(c) \notin Window(w)'
    <3>1. Window(w)' \subseteq Window(w) /\ Window(w) \in SUBSET Times
      BY <2>2, <2>4 DEF Window, AdmittedTimes
    <3>2. /\ Cardinality(Window(w)') <= Cardinality(Window(w))
          /\ Cardinality(Window(w)') \in Nat
          /\ Cardinality(Window(w)) \in Nat
      BY <3>1, CardinalityOfPart
    <3>3. Cardinality(Window(w)) <= Limit
      BY DEF WindowRateIsLimited, Window
    <3> QED BY <3>2, <3>3
  <2> QED BY <2>3, <2>4
<1> QED BY <1>2, <1>3 DEF Answer

(* WindowRateIsLimited: in every window of the interval, less Slack, no more     *)
(* than Limit timestamps are admitted.                                       *)
THEOREM SlidingRateLimit == WindowSpec => []WindowRateIsLimited
<1>1. WindowInit => WindowRateIsLimited
  <2> SUFFICES ASSUME WindowInit, NEW w \in Times
               PROVE  Cardinality({t \in AdmittedTimes :
                         w - (Interval - Slack) < t /\ t <= w}) <= Limit
    BY DEF WindowRateIsLimited
  <2>1. {t \in AdmittedTimes : w - (Interval - Slack) < t /\ t <= w} = {}
    BY DEF WindowInit, AdmittedTimes
  <2> QED BY <2>1, FS_EmptySet, WindowAssumption, CallersAssumption
<1>2. WindowInv /\ WindowRateIsLimited /\ [WindowNext]_window_vars => WindowRateIsLimited'
  <2> SUFFICES ASSUME WindowInv, WindowRateIsLimited, [WindowNext]_window_vars PROVE WindowRateIsLimited'
    OBVIOUS
  <2>1. ASSUME NEW c \in Callers, Answer(c) PROVE WindowRateIsLimited'
    BY <2>1, AnswerKeepsTheLimit
  <2>2. CASE UNCHANGED admitted
    BY <2>2 DEF WindowRateIsLimited, AdmittedTimes
  <2>3. CASE WindowTick \/ (\E c \in Callers : WindowAsk(c) \/ WindowFail(c)) \/ UNCHANGED window_vars
    BY <2>2, <2>3 DEF WindowTick, WindowAsk, WindowFail, window_vars
  <2> QED BY <2>1, <2>3 DEF WindowNext
<1> QED BY <1>1, <1>2, WindowInvariance, PTL DEF WindowSpec

-----------------------------------------------------------------------------
(* The request cache.                                                      *)

(* An update never settles more than the database has.                     *)
SettledIsCommitted ==
  /\ \A k \in Keys : settled[k] <= db[k]
  /\ \A c \in Contexts : pc[c] = "delete2" =>
       \A k \in args[c] : seen[c][k] <= db[k]

(* An entry that is older than a returned update landed after it.          *)
OldEntriesAreLate ==
  \A k \in Keys : store[k] # NoEntry =>
    store[k].late \/ store[k].version >= settled[k]

(* What a read owes, at each of its steps.                                 *)
KeepsUp(c) ==
  /\ pc[c] \in {"get", "call", "set"} =>
       \A x \in args[c], y \in args[c] : x = y
  /\ pc[c] \in {"get", "call"} =>
       \A k \in args[c] : floor[c][k] <= settled[k]
  /\ pc[c] \in {"idle", "delete1", "api", "delete2"} =>
       \A k \in Keys : floor[c][k] = 0
  /\ pc[c] \in {"set", "returned"} =>
       \A k \in args[c] : excused[c] \/ seen[c][k] >= floor[c][k]

ReadsKeepUp == \A c \in Contexts : KeepsUp(c)

(* A context that waited is flakey.                                        *)
WaitingIsNoticed ==
  \A c \in Contexts : waits[c] <= 1 /\ (waits[c] = 1 => flakey[c])

IInv ==
  /\ TypeOK
  /\ SettledIsCommitted
  /\ OldEntriesAreLate
  /\ ReadsKeepUp
  /\ DeletedBeforeUpdated
  /\ WaitingIsNoticed

LEMMA InitInvariant == Init => IInv
BY ConstantsAssumption
   DEF Init, IInv, TypeOK, SettledIsCommitted, OldEntriesAreLate, ReadsKeepUp,
       KeepsUp, DeletedBeforeUpdated, WaitingIsNoticed, Versions, Steps, Entry

-----------------------------------------------------------------------------
(* The steps of a call, one lemma for the read, one for the update.        *)

LEMMA MeetType ==
  ASSUME TypeOK, NEW c \in Contexts, NEW e, Meet(c, e)
  PROVE  deadline' \in [Contexts -> {"none", "soft", "hard"}]
BY DEF TypeOK, Meet, SoftEventletTimeout, HardEventletTimeout

(* A skippable call that runs into an exception.                           *)
LEMMA SkippableException ==
  ASSUME IInv, NEW c \in Contexts, NEW e, HandleException(c, e, TRUE), ~Skips(c)
  PROVE  /\ deadline' \in [Contexts -> {"none", "soft", "hard"}]
         /\ flakey' \in [Contexts -> BOOLEAN]
         /\ waits' \in [Contexts -> 0..2]
         /\ WaitingIsNoticed'
<1>1. deadline' \in [Contexts -> {"none", "soft", "hard"}]
  BY MeetType DEF IInv, HandleException
<1>2. MarksFlakey(e) \in BOOLEAN
  BY DEF MarksFlakey
<1>3. flakey' \in [Contexts -> BOOLEAN]
  BY <1>2 DEF IInv, TypeOK, HandleException
<1>4. ~flakey[c] /\ waits[c] = 0
  BY DEF IInv, TypeOK, WaitingIsNoticed, Skips
<1>5. waits' = [waits EXCEPT ![c] = IF MarksFlakey(e) THEN 1 ELSE 0]
  <2>1. CASE MarksFlakey(e)
    BY <1>4, <2>1 DEF HandleException, IInv, TypeOK
  <2>2. CASE ~MarksFlakey(e)
    <3>1. waits' = [waits EXCEPT ![c] = waits[c]]
      BY <2>2 DEF HandleException
    <3> QED BY <1>4, <2>2, <3>1
  <2> QED BY <2>1, <2>2
<1>6. flakey' = [flakey EXCEPT ![c] = MarksFlakey(e)]
  BY <1>2, <1>4 DEF HandleException, IInv, TypeOK
<1> QED BY <1>1, <1>2, <1>3, <1>5, <1>6 DEF IInv, TypeOK, WaitingIsNoticed

(* A call that is never skipped.                                           *)
LEMMA OtherException ==
  ASSUME IInv, NEW c \in Contexts, NEW e, HandleException(c, e, FALSE)
  PROVE  /\ deadline' \in [Contexts -> {"none", "soft", "hard"}]
         /\ flakey' \in [Contexts -> BOOLEAN]
         /\ waits' \in [Contexts -> 0..2]
         /\ WaitingIsNoticed'
<1>1. deadline' \in [Contexts -> {"none", "soft", "hard"}]
  BY MeetType DEF IInv, HandleException
<1>2. MarksFlakey(e) \in BOOLEAN
  BY DEF MarksFlakey
<1>3. waits[c] \in 0..1
  BY DEF IInv, TypeOK, WaitingIsNoticed
<1>4. CASE MarksFlakey(e)
  <2>1. waits' = [waits EXCEPT ![c] = 1] /\ flakey' = [flakey EXCEPT ![c] = TRUE]
    <3>1. waits' = [waits EXCEPT ![c] = IF waits[c] = 0 THEN 1 ELSE waits[c]]
      BY <1>4 DEF HandleException
    <3>2. flakey' = [flakey EXCEPT ![c] = TRUE]
      BY <1>4 DEF HandleException
    <3>3. (IF waits[c] = 0 THEN 1 ELSE waits[c]) = 1
      BY <1>3
    <3> QED BY <3>1, <3>2, <3>3
  <2> QED BY <1>1, <2>1 DEF IInv, TypeOK, WaitingIsNoticed
<1>5. CASE ~MarksFlakey(e)
  <2>1. waits' = [waits EXCEPT ![c] = waits[c]]
    BY <1>5 DEF HandleException
  <2>2. flakey' = [flakey EXCEPT ![c] = flakey[c]]
    BY <1>5 DEF HandleException, IInv, TypeOK
  <2> QED BY <1>1, <2>1, <2>2 DEF IInv, TypeOK, WaitingIsNoticed
<1> QED BY <1>4, <1>5

(* The reads of other contexts are not disturbed.                          *)
LEMMA OthersKeepUp ==
  ASSUME IInv, NEW c \in Contexts, NEW x \in Contexts, x # c,
         pc'[x] = pc[x], args'[x] = args[x], seen'[x] = seen[x],
         floor'[x] = floor[x], excused'[x] = excused[x],
         UNCHANGED settled
  PROVE  KeepsUp(x)'
BY DEF IInv, ReadsKeepUp, KeepsUp

(* A SET that redis runs, whoever sent it.                                 *)
LEMMA SetRun ==
  ASSUME IInv, NEW k \in Keys, NEW v \in Versions, RunSet(k, v),
         UNCHANGED settled
  PROVE  /\ store' \in [Keys -> Entry \cup {NoEntry}]
         /\ refilled' \in [Contexts -> SUBSET Keys]
         /\ OldEntriesAreLate'
         /\ \A c \in Active : pc[c] = "api" =>
              \A x \in args[c] : store'[x] # NoEntry => x \in refilled'[c]
<1>1. NewEntry(k, v) \in Entry
  BY ConstantsAssumption DEF IInv, TypeOK, NewEntry, Entry, Versions
<1>2. NewEntry(k, v).late \/ NewEntry(k, v).version >= settled[k]
  <2>1. CASE v < settled[k]
    BY <2>1 DEF NewEntry
  <2>2. CASE ~(v < settled[k])
    BY <2>2, ConstantsAssumption DEF IInv, TypeOK, NewEntry, Versions
  <2> QED BY <2>1, <2>2
<1>3. store' = [store EXCEPT ![k] = NewEntry(k, v)]
  BY DEF RunSet
<1>4. store' \in [Keys -> Entry \cup {NoEntry}]
  BY <1>1, <1>3 DEF IInv, TypeOK
<1>5. refilled' \in [Contexts -> SUBSET Keys]
  BY DEF RunSet, IInv, TypeOK
<1>6. OldEntriesAreLate'
  BY <1>2, <1>3 DEF IInv, TypeOK, OldEntriesAreLate
<1>7. ASSUME NEW c \in Active, pc[c] = "api",
             NEW x \in args[c], store'[x] # NoEntry
      PROVE  x \in refilled'[c]
  BY <1>3, <1>7, ConstantsAssumption
     DEF RunSet, IInv, TypeOK, DeletedBeforeUpdated
<1> QED BY <1>4, <1>5, <1>6, <1>7

LEMMA ReadStep ==
  ASSUME IInv, NEW c \in Contexts, Read(c)
  PROVE  IInv'
<1> USE ConstantsAssumption
    DEF IInv, TypeOK, SettledIsCommitted, OldEntriesAreLate, ReadsKeepUp,
        KeepsUp, DeletedBeforeUpdated, WaitingIsNoticed, Goto, history,
        Versions, Steps
<1>1. CASE \E k \in Keys : BeginRead(c, k)
  BY <1>1 DEF BeginRead
<1>2. CASE GetSkipped(c)
  BY <1>2 DEF GetSkipped
<1>3. CASE GetAnswered(c)
  <2>1. PICK k \in args[c] :
          \/ /\ store[k] = NoEntry
             /\ Goto(c, "call")
             /\ UNCHANGED <<seen, excused>>
          \/ /\ store[k] # NoEntry
             /\ Goto(c, "returned")
             /\ seen' = [seen EXCEPT ![c][k] = store[k].version]
             /\ excused' = [excused EXCEPT ![c] = store[k].late]
    BY <1>3 DEF GetAnswered
  <2>2. CASE store[k] = NoEntry
    <3>1. Goto(c, "call") /\ UNCHANGED <<seen, excused>>
      BY <2>1, <2>2
    <3>2. TypeOK'
      BY <1>3, <3>1 DEF GetAnswered
    <3>3. ReadsKeepUp'
      BY <1>3, <3>1 DEF GetAnswered
    <3>4. SettledIsCommitted' /\ OldEntriesAreLate'
      BY <1>3, <3>1 DEF GetAnswered
    <3>5. DeletedBeforeUpdated' /\ WaitingIsNoticed'
      BY <1>3, <3>1 DEF GetAnswered
    <3> QED BY <3>2, <3>3, <3>4, <3>5
  <2>3. CASE store[k] # NoEntry
    <3>1. store[k].version \in 0..MaxVersion /\ store[k].late \in BOOLEAN
      BY <2>3 DEF Entry
    <3>2. args[c] = {k}
      BY <1>3 DEF GetAnswered
    <3>3. excused'[c] \/ seen'[c][k] >= floor[c][k]
      BY <1>3, <2>1, <2>3, <3>1 DEF GetAnswered
    <3>4. TypeOK'
      <4>1. seen' \in [Contexts -> [Keys -> 0..MaxVersion]]
        <5>1. seen' = [seen EXCEPT ![c][k] = store[k].version]
          BY <2>1, <2>3
        <5>2. seen \in [Contexts -> [Keys -> 0..MaxVersion]]
          OBVIOUS
        <5>3. ASSUME NEW v \in 0..MaxVersion
              PROVE  [seen EXCEPT ![c][k] = v] \in [Contexts -> [Keys -> 0..MaxVersion]]
          BY <5>2
        <5> QED BY <3>1, <5>1, <5>3
      <4>2. excused' \in [Contexts -> BOOLEAN]
        BY <2>1, <2>3, <3>1
      <4>3. pc' \in [Contexts -> Steps]
        BY <2>1, <2>3
      <4> QED BY <1>3, <4>1, <4>2, <4>3 DEF GetAnswered
    <3>5. ReadsKeepUp'
      <4>1. \A x \in Contexts : x # c => KeepsUp(x)'
        <5> USE DEF GetAnswered
        <5> HIDE DEF KeepsUp
        <5> QED BY <1>3, <2>1, <2>3, OthersKeepUp
      <4>2. KeepsUp(c)'
        <5>1. pc'[c] = "returned" /\ args'[c] = {k} /\ floor' = floor
          BY <1>3, <2>1, <2>3, <3>2 DEF GetAnswered
        <5> QED BY <3>3, <5>1
      <4> HIDE DEF KeepsUp
      <4> QED BY <4>1, <4>2
    <3>6. SettledIsCommitted'
      BY <1>3, <2>1, <2>3 DEF GetAnswered
    <3>7. OldEntriesAreLate'
      BY <1>3, <2>1, <2>3 DEF GetAnswered
    <3>8. DeletedBeforeUpdated'
      BY <1>3, <2>1, <2>3 DEF GetAnswered
    <3>9. WaitingIsNoticed'
      BY <1>3, <2>1, <2>3 DEF GetAnswered
    <3> QED BY <3>4, <3>5, <3>6, <3>7, <3>8, <3>9
  <2> QED BY <2>2, <2>3
<1>4. CASE CallAnswered(c)
  BY <1>4 DEF CallAnswered
<1>5. CASE SetSkipped(c)
  BY <1>5 DEF SetSkipped
<1>6. CASE SetAnswered(c)
  <2>1. PICK k \in args[c] : RunSet(k, seen[c][k])
    BY <1>6 DEF SetAnswered
  <2>2. k \in Keys /\ seen[c][k] \in 0..MaxVersion /\ UNCHANGED settled
    BY <1>6 DEF SetAnswered
  <2>3. /\ store' \in [Keys -> Entry \cup {NoEntry}]
        /\ refilled' \in [Contexts -> SUBSET Keys]
        /\ OldEntriesAreLate'
        /\ \A x \in Active : pc[x] = "api" =>
             \A y \in args[x] : store'[y] # NoEntry => y \in refilled'[x]
    BY <2>1, <2>2, SetRun
  <2>4. TypeOK'
    BY <1>6, <2>3 DEF SetAnswered
  <2>5. ReadsKeepUp'
    BY <1>6 DEF SetAnswered
  <2>6. SettledIsCommitted' /\ WaitingIsNoticed'
    BY <1>6 DEF SetAnswered
  <2>7. DeletedBeforeUpdated'
    BY <1>6, <2>3 DEF SetAnswered
  <2> QED BY <2>3, <2>4, <2>5, <2>6, <2>7
<1>7. ASSUME NEW e \in Faults, GetFailed(c, e)
      PROVE  IInv'
  <2>1. /\ deadline' \in [Contexts -> {"none", "soft", "hard"}]
        /\ flakey' \in [Contexts -> BOOLEAN]
        /\ waits' \in [Contexts -> 0..2]
        /\ WaitingIsNoticed'
    BY <1>7, SkippableException DEF GetFailed
  <2>2. TypeOK'
    BY <1>7, <2>1 DEF GetFailed
  <2>3. SettledIsCommitted' /\ OldEntriesAreLate' /\ DeletedBeforeUpdated'
    BY <1>7 DEF GetFailed
  <2>4. ReadsKeepUp'
    <3>1. /\ pc' = [pc EXCEPT ![c] = "raised"] \/ pc' = [pc EXCEPT ![c] = "call"]
          /\ UNCHANGED <<args, seen, settled, floor, excused>>
          /\ pc[c] = "get"
      BY <1>7 DEF GetFailed
    <3>2. KeepsUp(c)'
      BY <3>1
    <3>3. \A x \in Contexts : x # c => KeepsUp(x)'
      <4> HIDE DEF KeepsUp
      <4> QED BY <3>1, OthersKeepUp
    <3> HIDE DEF KeepsUp
    <3> QED BY <3>2, <3>3
  <2> QED BY <2>1, <2>2, <2>3, <2>4
<1>8. ASSUME NEW e \in ApiFaults, CallFailed(c, e)
      PROVE  IInv'
  <2>1. deadline' \in [Contexts -> {"none", "soft", "hard"}]
    BY <1>8, MeetType DEF CallFailed
  <2>2. TypeOK'
    BY <1>8, <2>1 DEF CallFailed
  <2>3. ReadsKeepUp'
    BY <1>8 DEF CallFailed
  <2>4. SettledIsCommitted' /\ OldEntriesAreLate'
    BY <1>8 DEF CallFailed
  <2>5. DeletedBeforeUpdated' /\ WaitingIsNoticed'
    BY <1>8 DEF CallFailed
  <2> QED BY <2>2, <2>3, <2>4, <2>5
<1>9. ASSUME NEW e \in Faults, SetFailed(c, e)
      PROVE  IInv'
  <2>1. /\ deadline' \in [Contexts -> {"none", "soft", "hard"}]
        /\ flakey' \in [Contexts -> BOOLEAN]
        /\ waits' \in [Contexts -> 0..2]
        /\ WaitingIsNoticed'
    BY <1>9, SkippableException DEF SetFailed
  <2>2. /\ store' \in [Keys -> Entry \cup {NoEntry}]
        /\ refilled' \in [Contexts -> SUBSET Keys]
        /\ inflight' \subseteq Keys \X Versions
        /\ OldEntriesAreLate'
        /\ \A x \in Active : pc[x] = "api" =>
             \A y \in args[x] : store'[y] # NoEntry => y \in refilled'[x]
    <3>1. UNCHANGED settled
      BY <1>9 DEF SetFailed
    <3>2. \A k \in args[c] : k \in Keys /\ seen[c][k] \in 0..MaxVersion
      OBVIOUS
    <3>3. CASE UNCHANGED <<store, inflight, refilled>>
      BY <3>1, <3>3
    <3>4. CASE (\E k \in args[c] : RunSet(k, seen[c][k])) /\ UNCHANGED inflight
      BY <3>1, <3>2, <3>4, SetRun
    <3>5. CASE /\ \E k \in args[c] : inflight' = inflight \cup {<<k, seen[c][k]>>}
               /\ UNCHANGED <<store, refilled>>
      BY <3>1, <3>2, <3>5
    <3> QED BY <1>9, <3>3, <3>4, <3>5 DEF SetFailed
  <2>3. TypeOK'
    BY <1>9, <2>1, <2>2 DEF SetFailed
  <2>4. ReadsKeepUp'
    <3>1. /\ pc' = [pc EXCEPT ![c] = "raised"]
             \/ pc' = [pc EXCEPT ![c] = "returned"]
          /\ UNCHANGED <<args, seen, settled, floor, excused>>
          /\ pc[c] = "set"
      BY <1>9 DEF SetFailed
    <3>2. KeepsUp(c)'
      BY <3>1
    <3>3. \A x \in Contexts : x # c => KeepsUp(x)'
      <4> HIDE DEF KeepsUp
      <4> QED BY <3>1, OthersKeepUp
    <3> HIDE DEF KeepsUp
    <3> QED BY <3>2, <3>3
  <2>5. SettledIsCommitted'
    BY <1>9 DEF SetFailed
  <2>6. DeletedBeforeUpdated'
    BY <1>9, <2>2 DEF SetFailed
  <2> QED BY <2>1, <2>2, <2>3, <2>4, <2>5, <2>6
<1> QED BY <1>1, <1>2, <1>3, <1>4, <1>5, <1>6, <1>7, <1>8, <1>9 DEF Read

LEMMA UpdateStep ==
  ASSUME IInv, NEW c \in Contexts, Update(c)
  PROVE  IInv'
<1> USE ConstantsAssumption
    DEF IInv, TypeOK, SettledIsCommitted, OldEntriesAreLate, ReadsKeepUp,
        KeepsUp, DeletedBeforeUpdated, WaitingIsNoticed, Goto, history,
        Versions, Steps
<1>1. CASE \E pattern \in Patterns : BeginUpdate(c, pattern)
  BY <1>1 DEF BeginUpdate
<1>2. CASE FirstDelete(c)
  <2>1. TypeOK'
    BY <1>2 DEF FirstDelete, Deleted, Without
  <2>2. SettledIsCommitted' /\ OldEntriesAreLate' /\ ReadsKeepUp'
    BY <1>2 DEF FirstDelete, Deleted, Without
  <2>3. DeletedBeforeUpdated' /\ WaitingIsNoticed'
    BY <1>2 DEF FirstDelete, Deleted, Without
  <2> QED BY <2>1, <2>2, <2>3
<1>3. ASSUME Commit(c), UNCHANGED <<store, args, settled, floor, excused>>
      PROVE  /\ db' \in [Keys -> 0..MaxVersion]
             /\ seen' \in [Contexts -> [Keys -> 0..MaxVersion]]
             /\ \A k \in Keys : settled[k] <= db'[k] /\ db[k] <= db'[k]
             /\ \A k \in args[c] : seen'[c][k] = db'[k]
             /\ \A x \in Contexts : x # c => seen'[x] = seen[x]
  <2>1. db' \in [Keys -> 0..MaxVersion]
    BY <1>3 DEF Commit
  <2>2. seen' \in [Contexts -> [Keys -> 0..MaxVersion]]
    BY <1>3, <2>1 DEF Commit
  <2> QED BY <1>3, <2>1, <2>2 DEF Commit
<1>4. CASE ApiAnswered(c)
  <2>1. Commit(c) /\ UNCHANGED <<store, args, settled, floor, excused>>
    BY <1>4 DEF ApiAnswered
  <2>2. TypeOK'
    BY <1>3, <1>4, <2>1 DEF ApiAnswered
  <2>3. SettledIsCommitted'
    BY <1>3, <1>4, <2>1 DEF ApiAnswered
  <2>4. ReadsKeepUp'
    <3>1. KeepsUp(c)'
      BY <1>4 DEF ApiAnswered
    <3>2. \A x \in Contexts : x # c => KeepsUp(x)'
      BY <1>3, <1>4, <2>1 DEF ApiAnswered
    <3> HIDE DEF KeepsUp
    <3> QED BY <3>1, <3>2
  <2>5. OldEntriesAreLate' /\ DeletedBeforeUpdated' /\ WaitingIsNoticed'
    BY <1>4 DEF ApiAnswered
  <2> QED BY <2>2, <2>3, <2>4, <2>5
<1>5. CASE SecondDelete(c)
  <2>1. settled' \in [Keys -> 0..MaxVersion]
    BY <1>5 DEF SecondDelete, Settle
  <2>2. \A k \in Keys : settled[k] <= settled'[k] /\ settled'[k] <= db[k]
    BY <1>5 DEF SecondDelete, Settle
  <2>3. store' \in [Keys -> Entry \cup {NoEntry}]
    BY <1>5 DEF SecondDelete, Deleted, Without
  <2>4. TypeOK'
    BY <1>5, <2>1, <2>3 DEF SecondDelete
  <2>5. SettledIsCommitted'
    BY <1>5, <2>2 DEF SecondDelete
  <2>6. ReadsKeepUp'
    <3>1. KeepsUp(c)'
      BY <1>5 DEF SecondDelete
    <3>2. ASSUME NEW x \in Contexts, x # c
          PROVE  KeepsUp(x)'
      <4>1. /\ pc'[x] = pc[x] /\ args' = args /\ seen' = seen
            /\ floor' = floor /\ excused' = excused
        BY <1>5, <3>2 DEF SecondDelete
      <4>2. \A k \in args[x] : floor[x][k] <= settled[k] => floor[x][k] <= settled'[k]
        BY <2>1, <2>2
      <4>3. KeepsUp(x)
        OBVIOUS
      <4> QED BY <4>1, <4>2, <4>3
    <3> HIDE DEF KeepsUp
    <3> QED BY <3>1, <3>2
  <2>7. OldEntriesAreLate'
    BY <1>5 DEF SecondDelete, Deleted, Without, Settle
  <2>8. DeletedBeforeUpdated' /\ WaitingIsNoticed'
    BY <1>5 DEF SecondDelete, Deleted, Without
  <2> QED BY <2>4, <2>5, <2>6, <2>7, <2>8
<1>6. ASSUME NEW e \in ApiFaults, ApiFailed(c, e)
      PROVE  IInv'
  <2>1. deadline' \in [Contexts -> {"none", "soft", "hard"}]
    BY <1>6, MeetType DEF ApiFailed
  <2>2. UNCHANGED <<store, args, settled, floor, excused>>
    BY <1>6 DEF ApiFailed
  <2>3. /\ db' \in [Keys -> 0..MaxVersion]
        /\ seen' \in [Contexts -> [Keys -> 0..MaxVersion]]
        /\ \A k \in Keys : settled[k] <= db'[k] /\ db[k] <= db'[k]
        /\ \A x \in Contexts : x # c => seen'[x] = seen[x]
    <3>1. CASE UNCHANGED <<db, seen>>
      BY <3>1
    <3>2. CASE Commit(c)
      BY <1>3, <2>2, <3>2
    <3> QED BY <1>6, <3>1, <3>2 DEF ApiFailed
  <2>4. TypeOK'
    BY <1>6, <2>1, <2>3 DEF ApiFailed
  <2>5. SettledIsCommitted'
    BY <1>6, <2>3 DEF ApiFailed
  <2>6. ReadsKeepUp'
    <3>1. KeepsUp(c)'
      BY <1>6 DEF ApiFailed
    <3>2. \A x \in Contexts : x # c => KeepsUp(x)'
      BY <1>6, <2>3 DEF ApiFailed
    <3> HIDE DEF KeepsUp
    <3> QED BY <3>1, <3>2
  <2>7. OldEntriesAreLate' /\ DeletedBeforeUpdated' /\ WaitingIsNoticed'
    BY <1>6 DEF ApiFailed
  <2> QED BY <2>4, <2>5, <2>6, <2>7
<1>7. ASSUME NEW e \in Faults, DeleteFailed(c, e)
      PROVE  IInv'
  <2>1. /\ deadline' \in [Contexts -> {"none", "soft", "hard"}]
        /\ flakey' \in [Contexts -> BOOLEAN]
        /\ waits' \in [Contexts -> 0..2]
        /\ WaitingIsNoticed'
    BY <1>7, OtherException DEF DeleteFailed
  <2>2. store' \in [Keys -> Entry \cup {NoEntry}]
    BY <1>7 DEF DeleteFailed, Without
  <2>3. TypeOK'
    BY <1>7, <2>1, <2>2 DEF DeleteFailed
  <2>4. SettledIsCommitted' /\ ReadsKeepUp'
    BY <1>7 DEF DeleteFailed
  <2>5. OldEntriesAreLate'
    BY <1>7 DEF DeleteFailed, Without
  <2>6. DeletedBeforeUpdated'
    BY <1>7 DEF DeleteFailed, Without
  <2> QED BY <2>1, <2>3, <2>4, <2>5, <2>6
<1> QED BY <1>1, <1>2, <1>4, <1>5, <1>6, <1>7 DEF Update

LEMMA StepInvariant == IInv /\ [Next]_vars => IInv'
<1> SUFFICES ASSUME IInv, [Next]_vars
             PROVE  IInv'
  OBVIOUS
<1>1. CASE \E c \in Contexts : Read(c)
  BY <1>1, ReadStep
<1>2. CASE \E c \in Contexts : Update(c)
  BY <1>2, UpdateStep
<1> USE ConstantsAssumption
    DEF IInv, TypeOK, SettledIsCommitted, OldEntriesAreLate, ReadsKeepUp,
        KeepsUp, DeletedBeforeUpdated, WaitingIsNoticed, Goto, history,
        Versions, Steps
<1>3. ASSUME NEW c \in Contexts, EndCall(c),
             flakey' \in [Contexts -> BOOLEAN],
             deadline' \in [Contexts -> {"none", "soft", "hard"}],
             waits' \in [Contexts -> 0..2],
             WaitingIsNoticed'
      PROVE  IInv'
  <2>1. TypeOK'
    BY <1>3 DEF EndCall
  <2>2. SettledIsCommitted' /\ OldEntriesAreLate'
    BY <1>3 DEF EndCall
  <2>3. ReadsKeepUp'
    BY <1>3 DEF EndCall
  <2>4. DeletedBeforeUpdated'
    BY <1>3 DEF EndCall
  <2> QED BY <1>3, <2>1, <2>2, <2>3, <2>4
<1>4. CASE \E c \in Contexts : NextCall(c)
  <2>1. PICK c \in Contexts : NextCall(c)
    BY <1>4
  <2>2. EndCall(c) /\ UNCHANGED <<flakey, deadline, waits>>
    BY <2>1 DEF NextCall
  <2> QED BY <1>3, <2>2
<1>5. CASE \E c \in Contexts : PopContext(c)
  <2>1. PICK c \in Contexts : PopContext(c)
    BY <1>5
  <2>2. /\ flakey' \in [Contexts -> BOOLEAN]
        /\ deadline' \in [Contexts -> {"none", "soft", "hard"}]
        /\ waits' \in [Contexts -> 0..2]
        /\ WaitingIsNoticed'
    BY <2>1 DEF PopContext
  <2> QED BY <1>3, <2>1, <2>2 DEF PopContext
<1>6. CASE \E k \in Keys : Expire(k)
  BY <1>6 DEF Expire
<1>7. ASSUME NEW k \in Keys, NEW v \in Versions, LateSet(k, v)
      PROVE  IInv'
  <2>1. RunSet(k, v) /\ UNCHANGED settled
    BY <1>7 DEF LateSet
  <2>2. /\ store' \in [Keys -> Entry \cup {NoEntry}]
        /\ refilled' \in [Contexts -> SUBSET Keys]
        /\ OldEntriesAreLate'
        /\ \A x \in Active : pc[x] = "api" =>
             \A y \in args[x] : store'[y] # NoEntry => y \in refilled'[x]
    BY <2>1, SetRun
  <2>3. TypeOK'
    BY <1>7, <2>2 DEF LateSet
  <2>4. SettledIsCommitted' /\ ReadsKeepUp' /\ WaitingIsNoticed'
    BY <1>7 DEF LateSet
  <2>5. DeletedBeforeUpdated'
    BY <1>7, <2>2 DEF LateSet
  <2> QED BY <2>2, <2>3, <2>4, <2>5
<1>8. CASE UNCHANGED vars
  BY <1>8 DEF vars
<1> QED BY <1>1, <1>2, <1>4, <1>5, <1>6, <1>7, <1>8 DEF Next

THEOREM CacheInvariance == Spec => []IInv
BY InitInvariant, StepInvariant, PTL DEF Spec

(* The types of the model.                                                 *)
THEOREM CacheTypes == Spec => []TypeOK
BY CacheInvariance, PTL DEF IInv

(* A read that began after an update had returned answers with it or a     *)
(* newer one, unless a SET that landed after the update answers it.        *)
THEOREM UpdatesAreSeen == Spec => []ReturnedUpdatesAreSeen
<1>1. IInv => ReturnedUpdatesAreSeen
  BY DEF IInv, ReadsKeepUp, KeepsUp, ReturnedUpdatesAreSeen
<1> QED BY <1>1, CacheInvariance, PTL

(* The API is asked to update only when what redis held is gone.           *)
THEOREM DeletionComesFirst == Spec => []DeletedBeforeUpdated
BY CacheInvariance, PTL DEF IInv

(* No app context waits twice for redis to answer a get or a set.          *)
THEOREM WaitOnce == Spec => []SkippableCallsWaitOnce
<1>1. IInv => SkippableCallsWaitOnce
  BY DEF IInv, WaitingIsNoticed, SkippableCallsWaitOnce
<1> QED BY <1>1, CacheInvariance, PTL
-----------------------------------------------------------------------------
(* The keys of calls.                                                      *)

LEMMA ArgumentsAreBound ==
  ASSUME NEW method, IsMethod(method), NEW positional, NEW kwargs,
         Takes(method, positional, kwargs), NEW name \in Names(method)
  PROVE  _get_argument(name, method, positional, kwargs) = Bound(method, positional, kwargs)[name]
BY DEF Takes, _get_argument, Bound, Given

(* Two calls, of methods that may have different parameters, make the same *)
(* key of a key_format if they bind the names in it to the same values, or *)
(* to other spellings of the same UUIDs, whether they give them by         *)
(* position, by keyword or not at all.                                     *)
THEOREM SameArgumentsSameKey ==
  ASSUME NEW reader, IsMethod(reader), NEW positional, NEW kwargs, Takes(reader, positional, kwargs),
         NEW updater, IsMethod(updater), NEW others, NEW otherkw, Takes(updater, others, otherkw),
         NEW key_format,
         \A n \in DOMAIN key_format :
           /\ key_format[n] \in Names(reader) \cap Names(updater)
           /\ _format_argument(Bound(reader, positional, kwargs)[key_format[n]])
                = _format_argument(Bound(updater, others, otherkw)[key_format[n]])
  PROVE  _make_key(key_format, reader, positional, kwargs)
           = _make_key(key_format, updater, others, otherkw)
<1>1. ASSUME NEW n \in DOMAIN key_format
      PROVE  _format_argument(_get_argument(key_format[n], reader, positional, kwargs))
               = _format_argument(_get_argument(key_format[n], updater, others, otherkw))
  <2>1. _get_argument(key_format[n], reader, positional, kwargs)
          = Bound(reader, positional, kwargs)[key_format[n]]
    BY ArgumentsAreBound
  <2>2. _get_argument(key_format[n], updater, others, otherkw)
          = Bound(updater, others, otherkw)[key_format[n]]
    BY ArgumentsAreBound
  <2> QED
    BY <2>1, <2>2
<1> QED
  BY <1>1 DEF _make_key

==============================================================================
