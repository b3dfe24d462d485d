---------------------------- MODULE SlidingWindow ----------------------------
(***************************************************************************)
(* The rate limiter behind RedisClient.exceeded_rate_limit: a sorted set   *)
(* of the timestamps of recent requests, kept under one redis key.         *)
(*                                                                         *)
(* A tick is the resolution of time(), so that two requests may well read  *)
(* the same one.  Redis executes the pipeline as one transaction.          *)
(***************************************************************************)
EXTENDS FiniteSets, Callers

CONSTANTS Limit,
          Interval,
          MaxTies     \* bound: admitted counts no further

ASSUME WindowAssumption ==
  /\ Limit \in Nat
  /\ Interval \in Nat \ {0}
  /\ MaxTies \in Nat \ {0}

Times == 0..(MaxClock + MaxSkew)

VARIABLES
  zset,      \* the sorted set; its members are their own scores
  key_expires,   \* when redis drops the key
  \* History, read by no guard:
  recorded,  \* timestamps of the requests redis was asked about
  admitted     \* how many requests of each timestamp redis did not refuse

window_vars == <<clock, zset, key_expires, asked, recorded, admitted>>

WindowInit ==
  /\ clock = 0
  /\ zset = {}
  /\ key_expires = 0
  /\ asked = [c \in Callers |-> Idle]
  /\ recorded = {}
  /\ admitted = [t \in Times |-> 0]

-----------------------------------------------------------------------------
(* The pipeline.                                                           *)

When(c) == asked[c] + Skew[c]

(* Mutants of Counted: counted before the request is added; what is as old *)
(* as the interval is kept.                                                *)
CountedBefore(when) == {t \in zset : t > when - Interval}

CountedInclusive(when) == {t \in zset \cup {when} : t >= when - Interval}

(* ZADD, then ZREMRANGEBYSCORE of what is as old as the interval.          *)
Counted(when) == {t \in zset \cup {when} : t > when - Interval}

(* What ZCARD finds is above the limit.                                    *)
Refused(when) == Cardinality(Counted(when)) > Limit

(* Redis executes the transaction; its key lives for another Interval.     *)
Execute(c) ==
  /\ zset' = Counted(When(c))
  /\ key_expires' = clock + Interval
  /\ recorded' = recorded \cup {When(c)}

-----------------------------------------------------------------------------
WindowTick ==
  /\ clock < MaxClock
  /\ \A c \in Callers : asked[c] # Idle => clock - asked[c] < MaxDelay
  /\ clock' = clock + 1
  /\ zset' = IF clock' >= key_expires THEN {} ELSE zset
  /\ UNCHANGED <<key_expires, asked, recorded, admitted>>

(* exceeded_rate_limit: when = time()                                      *)
WindowAsk(c) ==
  /\ asked[c] = Idle
  /\ asked' = [asked EXCEPT ![c] = clock]
  /\ UNCHANGED <<clock, zset, key_expires, recorded, admitted>>

(* The pipeline's results arrive.                                          *)
Answer(c) ==
  /\ asked[c] # Idle
  /\ Execute(c)
  /\ \/ /\ Refused(When(c))
        /\ UNCHANGED admitted
     \/ /\ ~Refused(When(c))
        /\ admitted' = [admitted EXCEPT ![When(c)] = IF @ < MaxTies THEN @ + 1 ELSE @]
  /\ asked' = [asked EXCEPT ![c] = Idle]
  /\ UNCHANGED clock

(* The connection fails, before or after redis executed the transaction.   *)
(* The request is let through, whatever the limit.                         *)
WindowFail(c) ==
  /\ asked[c] # Idle
  /\ \/ Execute(c)
     \/ UNCHANGED <<zset, key_expires, recorded>>
  /\ asked' = [asked EXCEPT ![c] = Idle]
  /\ UNCHANGED <<clock, admitted>>

WindowNext ==
  \/ WindowTick
  \/ \E c \in Callers : WindowAsk(c) \/ Answer(c) \/ WindowFail(c)

WindowSpec == WindowInit /\ [][WindowNext]_window_vars

-----------------------------------------------------------------------------
(* Properties.                                                             *)

WindowTypeOK ==
  /\ clock \in 0..MaxClock
  /\ zset \in SUBSET Times
  /\ key_expires \in Nat
  /\ asked \in [Callers -> (0..MaxClock) \cup {Idle}]
  /\ recorded \in SUBSET Times
  /\ admitted \in [Times -> 0..MaxTies]

(* By how much the order in which pipelines execute and the clocks they    *)
(* were asked with can disagree.                                           *)
Slack == MaxDelay + MaxSkew

AdmittedTimes == {t \in Times : admitted[t] > 0}

(* The limit holds in every window of the interval, not only in those that *)
(* begin with a request or a whole interval; what pipelines executed out   *)
(* of order, skewed clocks and the key's expiry can make the set forget is *)
(* as old as the interval less Slack.  (Requests that share a timestamp    *)
(* count as one.)                                                          *)
WindowRateIsLimited ==
  \A w \in Times :
    Cardinality({t \in AdmittedTimes : w - (Interval - Slack) < t /\ t <= w})
      <= Limit

(* "Failed requests count": whoever asks when Limit requests were made at  *)
(* other times of the last interval, less Slack, is refused, though all of *)
(* those were refused too.  And nobody is refused for older requests.      *)
DecidedByTheInterval ==
  \A c \in Callers : asked[c] # Idle =>
    LET others(age) == {t \in recorded \ {When(c)} : t > When(c) - age}
    IN /\ Cardinality(others(Interval - Slack)) >= Limit => Refused(When(c))
       /\ Cardinality(others(Interval)) < Limit => ~Refused(When(c))
=============================================================================
