-------------------------- MODULE GreenletAccounting --------------------------
(***************************************************************************)
(* eventlet.py, account_greenlet_times: a trace hook that accounts the     *)
(* time for which each greenlet is switched to, and the functions that     *)
(* read the accounts.                                                      *)
(*                                                                         *)
(* Cpu time and wall clock time are accounted in the same way and by the   *)
(* same steps, each by a clock that goes forwards; this is one of the two. *)
(***************************************************************************)
EXTENDS Eventlet

CONSTANTS MaxClock,     \* bound: time that passes
          MaxSwitches   \* bound: switches to each greenlet

ASSUME AccountsAssumption ==
  /\ MaxClock \in Nat
  /\ MaxSwitches \in Nat

VARIABLES
  clock,
  current,         \* the greenlet that is running
  tracing,         \* is the hook installed?
  atstart,         \* _perf_counter_ns_atstart
  accum,           \* _perf_counter_ns_accum
  max_continuous,  \* _perf_counter_ns_max_continuous
  switch_count,    \* _context_switch_count
  \* History, read by no guard:
  seen,            \* greenlets switched to since the hook was installed
  ran,             \* for how long each of them ran since then
  piece,           \* for how long current has since it was last reset
  recent           \* the longest piece of each, since it was last reset

accounts_vars ==
  <<clock, current, tracing, atstart, accum, max_continuous, switch_count,
    seen, ran, piece, recent>>

history == <<seen, ran, piece, recent>>

OrZero(x) == IF x = None THEN 0 ELSE x

AccountsInit ==
  /\ clock = 0
  /\ current \in Greenlets
  /\ tracing = FALSE
  /\ atstart = [g \in Greenlets |-> None]
  /\ accum = [g \in Greenlets |-> None]
  /\ max_continuous = [g \in Greenlets |-> None]
  /\ switch_count = [g \in Greenlets |-> None]
  /\ seen = {}
  /\ ran = [g \in Greenlets |-> 0]
  /\ piece = 0
  /\ recent = [g \in Greenlets |-> 0]

-----------------------------------------------------------------------------
(* The hook.                                                               *)

(* Mutant of Accounted: the last turn only.                                *)
AccountedLast(g) ==
  /\ accum' = [accum EXCEPT ![g] = clock - atstart[g]]
  /\ max_continuous' = [max_continuous EXCEPT ![g] =
                          Max2(clock - atstart[g], OrZero(@))]

(* What is added to the account of the greenlet switched out of.           *)
Accounted(g) ==
  /\ accum' = [accum EXCEPT ![g] = OrZero(@) + (clock - atstart[g])]
  /\ max_continuous' = [max_continuous EXCEPT ![g] =
                          Max2(clock - atstart[g], OrZero(@))]

Restarted(origin, target) ==
  /\ atstart' = [atstart EXCEPT ![origin] = None, ![target] = clock]
  /\ switch_count' = [switch_count EXCEPT ![target] = OrZero(@) + 1]

(* A switch or a throw, accounted by the hook.                             *)
Switch(target) ==
  /\ tracing
  /\ OrZero(switch_count[target]) < MaxSwitches
  /\ \/ /\ atstart[current] # None
        /\ Accounted(current)
     \/ /\ atstart[current] = None
        /\ UNCHANGED <<accum, max_continuous>>
  /\ Restarted(current, target)
  /\ current' = target
  /\ seen' = seen \cup {target}
  /\ piece' = 0
  /\ UNCHANGED <<clock, tracing, ran, recent>>

(* A switch before the hook is installed.                                  *)
SwitchUntraced(target) ==
  /\ ~tracing
  /\ current' = target
  /\ UNCHANGED <<clock, tracing, atstart, accum, max_continuous, switch_count,
                 seen, ran, piece, recent>>

(* greenlet.settrace(account_greenlet_times), as the worker starts.        *)
Install ==
  /\ ~tracing
  /\ tracing' = TRUE
  /\ UNCHANGED <<clock, current, atstart, accum, max_continuous, switch_count>>
  /\ UNCHANGED history

Tick ==
  /\ clock < MaxClock
  /\ clock' = clock + 1
  /\ \/ /\ current \in seen
        /\ ran' = [ran EXCEPT ![current] = @ + 1]
        /\ piece' = piece + 1
        /\ recent' = [recent EXCEPT ![current] = Max2(@, piece')]
     \/ /\ current \notin seen
        /\ UNCHANGED <<ran, piece, recent>>
  /\ UNCHANGED <<current, tracing, atstart, accum, max_continuous, switch_count,
                 seen>>

-----------------------------------------------------------------------------
(* The functions a greenlet calls.                                         *)

reset_greenlet_stats ==
  /\ max_continuous' = [max_continuous EXCEPT ![current] = 0]
  /\ piece' = 0
  /\ recent' = [recent EXCEPT ![current] = 0]
  /\ UNCHANGED <<clock, current, tracing, atstart, accum, switch_count,
                 seen, ran>>

greenlet_perf_counter_ns ==
  IF atstart[current] = None THEN None
  ELSE (clock - atstart[current]) + OrZero(accum[current])

greenlet_perf_counter_ns_max_continuous ==
  LET current_continuous_ns ==
        IF atstart[current] = None THEN 0 ELSE clock - atstart[current]
  IN IF atstart[current] = None /\ max_continuous[current] = None THEN None
     ELSE Max2(current_continuous_ns, OrZero(max_continuous[current]))

(* _get_greenlet_debug_info of the hub or the server, from anywhere.       *)
greenlet_real_time(g) == accum[g]

AccountsNext ==
  \/ Tick
  \/ Install
  \/ reset_greenlet_stats
  \/ \E g \in Greenlets : Switch(g) \/ SwitchUntraced(g)

AccountsSpec == AccountsInit /\ [][AccountsNext]_accounts_vars

-----------------------------------------------------------------------------
(* Properties.                                                             *)

AccountsTypeOK ==
  /\ clock \in 0..MaxClock
  /\ current \in Greenlets
  /\ tracing \in BOOLEAN
  /\ atstart \in [Greenlets -> (0..clock) \cup {None}]
  /\ accum \in [Greenlets -> (0..clock) \cup {None}]
  /\ max_continuous \in [Greenlets -> (0..clock) \cup {None}]
  /\ switch_count \in [Greenlets -> (1..MaxSwitches) \cup {None}]
  /\ seen \in SUBSET Greenlets
  /\ ran \in [Greenlets -> Nat]
  /\ piece \in Nat
  /\ recent \in [Greenlets -> Nat]

(* A greenlet is told exactly the time it ran since it was first switched  *)
(* to, and what others are told of it lacks no more than its current turn: *)
(* no time is lost, counted twice or put on another's account.             *)
TimesAreExact ==
  /\ IF current \in seen THEN greenlet_perf_counter_ns = ran[current]
     ELSE greenlet_perf_counter_ns = None
  /\ \A g \in Greenlets \ {current} :
       IF g \in seen THEN greenlet_real_time(g) = ran[g]
       ELSE greenlet_real_time(g) = None

(* No longer than it ran, no shorter than its longest turn since the reset *)
(* (if it ended there or since), is the greenlet told its longest turn is. *)
LongestTurnIsBounded ==
  current \in seen =>
    greenlet_perf_counter_ns_max_continuous \in recent[current]..ran[current]

(* "Returns the maximum continuous wallclock time spent processing this    *)
(* greenlet since reset_greenlet_stats was called for this greenlet"       *)
LongestTurnIsSinceReset ==
  current \in seen =>
    greenlet_perf_counter_ns_max_continuous = recent[current]
=============================================================================
