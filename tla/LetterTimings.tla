----------------------------- MODULE LetterTimings -----------------------------
(***************************************************************************)
(* letter_timings.py: when a letter is printed and delivered, and until    *)
(* when it can be cancelled.                                               *)
(*                                                                         *)
(* Times are those of the local clock, to the second: the functions        *)
(* convert to it first, and replace hours and minutes but not seconds.     *)
(* Day 0 is a Monday.                                                      *)
(***************************************************************************)
EXTENDS Integers, FiniteSets, Sequences

CONSTANTS MinutesPerDay, SecondsPerMinute,
          Deadline,   \* LETTER_PROCESSING_DEADLINE
          Shift,      \* six and a half hours, from there to the next day
          PrintTime,  \* the hour of printed_by
          BankHolidays,
          Offsets,    \* working days that other programs go by
          LastDay     \* bound: of the clock

ASSUME LettersAssumption ==
  /\ MinutesPerDay \in Nat /\ SecondsPerMinute \in Nat \ {0}
  /\ Deadline \in 0..(MinutesPerDay - 1) /\ PrintTime \in 0..(MinutesPerDay - 1)
  /\ Shift = MinutesPerDay - Deadline
  /\ BankHolidays \subseteq Int /\ Offsets \subseteq Int \ {0}
  /\ LastDay \in Nat

VARIABLES
  now, created, postage, holidays,
  stage,         \* what the walk over days is for
  date, days,    \* get_offset_working_day's
  walk,          \* its arguments (history)
  print_day, earliest, latest,
  reads,         \* of the clock, by a call of too_late_to_cancel_letter
  verdict        \* letter_can_be_cancelled, of a letter with a fitting status

timings_vars ==
  <<postage, holidays, stage, date, days, walk, print_day, earliest, latest>>
cancel_vars == <<reads, verdict>>
letters_vars == <<now, created, timings_vars, cancel_vars>>

Times == [day : Int, minute : 0..(MinutesPerDay - 1),
          second : 0..(SecondsPerMinute - 1)]

Before(a, b) ==
  \/ a.day < b.day
  \/ a.day = b.day /\ a.minute < b.minute
  \/ a.day = b.day /\ a.minute = b.minute /\ a.second < b.second

SecondLater(t) ==
  IF t.second + 1 < SecondsPerMinute
  THEN [day |-> t.day, minute |-> t.minute, second |-> t.second + 1]
  ELSE IF t.minute + 1 < MinutesPerDay
       THEN [day |-> t.day, minute |-> t.minute + 1, second |-> 0]
       ELSE [day |-> t.day + 1, minute |-> 0, second |-> 0]

-----------------------------------------------------------------------------
(* Working days.                                                           *)

Sunday == 6
Weekend == {5, Sunday}
Postages == {"netherlands", "europe", "rest-of-world"}

IsWorkDay(day, weekend) == day % 7 \notin weekend /\ day \notin holidays

is_dvla_working_day(day) == IsWorkDay(day, Weekend)

is_royal_mail_working_day(day) ==
  IsWorkDay(day, IF postage = "netherlands" THEN {Sunday} ELSE Weekend)

IsWorkDayFor(s, day) ==
  IF s = "print" THEN is_dvla_working_day(day) ELSE is_royal_mail_working_day(day)

get_min_and_max_days_in_transit ==
  CASE postage = "netherlands"   -> <<0, 0>>
    [] postage = "europe"        -> <<3, 5>>
    [] postage = "rest-of-world" -> <<5, 7>>

(* Mutant of ProcessingDay: what comes after the deadline is not shifted.  *)
ProcessingDaySame(t) == t.day

ProcessingDay(t) == IF t.minute + Shift >= MinutesPerDay THEN t.day + 1 ELSE t.day

LettersInit ==
  /\ created \in [day : 0..6, minute : 0..(MinutesPerDay - 1),
                  second : 0..(SecondsPerMinute - 1)]
  /\ now = created
  /\ postage \in Postages
  /\ holidays \in SUBSET BankHolidays
  /\ stage = "print"
  /\ date = ProcessingDay(created)
  /\ days = 1
  /\ walk = [from |-> ProcessingDay(created), days |-> 1]
  /\ print_day = created.day /\ earliest = created.day /\ latest = created.day
  /\ reads = <<>>
  /\ verdict = "none"

StartWalk(s, from, n) ==
  /\ stage' = s
  /\ date' = from
  /\ days' = n
  /\ walk' = [from |-> from, days |-> n]
  /\ UNCHANGED <<now, created, postage, holidays, cancel_vars>>

(* Mutant of Walk: every day counts.                                       *)
WalkAnyDay(step) ==
  /\ date' = date + step
  /\ days' = days - step

Walk(step) ==
  /\ date' = date + step
  /\ days' = IF IsWorkDayFor(stage, date + step) THEN days - step ELSE days

(* An iteration of get_offset_working_day, which get_delivery_day calls    *)
(* for a day at a time.                                                    *)
Advance ==
  /\ stage # "done"
  /\ \/ days > 0 /\ Walk(1)
     \/ days < 0 /\ Walk(-1)
  /\ UNCHANGED <<now, created, postage, holidays, stage, walk, print_day,
                 earliest, latest, cancel_vars>>

(* LetterTimings: of printing, and of the earliest and latest delivery.    *)
PrintDay ==
  /\ stage = "print" /\ days = 0
  /\ print_day' = date
  /\ StartWalk("earliest", date, 1 + get_min_and_max_days_in_transit[1])
  /\ UNCHANGED <<earliest, latest>>

EarliestDelivery ==
  /\ stage = "earliest" /\ days = 0
  /\ earliest' = date
  /\ StartWalk("latest", print_day, 1 + get_min_and_max_days_in_transit[2])
  /\ UNCHANGED <<print_day, latest>>

LatestDelivery ==
  /\ stage = "latest" /\ days = 0
  /\ latest' = date
  /\ stage' = "done"
  /\ UNCHANGED <<now, created, postage, holidays, date, days, walk, print_day,
                 earliest, cancel_vars>>

(* get_royal_mail_working_day_offset_by, for another program.              *)
OffsetDay ==
  /\ stage = "done" /\ now = created
  /\ \E n \in Offsets : StartWalk("offset", created.day, n)
  /\ UNCHANGED <<print_day, earliest, latest>>

OffsetReturned ==
  /\ stage = "offset" /\ days = 0
  /\ stage' = "done"
  /\ UNCHANGED <<now, created, postage, holidays, date, days, walk, print_day,
                 earliest, latest, cancel_vars>>

printed_by == [day |-> print_day, minute |-> PrintTime, second |-> created.second]

is_printed(at) == Before(printed_by, at)

-----------------------------------------------------------------------------
(* Cancelling.  The clock is read up to three times.                       *)

(* What replace(hour=17, minute=30) makes of t.                            *)
DeadlineOf(t) == [t EXCEPT !.minute = Deadline]

_after_letter_processing_deadline(t) == t.minute >= Deadline

_notification_created_before_today_deadline(t) == ~Before(DeadlineOf(t), created)

_notification_created_before_that_day_deadline == ~Before(DeadlineOf(created), created)

(* Mutant of TooLate: yesterday's deadline is forgotten.                    *)
TooLateToday ==
  \/ Len(reads) = 3 /\ _notification_created_before_today_deadline(reads[3])
  \/ reads[1].day - created.day > 1

TooLate ==
  \/ Len(reads) = 3 /\ _notification_created_before_today_deadline(reads[3])
  \/ /\ _notification_created_before_that_day_deadline
     /\ created.day < reads[1].day
  \/ reads[1].day - created.day > 1

ReadDay ==
  /\ stage = "done"
  /\ reads = <<>>
  /\ reads' = <<now>>
  /\ UNCHANGED <<now, created, timings_vars, verdict>>

ReadTime ==
  /\ Len(reads) = 1
  /\ reads' = Append(reads, now)
  /\ UNCHANGED <<now, created, timings_vars, verdict>>

ReadDeadline ==
  /\ Len(reads) = 2 /\ verdict = "none"
  /\ _after_letter_processing_deadline(reads[2])
  /\ reads' = Append(reads, now)
  /\ UNCHANGED <<now, created, timings_vars, verdict>>

Decide ==
  /\ verdict = "none"
  /\ \/ Len(reads) = 2 /\ ~_after_letter_processing_deadline(reads[2])
     \/ Len(reads) = 3
  /\ verdict' = IF TooLate THEN "no" ELSE "yes"
  /\ UNCHANGED <<now, created, timings_vars, reads>>

(* The caller has its answer.                                              *)
Answered ==
  /\ verdict # "none"
  /\ reads' = <<>>
  /\ verdict' = "none"
  /\ UNCHANGED <<now, created, timings_vars>>

(* A second passes: at most one in a call.                                 *)
Tick ==
  /\ stage = "done"
  /\ verdict = "none"
  /\ reads # <<>> => now = reads[1]
  /\ now.day < LastDay
  /\ now' = SecondLater(now)
  /\ UNCHANGED <<created, timings_vars, cancel_vars>>

LettersNext ==
  \/ Advance \/ PrintDay \/ EarliestDelivery \/ LatestDelivery
  \/ OffsetDay \/ OffsetReturned
  \/ ReadDay \/ ReadTime \/ ReadDeadline \/ Decide \/ Answered \/ Tick

LettersSpec == LettersInit /\ [][LettersNext]_letters_vars

-----------------------------------------------------------------------------
(* Properties.                                                             *)

LettersTypeOK ==
  /\ now \in Times /\ created \in Times
  /\ postage \in Postages
  /\ holidays \subseteq BankHolidays
  /\ stage \in {"print", "earliest", "latest", "offset", "done"}
  /\ walk \in [from : Int, days : Int \ {0}]
  /\ date \in Int
  /\ days \in IF walk.days > 0 THEN 0..walk.days ELSE walk.days..0
  /\ print_day \in Int /\ earliest \in Int /\ latest \in Int
  /\ reads \in Seq(Times) /\ Len(reads) <= 3
  /\ verdict \in {"none", "yes", "no"}

(* The days from a to b, without a, whichever comes first.                 *)
Between(a, b) == IF a < b THEN (a + 1)..b ELSE b..(a - 1)

(* The days walked over count as many working days as are no longer asked  *)
(* for, forwards and backwards, and the last is one of them: weekends and  *)
(* holidays delay a letter and are never the day it is printed or arrives. *)
WalksCountWorkingDays ==
  LET worked == {d \in Between(walk.from, date) : IsWorkDayFor(stage, d)}
      asked == walk.days - days
  IN stage # "done" =>
       /\ Cardinality(worked) = IF asked > 0 THEN asked ELSE -asked
       /\ days = 0 => date \in worked

(* A letter is not cancelled from under the press: nobody is told it can   *)
(* be when it is past the time it is printed by, whenever it was created   *)
(* and whatever holidays there are.                                        *)
CancellableIsNotPrinted == verdict = "yes" => ~is_printed(reads[1])

(* The day on which a letter is zipped at the deadline.                    *)
ZippedOn == IF created.minute < Deadline THEN created.day ELSE created.day + 1

(* Unless midnight falls between two reads of the clock, or the letter was *)
(* created within the minute that begins at the deadline, it can be        *)
(* cancelled until the deadline with which it is processed and no longer.  *)
CancellableUntilProcessed ==
  (/\ verdict # "none"
   /\ \A n \in DOMAIN reads : reads[n].day = reads[1].day
   /\ created.minute # Deadline)
  => (verdict = "yes" <=>
        \/ reads[1].day < ZippedOn
        \/ reads[1].day = ZippedOn /\ reads[2].minute < Deadline)

(* "letter can be cancelled if after 1730 and letter created at 1730 today *)
(* or later".                                                              *)
CreatedAfterDeadlineCanBeCancelled ==
  (/\ verdict # "none"
   /\ \A n \in DOMAIN reads : reads[n].day = created.day
   /\ Before([created EXCEPT !.minute = Deadline, !.second = 0], created))
  => verdict = "yes"
=============================================================================
