--------------------------- MODULE LettersProofs ----------------------------
(***************************************************************************)
(* Theorems about letters: LetterTimings, for any lengths of days and      *)
(* minutes, any deadline and time of printing, and any holidays;           *)
(* FolderMove, for any files, movers and uploads; and UKPostalAddress, for *)
(* any addresses, tables of countries and numbers of lines.                *)
(***************************************************************************)
EXTENDS LetterTimings, FolderMove, UKPostalAddress, InsensitiveProofs

-----------------------------------------------------------------------------
(* The timings of letters.                                                 *)

(* The inductive invariant: a letter is printed after the day of its       *)
(* processing, however far the walk has come, and an answer is what        *)
(* TooLate makes of the readings.                                          *)

Walking ==
  /\ stage = "print" =>
       /\ date >= ProcessingDay(created)
       /\ days = 0 => date > ProcessingDay(created)
       /\ walk.days > 0
       /\ reads = <<>> /\ verdict = "none"
  /\ stage # "print" => print_day > ProcessingDay(created)

Reading ==
  /\ created.day <= now.day
  /\ reads # <<>> => created.day <= reads[1].day

Answering ==
  verdict # "none" =>
    /\ Len(reads) \in {2, 3}
    /\ Len(reads) = 3 <=> _after_letter_processing_deadline(reads[2])
    /\ verdict = "yes" <=> ~TooLate

HalfRead == Len(reads) = 3 => _after_letter_processing_deadline(reads[2])

TimingsInv == LettersTypeOK /\ Walking /\ Reading /\ Answering /\ HalfRead

LEMMA LaterIsATime ==
  ASSUME NEW t \in Times
  PROVE  SecondLater(t) \in Times /\ t.day <= SecondLater(t).day
  BY LettersAssumption DEF Times, SecondLater

LEMMA Created ==
  ASSUME NEW t \in Times
  PROVE  /\ t.day \in Int /\ t.minute \in Int /\ t.second \in Int
         /\ ProcessingDay(t) = IF t.minute >= Deadline THEN t.day + 1 ELSE t.day
         /\ ProcessingDay(t) \in Int
<1>1. t.day \in Int /\ t.minute \in Int /\ t.second \in Int
  BY LettersAssumption DEF Times
<1> QED BY <1>1, LettersAssumption DEF ProcessingDay

LEMMA InTransit ==
  ASSUME postage \in Postages
  PROVE  /\ 1 + get_min_and_max_days_in_transit[1] \in Nat \ {0}
         /\ 1 + get_min_and_max_days_in_transit[2] \in Nat \ {0}
  BY DEF Postages, get_min_and_max_days_in_transit

LEMMA TimingsInitInvariant == LettersInit => TimingsInv
<1> SUFFICES ASSUME LettersInit PROVE TimingsInv
  OBVIOUS
<1>1. created \in Times /\ now \in Times
  BY LettersAssumption DEF LettersInit, Times
<1>2. LettersTypeOK
  BY <1>1, Created DEF LettersInit, LettersTypeOK, Times
<1> QED BY <1>1, <1>2, Created
        DEF LettersInit, TimingsInv, Walking, Reading, Answering, HalfRead

LEMMA AdvanceInvariant == TimingsInv /\ Advance => TimingsInv'
<1> SUFFICES ASSUME TimingsInv, Advance PROVE TimingsInv'
  OBVIOUS
<1>1. created \in Times /\ date \in Int /\ days \in Int
      /\ walk.days \in Int \ {0}
  BY DEF TimingsInv, LettersTypeOK
<1>2. days # 0 /\ (days > 0 <=> walk.days > 0)
  BY <1>1 DEF Advance, TimingsInv, LettersTypeOK
<1>3. /\ date' = IF days > 0 THEN date + 1 ELSE date - 1
      /\ days' = days \/ days' = IF days > 0 THEN days - 1 ELSE days + 1
  BY <1>1, <1>2 DEF Advance, Walk
<1>4. LettersTypeOK'
  BY <1>1, <1>2, <1>3 DEF TimingsInv, LettersTypeOK, Advance, cancel_vars
<1>5. Walking'
  <2>1. CASE stage = "print"
    <3>1. days > 0
      BY <1>2, <2>1 DEF TimingsInv, Walking
    <3> QED BY <1>1, <1>3, <2>1, <3>1, Created
            DEF TimingsInv, Walking, Advance, ProcessingDay, cancel_vars
  <2>2. CASE stage # "print"
    BY <2>2 DEF TimingsInv, Walking, Advance, ProcessingDay
  <2> QED BY <2>1, <2>2
<1>6. Reading' /\ Answering' /\ HalfRead'
  BY DEF TimingsInv, Advance, cancel_vars, Reading, Answering, HalfRead, TooLate,
         _after_letter_processing_deadline,
         _notification_created_before_today_deadline,
         _notification_created_before_that_day_deadline
<1> QED BY <1>4, <1>5, <1>6 DEF TimingsInv

LEMMA DaysInvariant ==
  TimingsInv /\ (PrintDay \/ EarliestDelivery \/ LatestDelivery \/ OffsetDay
           \/ OffsetReturned) => TimingsInv'
<1> SUFFICES ASSUME TimingsInv, PrintDay \/ EarliestDelivery \/ LatestDelivery
                          \/ OffsetDay \/ OffsetReturned
             PROVE  TimingsInv'
  OBVIOUS
<1> USE DEF PrintDay, EarliestDelivery, LatestDelivery, OffsetDay,
            OffsetReturned, StartWalk, cancel_vars
<1>1. /\ created' = created /\ now' = now /\ reads' = reads
      /\ verdict' = verdict /\ stage' # "print"
  OBVIOUS
<1>2. LettersTypeOK'
  <2>1. CASE PrintDay
    BY <2>1, InTransit DEF TimingsInv, LettersTypeOK
  <2>2. CASE EarliestDelivery
    BY <2>2, InTransit DEF TimingsInv, LettersTypeOK
  <2>3. CASE LatestDelivery \/ OffsetReturned
    BY <2>3 DEF TimingsInv, LettersTypeOK
  <2>4. CASE OffsetDay
    <3>1. PICK n \in Offsets : StartWalk("offset", created.day, n)
      BY <2>4
    <3>2. n \in Int \ {0} /\ created.day \in Int
      BY LettersAssumption, Created DEF TimingsInv, LettersTypeOK
    <3> QED BY <2>4, <3>1, <3>2 DEF TimingsInv, LettersTypeOK
  <2> QED BY <2>1, <2>2, <2>3, <2>4
<1>3. Walking'
  BY <1>1 DEF TimingsInv, Walking, ProcessingDay
<1>4. Reading' /\ Answering' /\ HalfRead'
  BY <1>1 DEF TimingsInv, Reading, Answering, HalfRead, TooLate,
         _after_letter_processing_deadline,
         _notification_created_before_today_deadline,
         _notification_created_before_that_day_deadline
<1> QED BY <1>2, <1>3, <1>4 DEF TimingsInv

LEMMA CancelInvariant ==
  TimingsInv /\ (ReadDay \/ ReadTime \/ ReadDeadline \/ Decide \/ Answered) => TimingsInv'
<1> SUFFICES ASSUME TimingsInv, ReadDay \/ ReadTime \/ ReadDeadline \/ Decide
                          \/ Answered
             PROVE  TimingsInv'
  OBVIOUS
<1> USE DEF timings_vars
<1>1. /\ created' = created /\ now' = now /\ stage' = stage /\ date' = date
      /\ days' = days /\ print_day' = print_day
  BY DEF ReadDay, ReadTime, ReadDeadline, Decide, Answered
<1>2. reads \in Seq(Times) /\ Len(reads) <= 3 /\ now \in Times
      /\ verdict \in {"none", "yes", "no"}
  BY DEF TimingsInv, LettersTypeOK
<1>3. CASE ReadDay
  <2>1. stage = "done" /\ reads = <<>> /\ reads' = <<now>> /\ verdict' = verdict
    BY <1>3 DEF ReadDay
  <2>2. LettersTypeOK'
    BY <1>2, <1>3, <2>1 DEF TimingsInv, LettersTypeOK, ReadDay
  <2> QED BY <1>1, <1>2, <2>1, <2>2
          DEF TimingsInv, Walking, Reading, Answering, HalfRead, ProcessingDay
<1>4. CASE ReadTime \/ ReadDeadline
  <2>1. /\ reads # <<>> /\ reads' = Append(reads, now) /\ verdict' = verdict
        /\ Len(reads) \in {1, 2}
        /\ Len(reads) = 2 =>
             verdict = "none" /\ _after_letter_processing_deadline(reads[2])
    BY <1>2, <1>4 DEF ReadTime, ReadDeadline
  <2>2. /\ reads'[1] = reads[1] /\ Len(reads') = Len(reads) + 1
        /\ Len(reads) = 2 => reads'[2] = reads[2]
    BY <1>2, <2>1
  <2>3. verdict = "none"
    BY <2>1 DEF TimingsInv, Answering
  <2>4. LettersTypeOK'
    <3>1. reads' \in Seq(Times) /\ Len(reads') <= 3
      BY <1>2, <2>1
    <3> QED BY <1>4, <3>1 DEF TimingsInv, LettersTypeOK, ReadTime, ReadDeadline
  <2>5. HalfRead'
    BY <1>2, <2>1, <2>2 DEF HalfRead, _after_letter_processing_deadline
  <2> QED BY <1>1, <2>1, <2>2, <2>3, <2>4, <2>5
          DEF TimingsInv, Walking, Reading, Answering, ProcessingDay
<1>5. CASE Decide
  <2>1. /\ reads' = reads /\ Len(reads) \in {2, 3}
        /\ Len(reads) = 3 <=> _after_letter_processing_deadline(reads[2])
        /\ verdict' = IF TooLate THEN "no" ELSE "yes"
    BY <1>5 DEF Decide, TimingsInv, HalfRead
  <2>2. LettersTypeOK'
    BY <1>5 DEF TimingsInv, LettersTypeOK, Decide
  <2>3. TooLate' <=> TooLate
    BY <1>1, <2>1 DEF TooLate, _notification_created_before_today_deadline,
         _notification_created_before_that_day_deadline
  <2>4. Answering'
    <3>1. (verdict' = "yes") <=> ~TooLate
      BY <2>1
    <3> QED BY <2>1, <2>3, <3>1 DEF Answering, _after_letter_processing_deadline
  <2>5. reads # <<>>
    BY <2>1
  <2> QED BY <1>1, <2>1, <2>2, <2>4, <2>5
          DEF TimingsInv, Walking, Reading, HalfRead, ProcessingDay,
              _after_letter_processing_deadline
<1>6. CASE Answered
  <2>1. LettersTypeOK'
    BY <1>6 DEF TimingsInv, LettersTypeOK, Answered
  <2> QED BY <1>1, <1>6, <2>1
          DEF TimingsInv, Answered, Walking, Reading, Answering, HalfRead, ProcessingDay
<1> QED BY <1>3, <1>4, <1>5, <1>6

LEMMA TickInvariant == TimingsInv /\ Tick => TimingsInv'
<1> SUFFICES ASSUME TimingsInv, Tick PROVE TimingsInv'
  OBVIOUS
<1> USE DEF Tick, timings_vars, cancel_vars
<1>1. now' \in Times /\ now.day <= now'.day /\ now.day \in Int /\ now'.day \in Int
      /\ created.day \in Int
  BY LaterIsATime, Created DEF TimingsInv, LettersTypeOK
<1>2. LettersTypeOK'
  BY <1>1 DEF TimingsInv, LettersTypeOK
<1> QED BY <1>1, <1>2
        DEF TimingsInv, Walking, Reading, Answering, HalfRead, ProcessingDay

LEMMA TimingsStepInvariant == TimingsInv /\ [LettersNext]_letters_vars => TimingsInv'
<1> SUFFICES ASSUME TimingsInv, UNCHANGED letters_vars PROVE TimingsInv'
  BY AdvanceInvariant, DaysInvariant, CancelInvariant, TickInvariant
  DEF LettersNext
<1> QED
  BY DEF letters_vars, timings_vars, cancel_vars, TimingsInv, LettersTypeOK, Walking,
         Reading, Answering, HalfRead, TooLate, ProcessingDay,
         _after_letter_processing_deadline,
         _notification_created_before_today_deadline,
         _notification_created_before_that_day_deadline

THEOREM TimingsInductive == LettersSpec => []TimingsInv
BY TimingsInitInvariant, TimingsStepInvariant, PTL DEF LettersSpec

(* Days, times, readings and answers have the types stated.                *)
THEOREM TimingsTypes == LettersSpec => []LettersTypeOK
<1>1. TimingsInv => LettersTypeOK
  BY DEF TimingsInv
<1> QED BY <1>1, TimingsInductive, PTL

(* What an answer of "yes" says of the day it was asked for on.            *)
LEMMA YesMeans ==
  ASSUME TimingsInv, verdict = "yes"
  PROVE  /\ reads[1] \in Times /\ created \in Times
         /\ reads[1].day <= created.day + 1
         /\ created.minute <= Deadline => reads[1].day <= created.day
<1>1. reads[1] \in Times /\ created \in Times
  BY DEF TimingsInv, Answering, LettersTypeOK
<1>2. ~TooLate
  BY DEF TimingsInv, Answering
<1>3. /\ reads[1].day \in Int /\ created.day \in Int /\ created.minute \in Int
      /\ created.second \in Int
  BY <1>1, Created
<1>4. created.minute <= Deadline => _notification_created_before_that_day_deadline
  <2>1. /\ DeadlineOf(created).day = created.day
        /\ DeadlineOf(created).minute = Deadline
        /\ DeadlineOf(created).second = created.second
    BY <1>1 DEF DeadlineOf, Times
  <2> QED BY <1>3, <2>1, LettersAssumption
          DEF _notification_created_before_that_day_deadline, Before
<1> QED BY <1>1, <1>2, <1>3, <1>4 DEF TooLate

(* Nobody is told a letter can be cancelled when it has been printed.      *)
THEOREM NotFromUnderThePress == LettersSpec => []CancellableIsNotPrinted
<1>1. TimingsInv => CancellableIsNotPrinted
  <2> SUFFICES ASSUME TimingsInv, verdict = "yes" PROVE ~Before(printed_by, reads[1])
    BY DEF CancellableIsNotPrinted, is_printed
  <2>1. /\ reads[1].day \in Int /\ created.day \in Int /\ created.minute \in Int
        /\ print_day \in Int
    BY YesMeans, Created DEF TimingsInv, LettersTypeOK
  <2>2. print_day > ProcessingDay(created)
    BY DEF TimingsInv, Walking
  <2>3. print_day > reads[1].day
    BY <2>1, <2>2, YesMeans, Created, LettersAssumption
  <2>4. printed_by.day = print_day
    BY DEF printed_by
  <2> QED BY <2>1, <2>3, <2>4 DEF Before
<1> QED BY <1>1, TimingsInductive, PTL

(* Within a day and outside the minute of the deadline, a letter can be    *)
(* cancelled until it is zipped and no longer.                             *)
THEOREM UntilProcessed == LettersSpec => []CancellableUntilProcessed
<1>1. TimingsInv => CancellableUntilProcessed
  <2> SUFFICES ASSUME TimingsInv, verdict # "none", created.minute # Deadline,
                      \A n \in DOMAIN reads : reads[n].day = reads[1].day
               PROVE  verdict = "yes" <=>
                        \/ reads[1].day < ZippedOn
                        \/ reads[1].day = ZippedOn /\ reads[2].minute < Deadline
    BY DEF CancellableUntilProcessed
  <2>1. /\ reads[1] \in Times /\ reads[2] \in Times /\ created \in Times
        /\ Len(reads) \in {2, 3}
        /\ Len(reads) = 3 => reads[3] \in Times /\ reads[3].day = reads[1].day
    BY DEF TimingsInv, Answering, LettersTypeOK
  <2>2. /\ created.day \in Int /\ created.minute \in Int /\ created.second \in Int
        /\ reads[1].day \in Int /\ reads[2].minute \in Int /\ Deadline \in Int
        /\ created.day <= reads[1].day
    <3>1. reads # <<>>
      BY <2>1
    <3> QED BY <2>1, <3>1, Created, LettersAssumption DEF TimingsInv, Reading
  <2>3. Len(reads) = 3 <=> reads[2].minute >= Deadline
    BY DEF TimingsInv, Answering, _after_letter_processing_deadline
  <2>4. _notification_created_before_that_day_deadline <=> created.minute < Deadline
    <3>1. /\ DeadlineOf(created).day = created.day
          /\ DeadlineOf(created).minute = Deadline
      BY <2>1 DEF DeadlineOf, Times
    <3> QED BY <2>2, <3>1 DEF _notification_created_before_that_day_deadline, Before
  <2>5. ASSUME Len(reads) = 3
        PROVE  _notification_created_before_today_deadline(reads[3]) <=>
                 created.day < reads[1].day \/ created.minute < Deadline
    <3>1. /\ DeadlineOf(reads[3]).day = reads[1].day
          /\ DeadlineOf(reads[3]).minute = Deadline
      BY <2>1, <2>5 DEF DeadlineOf, Times
    <3> QED BY <2>2, <3>1 DEF _notification_created_before_today_deadline, Before
  <2>6. TooLate <=>
          \/ /\ reads[2].minute >= Deadline
             /\ created.day < reads[1].day \/ created.minute < Deadline
          \/ created.minute < Deadline /\ created.day < reads[1].day
          \/ reads[1].day - created.day > 1
    BY <2>3, <2>4, <2>5 DEF TooLate
  <2>7. verdict = "yes" <=> ~TooLate
    BY DEF TimingsInv, Answering
  <2> QED BY <2>2, <2>6, <2>7 DEF ZippedOn
<1> QED BY <1>1, TimingsInductive, PTL

-----------------------------------------------------------------------------
(* A walk goes one way, and each of its days adds at most itself to those  *)
(* that count.                                                             *)

Worked == {d \in Between(walk.from, date) : IsWorkDayFor(stage, d)}

Counting ==
  stage # "done" =>
    /\ IF walk.days > 0 THEN walk.from <= date ELSE date <= walk.from
    /\ Cardinality(Worked) = IF walk.days > 0 THEN walk.days - days ELSE days - walk.days
    /\ days = 0 => date \in Worked

LEMMA WorkedIsFinite ==
  ASSUME LettersTypeOK
  PROVE  IsFiniteSet(Worked) /\ Cardinality(Worked) \in Nat
<1>1. walk.from \in Int /\ date \in Int
  BY DEF LettersTypeOK
<1>2. IsFiniteSet(Between(walk.from, date))
  <2>1. CASE walk.from < date
    <3>1. IsFiniteSet((walk.from + 1)..date)
      BY <1>1, FS_Interval
    <3> QED BY <2>1, <3>1 DEF Between
  <2>2. CASE ~(walk.from < date)
    <3>1. IsFiniteSet(date..(walk.from - 1))
      BY <1>1, FS_Interval
    <3> QED BY <2>2, <3>1 DEF Between
  <2> QED BY <2>1, <2>2
<1>3. Worked \subseteq Between(walk.from, date)
  BY DEF Worked
<1> QED BY <1>2, <1>3, FS_Subset, FS_CardinalityType

LEMMA NoDaysBetween ==
  ASSUME NEW day \in Int
  PROVE  Between(day, day) = {}
BY DEF Between

LEMMA AdvanceCounts ==
  ASSUME LettersTypeOK, LettersTypeOK', Counting, Advance
  PROVE  Counting'
<1>1. /\ walk.from \in Int /\ date \in Int /\ date' \in Int /\ days \in Int
      /\ walk.days \in Int \ {0}
  BY DEF LettersTypeOK
<1>2. /\ days # 0 /\ (days > 0 <=> walk.days > 0) /\ walk' = walk /\ stage' = stage
      /\ holidays' = holidays /\ postage' = postage /\ stage # "done"
  BY <1>1 DEF Advance, LettersTypeOK
<1>3. PICK unit \in {1, -1} :
        /\ unit = IF walk.days > 0 THEN 1 ELSE -1
        /\ date' = date + unit
        /\ days' = IF IsWorkDayFor(stage, date + unit) THEN days - unit ELSE days
  BY <1>1, <1>2 DEF Advance, Walk
<1>4. /\ IF walk.days > 0 THEN walk.from <= date ELSE date <= walk.from
      /\ Cardinality(Worked) = IF walk.days > 0 THEN walk.days - days ELSE days - walk.days
  BY <1>2 DEF Counting
<1>5. /\ Between(walk.from, date') = Between(walk.from, date) \cup {date'}
      /\ date' \notin Between(walk.from, date)
      /\ IF walk.days > 0 THEN walk.from <= date' ELSE date' <= walk.from
  <2>1. CASE walk.days > 0
    <3>1. date' = date + 1 /\ walk.from <= date
      BY <1>3, <1>4, <2>1
    <3>2. Between(walk.from, date') = (walk.from + 1)..date'
      BY <1>1, <3>1 DEF Between
    <3>3. Between(walk.from, date) = (walk.from + 1)..date
      BY <1>1, <3>1 DEF Between
    <3> QED BY <1>1, <2>1, <3>1, <3>2, <3>3
  <2>2. CASE ~(walk.days > 0)
    <3>1. date' = date - 1 /\ date <= walk.from
      BY <1>1, <1>3, <1>4, <2>2
    <3>2. Between(walk.from, date') = date'..(walk.from - 1)
      BY <1>1, <3>1 DEF Between
    <3>3. Between(walk.from, date) = date..(walk.from - 1)
      BY <1>1, <3>1 DEF Between
    <3> QED BY <1>1, <2>2, <3>1, <3>2, <3>3
  <2> QED BY <2>1, <2>2
<1>6. \A d : IsWorkDayFor(stage, d)' <=> IsWorkDayFor(stage, d)
  BY <1>2 DEF IsWorkDayFor, is_dvla_working_day, is_royal_mail_working_day, IsWorkDay
<1>7. Worked' = {d \in Between(walk.from, date') : IsWorkDayFor(stage, d)}
  BY <1>2, <1>6 DEF Worked, Between
<1>8. date' \notin Worked
  BY <1>5 DEF Worked
<1>9. CASE IsWorkDayFor(stage, date')
  <2>1. Worked' = Worked \cup {date'}
    BY <1>5, <1>7, <1>9 DEF Worked
  <2>2. Cardinality(Worked') = Cardinality(Worked) + 1
    BY <1>8, <2>1, WorkedIsFinite, FS_AddElement
  <2>3. days' = days - unit
    BY <1>3, <1>9
  <2>4. Cardinality(Worked') = IF walk.days > 0 THEN walk.days - days' ELSE days' - walk.days
    <3>1. CASE walk.days > 0
      BY <1>1, <1>3, <1>4, <2>2, <2>3, <3>1
    <3>2. CASE ~(walk.days > 0)
      BY <1>1, <1>3, <1>4, <2>2, <2>3, <3>2
    <3> QED BY <3>1, <3>2
  <2>5. date' \in Worked' /\ walk' = walk
    BY <1>2, <2>1
  <2>6. IF walk.days > 0 THEN walk.from <= date' ELSE date' <= walk.from
    BY <1>5
  <2> HIDE DEF Worked
  <2> QED BY <2>4, <2>5, <2>6 DEF Counting
<1>10. CASE ~IsWorkDayFor(stage, date')
  <2>1. Worked' = Worked
    BY <1>5, <1>7, <1>10 DEF Worked
  <2>2. days' = days
    BY <1>3, <1>10
  <2> QED BY <1>2, <1>4, <1>5, <2>1, <2>2 DEF Counting
<1> QED BY <1>9, <1>10

LEMMA CountingStep == TimingsInv /\ TimingsInv' /\ Counting /\ [LettersNext]_letters_vars => Counting'
<1> SUFFICES ASSUME TimingsInv, TimingsInv', Counting, [LettersNext]_letters_vars PROVE Counting'
  OBVIOUS
<1>1. LettersTypeOK /\ LettersTypeOK'
  BY DEF TimingsInv
<1>2. CASE Advance
  BY <1>1, <1>2, AdvanceCounts
<1>3. CASE \E s, from, n : StartWalk(s, from, n)
  <2>1. date' = walk'.from /\ days' = walk'.days
    BY <1>3 DEF StartWalk
  <2>2. date' \in Int /\ walk'.days \in Int \ {0}
    BY <1>1 DEF LettersTypeOK
  <2>3. Worked' = {}
    BY <2>1, <2>2, NoDaysBetween DEF Worked
  <2> QED BY <2>1, <2>2, <2>3, FS_EmptySet DEF Counting
<1>4. CASE stage' = "done"
  BY <1>4 DEF Counting
<1>5. CASE UNCHANGED timings_vars
  BY <1>5 DEF timings_vars, Counting, Worked, Between, IsWorkDayFor, is_dvla_working_day,
              is_royal_mail_working_day, IsWorkDay
<1>6. UNCHANGED letters_vars => UNCHANGED timings_vars
  BY DEF letters_vars
<1> QED BY <1>2, <1>3, <1>4, <1>5, <1>6
        DEF LettersNext, PrintDay, EarliestDelivery, LatestDelivery, OffsetDay, OffsetReturned,
            ReadDay, ReadTime, ReadDeadline, Decide, Answered, Tick

(* However many days a walk goes, in either direction, it has counted as   *)
(* many working days as it was asked for, and ends on one.                 *)
THEOREM WalksAlwaysCount == LettersSpec => []WalksCountWorkingDays
<1>1. LettersInit => Counting
  <2> SUFFICES ASSUME LettersInit PROVE Counting
    OBVIOUS
  <2>1. date = walk.from /\ days = walk.days /\ date \in Int /\ walk.days \in Int \ {0}
    BY TimingsInitInvariant DEF TimingsInv, LettersTypeOK, LettersInit
  <2>2. Worked = {}
    BY <2>1, NoDaysBetween DEF Worked
  <2> QED BY <2>1, <2>2, FS_EmptySet DEF Counting
<1>2. TimingsInv /\ Counting => WalksCountWorkingDays
  <2> SUFFICES ASSUME TimingsInv, Counting, stage # "done"
               PROVE  /\ Cardinality(Worked) = IF walk.days - days > 0 THEN walk.days - days
                                               ELSE -(walk.days - days)
                      /\ days = 0 => date \in Worked
    BY DEF WalksCountWorkingDays, Worked
  <2>1. walk.days \in Int \ {0} /\ days \in Int
        /\ IF walk.days > 0 THEN days <= walk.days ELSE walk.days <= days
    BY DEF TimingsInv, LettersTypeOK
  <2> QED BY <2>1 DEF Counting
<1>3. LettersSpec => []Counting
  BY <1>1, TimingsInductive, CountingStep, PTL DEF LettersSpec
<1> QED BY <1>2, <1>3, TimingsInductive, PTL

-----------------------------------------------------------------------------
(* The folders that letters are moved between.                             *)

(* The inductive invariant.  The source bucket holds the last upload or    *)
(* nothing, so a copy is of the last upload: a mover that is about to      *)
(* delete a file can do so, unless the file was uploaded since.            *)

InOrder(f) ==
  /\ source[f] \in {Absent, newest[f]}
  /\ dest[f] <= newest[f]

CopiedBefore(m) ==
  (step[m] = "delete" /\ obj_key[m] \notin torn) =>
    dest[obj_key[m]] = newest[obj_key[m]]

MovedSoFar(m) ==
  /\ \A f \in Files : listed[m][f] <= newest[f]
  /\ step[m] # "raised" =>
       \A f \in Files \ objects_to_move[m] : listed[m][f] <= dest[f]
  /\ step[m] = "delete" => listed[m][obj_key[m]] <= dest[obj_key[m]]
  /\ step[m] = "returned" => objects_to_move[m] = {}

MoveInv ==
  /\ MoveTypeOK
  /\ \A f \in Files : InOrder(f)
  /\ \A m \in Movers : CopiedBefore(m) /\ MovedSoFar(m)
  /\ NothingIsLost

LEMMA Values ==
  ASSUME MoveTypeOK
  PROVE  /\ Absent \in Versions
         /\ \A f \in Files : /\ source[f] \in Nat /\ dest[f] \in Nat
                             /\ newest[f] \in Nat
         /\ \A m \in Movers : /\ obj_key[m] \in Files
                              /\ \A f \in Files : listed[m][f] \in Nat
  BY MoveAssumption DEF MoveTypeOK, Versions, Absent

LEMMA MoveInitInvariant == MoveInit => MoveInv
<1> SUFFICES ASSUME MoveInit PROVE MoveInv
  OBVIOUS
<1>1. MoveTypeOK
  <2>1. (CHOOSE f \in Files : TRUE) \in Files
    BY MoveAssumption
  <2>2. Absent \in Versions
    BY MoveAssumption DEF Versions, Absent
  <2> QED BY <2>1, <2>2 DEF MoveInit, MoveTypeOK, Ended
<1>2. \A f \in Files : InOrder(f)
  BY DEF MoveInit, InOrder, Absent
<1>3. \A m \in Movers : CopiedBefore(m) /\ MovedSoFar(m)
  BY DEF MoveInit, CopiedBefore, MovedSoFar, Absent
<1>4. NothingIsLost
  BY DEF MoveInit, NothingIsLost
<1> QED BY <1>1, <1>2, <1>3, <1>4 DEF MoveInv

LEMMA UploadInvariant ==
  ASSUME MoveInv, NEW f \in Files, Upload(f)
  PROVE  MoveInv'
<1> USE DEF Upload
<1>1. MoveTypeOK'
  <2>1. newest[f] + 1 \in Versions
    BY MoveAssumption, Values DEF MoveInv, MoveTypeOK, Versions, Absent
  <2> QED BY <2>1 DEF MoveInv, MoveTypeOK
<1>2. newest'[f] = newest[f] + 1 /\ source'[f] = newest[f] + 1
  BY DEF MoveInv, MoveTypeOK
<1>3. \A g \in Files \ {f} : newest'[g] = newest[g] /\ source'[g] = source[g]
  BY DEF MoveInv, MoveTypeOK
<1>4. \A g \in Files : InOrder(g)'
  BY <1>2, <1>3, Values DEF MoveInv, InOrder
<1>5. \A m \in Movers : CopiedBefore(m)'
  BY <1>3, Values DEF MoveInv, CopiedBefore
<1>6. \A m \in Movers : MovedSoFar(m)'
  BY <1>2, <1>3, Values DEF MoveInv, MovedSoFar
<1>7. NothingIsLost'
  BY <1>2, <1>3 DEF MoveInv, NothingIsLost
<1> QED BY <1>1, <1>4, <1>5, <1>6, <1>7 DEF MoveInv

LEMMA ListInvariant ==
  ASSUME MoveInv, NEW m \in Movers, List(m)
  PROVE  MoveInv'
<1> USE DEF List
<1>1. MoveTypeOK'
  BY DEF MoveInv, MoveTypeOK
<1>2. \A f \in Files : InOrder(f)'
  BY DEF MoveInv, InOrder
<1>3. ASSUME NEW n \in Movers PROVE CopiedBefore(n)' /\ MovedSoFar(n)'
  <2>1. CASE n = m
    <3>1. step'[m] = "copy" /\ listed'[m] = source
          /\ objects_to_move'[m] = {f \in Files : source[f] # Absent}
      BY DEF MoveInv, MoveTypeOK
    <3> QED BY <2>1, <3>1, Values DEF MoveInv, InOrder, CopiedBefore, MovedSoFar, Absent
  <2>2. CASE n # m
    BY <2>2 DEF MoveInv, MoveTypeOK, CopiedBefore, MovedSoFar
  <2> QED BY <2>1, <2>2
<1>4. NothingIsLost'
  BY DEF MoveInv, NothingIsLost
<1> QED BY <1>1, <1>2, <1>3, <1>4 DEF MoveInv

LEMMA CopyInvariant ==
  ASSUME MoveInv, NEW m \in Movers, Copy(m)
  PROVE  MoveInv'
<1>1. PICK f \in objects_to_move[m] :
        CopyObject(f) /\ obj_key' = [obj_key EXCEPT ![m] = f]
  BY DEF Copy
<1>2. f \in Files
  BY <1>1 DEF MoveInv, MoveTypeOK
<1> USE DEF Copy
<1>3. MoveTypeOK'
  BY <1>1, <1>2 DEF MoveInv, MoveTypeOK, CopyObject
<1>4. dest'[f] = newest[f] /\ \A g \in Files \ {f} : dest'[g] = dest[g]
  BY <1>1, <1>2 DEF MoveInv, MoveTypeOK, CopyObject, InOrder
<1>5. \A n \in Movers, g \in Files :
        listed[n][g] <= dest[g] => listed[n][g] <= dest'[g]
  BY <1>2, <1>4, Values DEF MoveInv, MovedSoFar
<1>6. \A g \in Files : InOrder(g)'
  BY <1>4, Values DEF MoveInv, InOrder
<1>7. ASSUME NEW n \in Movers PROVE CopiedBefore(n)' /\ MovedSoFar(n)'
  <2>1. CASE n = m
    <3>1. step'[m] = "delete" /\ obj_key'[m] = f
      BY <1>1 DEF MoveInv, MoveTypeOK
    <3>2. step[m] = "copy"
      OBVIOUS
    <3>3. \A g \in Files \ objects_to_move[m] : listed[m][g] <= dest'[g]
      BY <1>5, <3>2 DEF MoveInv, MovedSoFar
    <3>4. CopiedBefore(m)'
      BY <1>4, <3>1 DEF CopiedBefore
    <3>5. listed' = listed /\ newest' = newest /\ objects_to_move' = objects_to_move
      OBVIOUS
    <3>6. \A g \in Files : listed[m][g] <= newest[g]
      BY DEF MoveInv, MovedSoFar
    <3>7. MovedSoFar(m)'
      BY <1>2, <1>4, <3>1, <3>3, <3>5, <3>6 DEF MovedSoFar
    <3> QED BY <2>1, <3>4, <3>7
  <2>2. CASE n # m
    <3>1. step'[n] = step[n] /\ obj_key'[n] = obj_key[n]
      BY <1>1, <2>2 DEF MoveInv, MoveTypeOK
    <3>3. obj_key[n] \in Files
      BY Values DEF MoveInv
    <3>4. CopiedBefore(n)'
      BY <1>4, <3>1, <3>3 DEF MoveInv, CopiedBefore
    <3>5. MovedSoFar(n)'
      BY <1>5, <3>1, <3>3 DEF MoveInv, MovedSoFar
    <3> QED BY <3>4, <3>5
  <2> QED BY <2>1, <2>2
<1>8. NothingIsLost'
  BY <1>4 DEF MoveInv, NothingIsLost
<1> QED BY <1>3, <1>6, <1>7, <1>8 DEF MoveInv

LEMMA DeleteInvariant ==
  ASSUME MoveInv, NEW m \in Movers, Delete(m)
  PROVE  MoveInv'
<1> USE DEF Delete, DeleteObject
<1>1. MoveTypeOK'
  BY Values DEF MoveInv, MoveTypeOK
<1>2. source'[obj_key[m]] = Absent
      /\ \A f \in Files \ {obj_key[m]} : source'[f] = source[f]
  BY DEF MoveInv, MoveTypeOK
<1>3. \A f \in Files : InOrder(f)'
  BY <1>2 DEF MoveInv, InOrder
<1>4. ASSUME NEW n \in Movers PROVE CopiedBefore(n)' /\ MovedSoFar(n)'
  <2>1. CASE n = m
    <3>1. step'[m] = "copy"
          /\ objects_to_move'[m] = objects_to_move[m] \ {obj_key[m]}
      BY DEF MoveInv, MoveTypeOK
    <3> QED BY <2>1, <3>1 DEF MoveInv, CopiedBefore, MovedSoFar
  <2>2. CASE n # m
    BY <2>2 DEF MoveInv, MoveTypeOK, CopiedBefore, MovedSoFar
  <2> QED BY <2>1, <2>2
<1>5. NothingIsLost'
  BY <1>2 DEF MoveInv, NothingIsLost, CopiedBefore
<1> QED BY <1>1, <1>3, <1>4, <1>5 DEF MoveInv

LEMMA EndInvariant ==
  ASSUME MoveInv, NEW m \in Movers, Return(m) \/ Raise(m)
  PROVE  MoveInv'
<1> USE DEF Return, Raise, Done
<1>1. MoveTypeOK'
  BY DEF MoveInv, MoveTypeOK, Ended
<1>2. \A f \in Files : InOrder(f)'
  BY DEF MoveInv, InOrder
<1>3. \A n \in Movers : CopiedBefore(n)' /\ MovedSoFar(n)'
  BY DEF MoveInv, MoveTypeOK, CopiedBefore, MovedSoFar
<1>4. NothingIsLost'
  BY DEF MoveInv, NothingIsLost
<1> QED BY <1>1, <1>2, <1>3, <1>4 DEF MoveInv

LEMMA MoveStepInvariant == MoveInv /\ [MoveNext]_move_vars => MoveInv'
<1> SUFFICES ASSUME MoveInv, [MoveNext]_move_vars PROVE MoveInv'
  OBVIOUS
<1>1. CASE UNCHANGED move_vars
  BY <1>1 DEF move_vars, MoveInv, MoveTypeOK, InOrder, CopiedBefore, MovedSoFar,
              NothingIsLost
<1>2. ASSUME NEW f \in Files, Upload(f) PROVE MoveInv'
  BY <1>2, UploadInvariant
<1>3. ASSUME NEW m \in Movers, List(m) \/ Copy(m) \/ Delete(m) \/ Return(m) \/ Raise(m)
      PROVE  MoveInv'
  BY <1>3, ListInvariant, CopyInvariant, DeleteInvariant, EndInvariant
<1> QED BY <1>1, <1>2, <1>3 DEF MoveNext

THEOREM MoveInductive == MoveSpec => []MoveInv
BY MoveInitInvariant, MoveStepInvariant, PTL DEF MoveSpec

(* The state of the buckets and of the calls has the types stated.         *)
THEOREM MoveTypes == MoveSpec => []MoveTypeOK
<1>1. MoveInv => MoveTypeOK
  BY DEF MoveInv
<1> QED BY <1>1, MoveInductive, PTL

(* Whatever fails, a file is in one of the buckets in its last version.    *)
THEOREM FilesAreKept == MoveSpec => []NothingIsLost
<1>1. MoveInv => NothingIsLost
  BY DEF MoveInv
<1> QED BY <1>1, MoveInductive, PTL

(* A call that returns without an exception has moved what it listed.      *)
THEOREM MovedWhenReturned == MoveSpec => []ReturnedMeansMoved
<1>1. MoveInv => ReturnedMeansMoved
  BY DEF MoveInv, MovedSoFar, ReturnedMeansMoved
<1> QED BY <1>1, MoveInductive, PTL

-----------------------------------------------------------------------------
(* Addresses in the United Kingdom.  What a name is looked up as.          *)
Numbers == {Numerals[word] : word \in DOMAIN Numerals}

LEMMA NamesFound == ASSUME NEW name PROVE CountryOf(name) \in CanonicalNames \cup {NotFound}
<1>1. PICK tried : tried = <<name, <<"the">> \o name, <<"yr">> \o name, <<"y">> \o name>>
  OBVIOUS
<1>2. tried \in Seq(ToSet(tried))
  <2>1. DOMAIN tried = 1..4
    BY <1>1
  <2>2. tried \in [1..4 -> ToSet(tried)]
    BY <1>1, <2>1 DEF ToSet
  <2> QED BY <2>2, SeqDef
<1>3. PICK keys : keys = {form \in ToSet(tried) : IsKey(form)}
  OBVIOUS
<1>4. PICK found : found = Where(tried, keys)
  OBVIOUS
<1>5. CountryOf(name) = IF found = <<>> THEN NotFound ELSE countries[_normalise_country_name(Head(found))]
  BY <1>1, <1>3, <1>4 DEF CountryOf
<1>6. ASSUME found # <<>> PROVE countries[_normalise_country_name(Head(found))] \in CanonicalNames
  <2>1. found \in Seq(ToSet(tried)) /\ ToSet(found) = ToSet(tried) \cap keys
    BY <1>2, <1>4, WhereItems
  <2>2. Head(found) \in ToSet(found)
    <3>1. 1 \in DOMAIN found /\ Head(found) = found[1]
      BY <1>6, <2>1
    <3> QED BY <3>1 DEF ToSet
  <2>3. IsKey(Head(found))
    BY <1>3, <2>1, <2>2
  <2> QED BY <2>3 DEF IsKey, CanonicalNames
<1> QED BY <1>5, <1>6

LEMMA ZoneOf ==
  ASSUME NEW name PROVE postage_zone(name) = "united-kingdom" <=> name = UK
  BY DEF postage_zone

LEMMA InternationalIs ==
  ASSUME NEW a PROVE international(a) <=> a.country # UK
  BY ZoneOf DEF international, postage_of

(* What a canonical name abroad is found as.                               *)
LEMMA NamesStay ==
  ASSUME NEW name \in CanonicalNames \ {UK}
  PROVE  /\ CountryOf(name) \in CanonicalNames \ {UK}
         /\ CountryOf(CountryOf(name)) = CountryOf(name)
         /\ postage_zone(CountryOf(name)) = postage_zone(name)
<1>1. /\ CountryOf(name) # NotFound /\ CountryOf(CountryOf(name)) = CountryOf(name)
      /\ postage_zone(CountryOf(name)) = postage_zone(name)
  BY CountriesAssumption, Zenon
<1>2. CountryOf(name) \in CanonicalNames
  BY <1>1, NamesFound
<1>3. CountryOf(name) # UK
  BY <1>1, ZoneOf
<1> QED BY <1>1, <1>2, <1>3

-----------------------------------------------------------------------------
(* Lines of addresses.                                                     *)
GivenLines == UNION {ToSet(raw_address) : raw_address \in UKAddresses}
BfpoLines == {<<"BFPO", number>> : number \in Numbers}
PostcodeLines == {<<Postcode[word]>> : word \in DOMAIN Postcode}

UKLines == {<<>>} \cup CanonicalNames \cup GivenLines \cup BfpoLines \cup PostcodeLines

IsNumbered(line) == IsBfpo(line) /\ Last(line) \in DOMAIN Numerals

(* The lines beside those of a BFPO address with that number, or none.     *)
AreBeside(lines, number) ==
  /\ lines \in Seq(UKLines)
  /\ \A n \in 1..Len(lines) :
       ~IsNumbered(lines[n]) /\ (number # NoNumber => ~IsBfpo(lines[n]))

AreWritten(lines) == \A n \in 1..Len(lines) : lines[n] # <<>>

AtHomeEnds(lines) == lines = <<>> \/ CountryOf(lines[Len(lines)]) = NotFound

(* What an address is that no country stands beneath another in.           *)
Sound(a) ==
  LET lines == a.lines_without_country_or_bfpo IN
  /\ a.bfpo_number \in Numbers \cup {NoNumber}
  /\ a.country \in CanonicalNames
  /\ AreBeside(lines, a.bfpo_number)
  /\ \/ AreWritten(lines)
     \/ lines = <<<<>>>> /\ a.bfpo_number = NoNumber /\ a.country = UK
  /\ a.country = UK => AtHomeEnds(lines)

LEMMA LinesThatAre ==
  /\ \A word \in DOMAIN Postcode : <<Postcode[word]>> \in UKLines
  /\ \A number \in Numbers : <<"BFPO", number>> \in UKLines
  /\ CanonicalNames \subseteq UKLines /\ <<>> \in UKLines
<1>1. ASSUME NEW word \in DOMAIN Postcode PROVE <<Postcode[word]>> \in UKLines
  <2>1. <<Postcode[word]>> \in PostcodeLines
    BY DEF PostcodeLines
  <2> QED BY <2>1 DEF UKLines
<1>2. ASSUME NEW number \in Numbers PROVE <<"BFPO", number>> \in UKLines
  <2>1. <<"BFPO", number>> \in BfpoLines
    BY DEF BfpoLines
  <2> QED BY <2>1 DEF UKLines
<1>3. CanonicalNames \subseteq UKLines /\ <<>> \in UKLines
  BY Zenon DEF UKLines
<1> QED BY <1>1, <1>2, <1>3

LEMMA BfpoOrNot ==
  /\ \A number \in Numbers :
       /\ IsBfpo(<<"BFPO", number>>) /\ IsNumbered(<<"BFPO", number>>)
       /\ Numerals[Last(<<"BFPO", number>>)] = number /\ number # NoNumber
       /\ <<"BFPO", number>> # <<>>
  /\ \A word \in DOMAIN Postcode :
       ~IsBfpo(<<Postcode[word]>>) /\ CountryOf(<<Postcode[word]>>) = NotFound
  /\ \A name \in CanonicalNames : ~IsBfpo(name) /\ name # <<>>
<1>1. ASSUME NEW number \in Numbers
      PROVE  /\ IsBfpo(<<"BFPO", number>>) /\ IsNumbered(<<"BFPO", number>>)
             /\ Numerals[Last(<<"BFPO", number>>)] = number /\ number # NoNumber
             /\ <<"BFPO", number>> # <<>>
  <2>1. PICK word \in DOMAIN Numerals : number = Numerals[word]
    BY DEF Numbers
  <2>2. number # NoNumber /\ number \in DOMAIN Numerals /\ Numerals[number] = number
    BY <2>1, NamesAssumption
  <2>3. PICK line : line = <<"BFPO", number>>
    OBVIOUS
  <2>4. line # <<>> /\ Head(line) = "BFPO" /\ Tail(line) = <<number>> /\ Last(line) = number
    BY <2>3 DEF Last
  <2>5. <<number>> \in UNION {{<<other>>, <<"c/o", other>>} : other \in DOMAIN Numerals}
    BY <2>2
  <2>6. IsBfpo(line)
    BY <2>4, <2>5 DEF IsBfpo
  <2> QED BY <2>2, <2>3, <2>4, <2>6 DEF IsNumbered
<1>2. ASSUME NEW word \in DOMAIN Postcode
      PROVE  ~IsBfpo(<<Postcode[word]>>) /\ CountryOf(<<Postcode[word]>>) = NotFound
  <2>1. Postcode[word] # "BFPO" /\ CountryOf(<<Postcode[word]>>) = NotFound
    BY NamesAssumption
  <2>2. Head(<<Postcode[word]>>) = Postcode[word]
    OBVIOUS
  <2> QED BY <2>1, <2>2 DEF IsBfpo
<1>3. ASSUME NEW name \in CanonicalNames PROVE ~IsBfpo(name) /\ name # <<>>
  BY NamesAssumption DEF IsBfpo
<1> QED BY <1>1, <1>2, <1>3, Zenon

LEMMA FirstLines ==
  ASSUME NEW S, NEW list \in Seq(S), NEW m \in 0..Len(list)
  PROVE  /\ SubSeq(list, 1, m) \in Seq(S) /\ Len(SubSeq(list, 1, m)) = m
         /\ \A k \in 1..m : SubSeq(list, 1, m)[k] = list[k]
<1>1. PICK n \in Nat : n = Len(list)
  BY LenProperties
<1>2. \A k \in 1..m : list[k] \in S
  <2>1. \A k \in 1..m : k \in 1..Len(list)
    BY <1>1
  <2> QED BY <2>1, ElementOfSeq
<1>3. m \in Int /\ 1 \in Int
  BY <1>1
<1>4. /\ SubSeq(list, 1, m) \in Seq(S)
      /\ Len(SubSeq(list, 1, m)) = IF 1 <= m THEN m - 1 + 1 ELSE 0
      /\ \A k \in 1..(m - 1 + 1) : SubSeq(list, 1, m)[k] = list[1 + k - 1]
  BY <1>2, <1>3, SubSeqProperties
<1>5. m - 1 + 1 = m /\ (~(1 <= m) => m = 0) /\ \A k \in 1..m : 1 + k - 1 = k
  BY <1>1
<1> QED BY <1>4, <1>5

(* The postcode, and the lines with it in its normal form.                 *)
LEMMA PostcodeIs ==
  ASSUME NEW a, Sound(a), NEW lines, lines = a.lines_without_country_or_bfpo
  PROVE  /\ ~has_valid_postcode(a) => postcode(a) = <<>> /\ WithPostcode(a) = lines
         /\ has_valid_postcode(a) =>
              /\ a.country = UK /\ Len(lines) \in Nat \ {0}
              /\ \E word \in DOMAIN Postcode : postcode(a) = <<Postcode[word]>>
              /\ WithPostcode(a) = Append(SubSeq(lines, 1, Len(lines) - 1), postcode(a))
<1>1. lines \in Seq(UKLines)
  BY DEF Sound, AreBeside
<1>2. ~has_valid_postcode(a) => postcode(a) = <<>> /\ WithPostcode(a) = lines
  BY DEF WithPostcode, has_valid_postcode, NoPostcode
<1>3. ASSUME has_valid_postcode(a)
      PROVE  /\ a.country = UK /\ Len(lines) \in Nat \ {0}
             /\ \E word \in DOMAIN Postcode : postcode(a) = <<Postcode[word]>>
             /\ WithPostcode(a) = Append(SubSeq(lines, 1, Len(lines) - 1), postcode(a))
  <2>1. ~international(a) /\ lines # <<>> /\ postcode(a) = format_postcode_or_none(Last(lines))
    BY <1>3 DEF has_valid_postcode, postcode
  <2>2. a.country = UK
    BY <2>1, InternationalIs
  <2>3. Len(lines) \in Nat \ {0}
    BY <1>1, <2>1, EmptySeq, LenProperties
  <2>4. PICK line : line = Last(lines)
    OBVIOUS
  <2>5. Head(line) \in DOMAIN Postcode /\ postcode(a) = <<Postcode[Head(line)]>>
    BY <1>3, <2>1, <2>4 DEF has_valid_postcode, format_postcode_or_none, NoPostcode
  <2>6. WithPostcode(a) = Append(SubSeq(lines, 1, Len(lines) - 1), postcode(a))
    BY <1>3 DEF WithPostcode, Front
  <2> QED BY <2>2, <2>3, <2>5, <2>6
<1> QED BY <1>2, <1>3

LEMMA BodyIs ==
  ASSUME NEW a, Sound(a), NEW lines, lines = a.lines_without_country_or_bfpo,
         NEW body, body = WithPostcode(a)
  PROVE  /\ AreBeside(body, a.bfpo_number) /\ Len(body) = Len(lines) /\ Len(lines) \in Nat
         /\ AreWritten(lines) => AreWritten(body)
         /\ AreWritten(body) \/ (body = <<<<>>>> /\ a.bfpo_number = NoNumber /\ a.country = UK)
         /\ a.country = UK => AtHomeEnds(body)
<1>1. lines \in Seq(UKLines) /\ Len(lines) \in Nat
  BY LenProperties DEF Sound, AreBeside
<1>2. CASE ~has_valid_postcode(a)
  <2>1. body = lines
    BY <1>2, PostcodeIs
  <2> QED BY <1>1, <2>1 DEF Sound
<1>3. CASE has_valid_postcode(a)
  <2>1. PICK n \in Nat : Len(lines) = n + 1
    <3>1. Len(lines) \in Nat \ {0}
      BY <1>3, PostcodeIs
    <3>2. Len(lines) - 1 \in Nat /\ Len(lines) = (Len(lines) - 1) + 1
      BY <3>1
    <3> QED BY <3>2
  <2>2. PICK word \in DOMAIN Postcode : postcode(a) = <<Postcode[word]>>
    BY <1>3, PostcodeIs
  <2>3. PICK code \in UKLines : code = <<Postcode[word]>>
    BY LinesThatAre
  <2>4. PICK first : first = SubSeq(lines, 1, n)
    OBVIOUS
  <2>5. first \in Seq(UKLines) /\ Len(first) = n /\ \A k \in 1..n : first[k] = lines[k]
    <3>1. n \in 0..Len(lines)
      BY <2>1
    <3> QED BY <1>1, <2>4, <3>1, FirstLines
  <2>6. body = Append(first, code)
    <3>1. Len(lines) - 1 = n
      BY <2>1
    <3> QED BY <1>3, <2>2, <2>3, <2>4, <3>1, PostcodeIs
  <2>7. /\ body \in Seq(UKLines) /\ Len(body) = n + 1 /\ body[n + 1] = code
        /\ \A k \in 1..n : body[k] = lines[k]
    BY <2>5, <2>6, Appended
  <2>8. ~IsBfpo(code) /\ CountryOf(code) = NotFound /\ code # <<>>
    BY <2>3, BfpoOrNot
  <2>9. 1..(n + 1) = 1..n \cup {n + 1}
    OBVIOUS
  <2>10. AreBeside(body, a.bfpo_number)
    BY <2>1, <2>7, <2>8, <2>9 DEF Sound, AreBeside, IsNumbered
  <2>11. AreWritten(lines) => AreWritten(body)
    BY <2>1, <2>7, <2>8, <2>9 DEF AreWritten
  <2>12. AtHomeEnds(body)
    BY <2>7, <2>8 DEF AtHomeEnds
  <2>13. AreWritten(body)
    <3>1. CASE AreWritten(lines)
      BY <2>11, <3>1
    <3>2. CASE lines = <<<<>>>>
      <4>1. n = 0
        <5>1. Len(<<<<>>>>) = 1
          OBVIOUS
        <5>2. n + 1 = 1
          BY <2>1, <3>2, <5>1
        <5> QED BY <5>2
      <4> QED BY <2>7, <2>8, <4>1 DEF AreWritten
    <3> QED BY <3>1, <3>2 DEF Sound
  <2> QED BY <1>1, <2>1, <2>7, <2>10, <2>11, <2>12, <2>13
<1> QED BY <1>2, <1>3

-----------------------------------------------------------------------------
(* The normal form, and what it is read as: the same lines and number, and *)
(* what the name of the country is found as.                               *)
Footed(lines, number) == IF number = NoNumber THEN lines ELSE Append(lines, <<"BFPO", number>>)

EndedWith(lines, name) == IF name = UK THEN lines ELSE Append(lines, name)

Reread(a) ==
  [bfpo_number |-> a.bfpo_number,
   lines_without_bfpo |-> EndedWith(WithPostcode(a), a.country),
   country |-> IF a.country = UK THEN UK ELSE CountryOf(a.country),
   lines_without_country_or_bfpo |-> WithPostcode(a)]

LEMMA NormalIs ==
  ASSUME NEW a, Sound(a), NEW body, body = WithPostcode(a)
  PROVE  /\ normalised_lines(a) = EndedWith(Footed(body, a.bfpo_number), a.country)
         /\ Footed(body, a.bfpo_number) \in Seq(UKLines)
         /\ normalised_lines(a) \in Seq(UKLines)
<1>1. body \in Seq(UKLines) /\ a.bfpo_number \in Numbers \cup {NoNumber} /\ a.country \in CanonicalNames
  BY BodyIs DEF AreBeside, Sound
<1>2. PICK line : line = <<"BFPO", a.bfpo_number>>
  OBVIOUS
<1>3. PICK footer : footer = IF a.bfpo_number # NoNumber THEN <<line>> ELSE <<>>
  OBVIOUS
<1>4. PICK ending : ending = IF a.country # UK THEN <<a.country>> ELSE <<>>
  OBVIOUS
<1>5. normalised_lines(a) = (body \o footer) \o ending
  BY <1>2, <1>3, <1>4, InternationalIs DEF normalised_lines, is_bfpo_address
<1>6. PICK footed : footed = Footed(body, a.bfpo_number)
  OBVIOUS
<1>7. body \o footer = footed /\ footed \in Seq(UKLines)
  <2>1. CASE a.bfpo_number = NoNumber
    BY <1>1, <1>3, <1>6, <2>1, ConcatEmptySeq DEF Footed
  <2>2. CASE a.bfpo_number # NoNumber
    <3>1. line \in UKLines
      BY <1>1, <1>2, <2>2, LinesThatAre
    <3>2. footed = Append(body, line) /\ footer = <<line>>
      BY <1>2, <1>3, <1>6, <2>2 DEF Footed
    <3> QED BY <1>1, <3>1, <3>2, AppendIsConcat, Appended
  <2> QED BY <2>1, <2>2
<1>8. footed \o ending = EndedWith(footed, a.country) /\ EndedWith(footed, a.country) \in Seq(UKLines)
  <2>1. CASE a.country = UK
    BY <1>4, <1>7, <2>1, ConcatEmptySeq DEF EndedWith
  <2>2. CASE a.country # UK
    <3>1. a.country \in UKLines
      BY <1>1, <2>2, LinesThatAre
    <3>2. EndedWith(footed, a.country) = Append(footed, a.country) /\ ending = <<a.country>>
      BY <1>4, <2>2 DEF EndedWith
    <3> QED BY <1>7, <3>1, <3>2, AppendIsConcat, Appended
  <2> QED BY <2>1, <2>2
<1> QED BY <1>5, <1>6, <1>7, <1>8

LEMMA OneMoreWritten ==
  ASSUME NEW S, NEW lines \in Seq(S), NEW line \in S, AreWritten(lines), line # <<>>
  PROVE  AreWritten(Append(lines, line))
<1>1. PICK n \in Nat : n = Len(lines)
  BY LenProperties
<1>2. PICK more : more = Append(lines, line)
  OBVIOUS
<1>3. Len(more) = n + 1 /\ more[n + 1] = line /\ \A k \in 1..n : more[k] = lines[k]
  BY <1>1, <1>2, Appended
<1>4. 1..(n + 1) = 1..n \cup {n + 1}
  OBVIOUS
<1> QED BY <1>1, <1>2, <1>3, <1>4 DEF AreWritten

LEMMA NormalIsWritten ==
  ASSUME NEW a, Sound(a)
  PROVE  AreWritten(normalised_lines(a)) \/ normalised_lines(a) = <<<<>>>>
<1>1. PICK body : body = WithPostcode(a)
  OBVIOUS
<1>2. PICK footed : footed = Footed(body, a.bfpo_number)
  OBVIOUS
<1>3. body \in Seq(UKLines) /\ a.bfpo_number \in Numbers \cup {NoNumber} /\ a.country \in CanonicalNames
  BY <1>1, BodyIs DEF AreBeside, Sound
<1>4. normalised_lines(a) = EndedWith(footed, a.country) /\ footed \in Seq(UKLines)
  BY <1>1, <1>2, NormalIs
<1>5. CASE AreWritten(body)
  <2>1. AreWritten(footed)
    <3>1. CASE a.bfpo_number = NoNumber
      BY <1>2, <1>5, <3>1 DEF Footed
    <3>2. CASE a.bfpo_number # NoNumber
      <4>1. PICK line : line = <<"BFPO", a.bfpo_number>>
        OBVIOUS
      <4>2. line \in UKLines /\ line # <<>>
        BY <1>3, <3>2, <4>1, LinesThatAre, BfpoOrNot
      <4>3. footed = Append(body, line)
        BY <1>2, <3>2, <4>1 DEF Footed
      <4> QED BY <1>3, <1>5, <4>2, <4>3, OneMoreWritten
    <3> QED BY <3>1, <3>2
  <2>2. CASE a.country = UK
    BY <1>4, <2>1, <2>2 DEF EndedWith
  <2>3. CASE a.country # UK
    <3>1. a.country \in UKLines /\ a.country # <<>>
      BY <1>3, <2>3, LinesThatAre, BfpoOrNot
    <3>2. EndedWith(footed, a.country) = Append(footed, a.country)
      BY <2>3 DEF EndedWith
    <3> QED BY <1>4, <2>1, <3>1, <3>2, OneMoreWritten
  <2> QED BY <2>2, <2>3
<1>6. CASE body = <<<<>>>> /\ a.bfpo_number = NoNumber /\ a.country = UK
  BY <1>2, <1>4, <1>6 DEF Footed, EndedWith
<1> QED BY <1>1, <1>5, <1>6, BodyIs

(* The lines of the normal form, each in its place.                        *)
TextPlaces(text, body, number, name) ==
  /\ \A k \in 1..Len(text) :
       \/ k \in 1..Len(body) /\ text[k] = body[k]
       \/ number # NoNumber /\ k = Len(body) + 1 /\ text[k] = <<"BFPO", number>>
       \/ name # UK /\ text[k] = name
  /\ number # NoNumber =>
       Len(body) + 1 \in 1..Len(text) /\ text[Len(body) + 1] = <<"BFPO", number>>

LEMMA NormalPlaces ==
  ASSUME NEW a, Sound(a), NEW body, body = WithPostcode(a)
  PROVE  TextPlaces(normalised_lines(a), body, a.bfpo_number, a.country)
<1>1. PICK number : number = a.bfpo_number
  OBVIOUS
<1>2. PICK name : name = a.country
  OBVIOUS
<1>3. PICK footed : footed = Footed(body, number)
  OBVIOUS
<1>4. PICK text : text = normalised_lines(a)
  OBVIOUS
<1>5. /\ body \in Seq(UKLines) /\ number \in Numbers \cup {NoNumber} /\ name \in CanonicalNames
      /\ footed \in Seq(UKLines) /\ text = EndedWith(footed, name)
  BY <1>1, <1>2, <1>3, <1>4, BodyIs, NormalIs DEF AreBeside, Sound
<1>6. PICK n \in Nat : n = Len(body)
  BY <1>5, LenProperties
<1>7. PICK line : line = <<"BFPO", number>>
  OBVIOUS
<1>8. /\ \A k \in 1..Len(footed) :
           \/ k \in 1..n /\ footed[k] = body[k]
           \/ number # NoNumber /\ k = n + 1 /\ footed[k] = line
      /\ number # NoNumber => Len(footed) = n + 1 /\ footed[n + 1] = line
  <2>1. CASE number = NoNumber
    <3>1. footed = body
      BY <1>3, <2>1 DEF Footed
    <3> QED BY <1>6, <2>1, <3>1, Zenon
  <2>2. CASE number # NoNumber
    <3>1. line \in UKLines
      BY <1>5, <1>7, <2>2, LinesThatAre
    <3>2. footed = Append(body, line)
      BY <1>3, <1>7, <2>2 DEF Footed
    <3>3. Len(footed) = n + 1 /\ footed[n + 1] = line /\ \A k \in 1..n : footed[k] = body[k]
      BY <1>5, <1>6, <3>1, <3>2, Appended
    <3>4. 1..(n + 1) = 1..n \cup {n + 1}
      OBVIOUS
    <3>5. \A k \in 1..Len(footed) : k \in 1..n \/ k = n + 1
      BY <3>3, <3>4
    <3> QED BY <2>2, <3>3, <3>5, Zenon
  <2> QED BY <2>1, <2>2
<1>9. PICK m \in Nat : m = Len(footed)
  BY <1>5, LenProperties
<1>10. /\ \A k \in 1..Len(text) :
            \/ k \in 1..m /\ text[k] = footed[k]
            \/ name # UK /\ text[k] = name
       /\ \A k \in 1..m : k \in 1..Len(text) /\ text[k] = footed[k]
  <2>1. CASE name = UK
    <3>1. text = footed
      BY <1>5, <2>1 DEF EndedWith
    <3> QED BY <1>9, <2>1, <3>1, Zenon
  <2>2. CASE name # UK
    <3>1. name \in UKLines
      BY <1>5, <2>2, LinesThatAre
    <3>2. text = Append(footed, name)
      BY <1>5, <2>2 DEF EndedWith
    <3>3. Len(text) = m + 1 /\ text[m + 1] = name /\ \A k \in 1..m : text[k] = footed[k]
      BY <1>5, <1>9, <3>1, <3>2, Appended
    <3>4. 1..(m + 1) = 1..m \cup {m + 1}
      OBVIOUS
    <3>5. \A k \in 1..Len(text) : k \in 1..m \/ k = m + 1
      BY <3>3, <3>4
    <3>6. \A k \in 1..m : k \in 1..Len(text)
      BY <3>3, <3>4
    <3> QED BY <2>2, <3>3, <3>5, <3>6, Zenon
  <2> QED BY <2>1, <2>2
<1>11. number # NoNumber => n + 1 \in 1..Len(text) /\ text[n + 1] = line
  <2> HAVE number # NoNumber
  <2>1. n + 1 \in 1..m
    BY <1>8, <1>9
  <2> QED BY <1>8, <1>10, <2>1
<1>12. ASSUME NEW k \in 1..Len(text)
       PROVE  \/ k \in 1..n /\ text[k] = body[k]
              \/ number # NoNumber /\ k = n + 1 /\ text[k] = line
              \/ name # UK /\ text[k] = name
  BY <1>8, <1>9, <1>10
<1> QED BY <1>1, <1>2, <1>4, <1>6, <1>7, <1>11, <1>12, Zenon DEF TextPlaces

LEMMA TextIs ==
  ASSUME NEW a, Sound(a), NEW body, body = WithPostcode(a), NEW text, text = normalised_lines(a)
  PROVE  /\ BfpoNumber(text) = a.bfpo_number
         /\ _parse_and_extract_bfpo(text, a.bfpo_number) = EndedWith(body, a.country)
<1>1. PICK number : number = a.bfpo_number
  OBVIOUS
<1>2. PICK name : name = a.country
  OBVIOUS
<1>3. /\ AreBeside(body, number) /\ number \in Numbers \cup {NoNumber}
      /\ name \in CanonicalNames
  BY <1>1, <1>2, BodyIs DEF Sound
<1>4. /\ text \in Seq(UKLines) /\ text = EndedWith(Footed(body, number), name)
      /\ TextPlaces(text, body, number, name)
  BY <1>1, <1>2, NormalIs, NormalPlaces
<1>5. PICK n \in Nat : n = Len(body)
  BY <1>3, LenProperties DEF AreBeside
<1>6. PICK line : line = <<"BFPO", number>>
  OBVIOUS
<1>7. name # UK => ~IsBfpo(name)
  BY <1>3, BfpoOrNot
<1>8. DOMAIN text = 1..Len(text)
  BY <1>4, LenProperties
<1>9. PICK numbered : numbered = {k \in DOMAIN text : IsBfpo(text[k]) /\ Last(text[k]) \in DOMAIN Numerals}
  OBVIOUS
<1>10. BfpoNumber(text) = IF numbered = {} THEN NoNumber ELSE Numerals[Last(text[Min(numbered)])]
  BY <1>9 DEF BfpoNumber
<1>11. \A k \in numbered : number # NoNumber /\ k = n + 1
  <2> TAKE k \in numbered
  <2>1. k \in 1..Len(text) /\ IsNumbered(text[k])
    BY <1>8, <1>9 DEF IsNumbered
  <2>2. \/ k \in 1..n /\ text[k] = body[k]
        \/ number # NoNumber /\ k = n + 1 /\ text[k] = line
        \/ name # UK /\ text[k] = name
    BY <1>4, <1>5, <1>6, <2>1 DEF TextPlaces
  <2>3. ~(k \in 1..n /\ text[k] = body[k])
    BY <1>3, <1>5, <2>1 DEF AreBeside
  <2>4. ~(name # UK /\ text[k] = name)
    BY <1>7, <2>1 DEF IsNumbered
  <2> QED BY <2>2, <2>3, <2>4
<1>12. CASE number = NoNumber
  <2>1. BfpoNumber(text) = number
    BY <1>10, <1>11, <1>12
  <2>2. _parse_and_extract_bfpo(text, number) = EndedWith(body, name)
    BY <1>4, <1>12 DEF _parse_and_extract_bfpo, Footed
  <2> QED BY <1>1, <1>2, <2>1, <2>2
<1>13. CASE number # NoNumber
  <2>1. n + 1 \in 1..Len(text) /\ text[n + 1] = line
    BY <1>4, <1>5, <1>6, <1>13 DEF TextPlaces
  <2>2. IsBfpo(line) /\ IsNumbered(line) /\ Numerals[Last(line)] = number
    BY <1>3, <1>6, <1>13, BfpoOrNot
  <2>3. n + 1 \in numbered
    BY <1>8, <1>9, <2>1, <2>2 DEF IsNumbered
  <2>4. Min(numbered) = n + 1
    <3>1. numbered \subseteq 1..Len(text) /\ numbered # {}
      BY <1>8, <1>9, <2>3
    <3>2. Len(text) \in Nat
      BY <1>4, LenProperties
    <3>3. Min(numbered) \in numbered
      BY <3>1, <3>2, LeastPlace
    <3> QED BY <1>11, <3>3
  <2>5. BfpoNumber(text) = number
    BY <1>10, <2>1, <2>2, <2>3, <2>4
  <2>6. PICK chosen : chosen = {other \in ToSet(text) : ~IsBfpo(other)}
    OBVIOUS
  <2>7. _parse_and_extract_bfpo(text, number) = Where(text, chosen)
    BY <1>13, <2>6 DEF _parse_and_extract_bfpo
  <2>8. body \in Seq(UKLines) /\ line \in UKLines
    BY <1>3, <1>6, <1>13, LinesThatAre DEF AreBeside
  <2>9. PICK footed \in Seq(UKLines) : footed = Append(body, line)
    BY <2>8, Appended
  <2>10. text = EndedWith(footed, name)
    BY <1>4, <1>6, <1>13, <2>9 DEF Footed
  <2>11. Len(footed) = n + 1 /\ \A k \in 1..n : footed[k] = body[k]
    BY <1>5, <2>8, <2>9, Appended
  <2>12. \A k \in 1..Len(text) : text[k] \in ToSet(text)
    BY <1>4, ElementsOf
  <2>13. \A k \in 1..(n + 1) : k \in 1..Len(text) /\ text[k] = footed[k]
    <3>1. CASE name = UK
      BY <2>10, <2>11, <3>1 DEF EndedWith
    <3>2. CASE name # UK
      <4>1. name \in UKLines /\ text = Append(footed, name)
        BY <1>3, <2>10, <3>2, LinesThatAre DEF EndedWith
      <4>2. Len(text) = n + 1 + 1 /\ \A k \in 1..(n + 1) : text[k] = footed[k]
        BY <2>11, <4>1, Appended
      <4> QED BY <4>2
    <3> QED BY <3>1, <3>2
  <2>14. \A k \in 1..Len(body) : body[k] \in chosen
    <3> SUFFICES ASSUME NEW k \in 1..n PROVE body[k] \in chosen
      BY <1>5
    <3>1. k \in 1..(n + 1)
      OBVIOUS
    <3>2. body[k] \in ToSet(text)
      BY <2>11, <2>12, <2>13, <3>1
    <3>3. ~IsBfpo(body[k])
      BY <1>3, <1>5, <1>13 DEF AreBeside
    <3> QED BY <2>6, <3>2, <3>3
  <2>15. line \notin chosen
    BY <2>2, <2>6
  <2>16. Where(footed, chosen) = body
    BY <2>8, <2>9, <2>14, <2>15, WhereAllButLast
  <2>17. Where(text, chosen) = EndedWith(body, name)
    <3>1. CASE name = UK
      BY <2>10, <2>16, <3>1 DEF EndedWith
    <3>2. CASE name # UK
      <4>1. name \in UKLines /\ text = Append(footed, name) /\ EndedWith(body, name) = Append(body, name)
        BY <1>3, <2>10, <3>2, LinesThatAre DEF EndedWith
      <4>2. Where(text, chosen) = Taken(body, name, chosen)
        BY <2>9, <2>16, <4>1, WhereAppended
      <4>3. name \in chosen
        <5>1. Len(text) = Len(footed) + 1 /\ text[Len(footed) + 1] = name /\ Len(footed) \in Nat
          BY <2>9, <4>1, Appended
        <5>2. name \in ToSet(text)
          BY <2>12, <5>1
        <5> QED BY <1>7, <2>6, <3>2, <5>2
      <4> QED BY <4>1, <4>2, <4>3 DEF Taken
    <3> QED BY <3>1, <3>2
  <2> QED BY <1>1, <1>2, <2>5, <2>7, <2>17
<1> QED BY <1>12, <1>13

LEMMA LinesStay ==
  ASSUME NEW text \in Seq(UKLines), text # <<>>, AreWritten(text) \/ text = <<<<>>>>
  PROVE  Lines(text) = text
<1>1. PICK chosen : chosen = {line \in ToSet(text) : line # <<>>}
  OBVIOUS
<1>2. PICK written : written = Where(text, chosen)
  OBVIOUS
<1>3. Lines(text) = IF written = <<>> THEN <<<<>>>> ELSE written
  BY <1>1, <1>2 DEF Lines
<1>4. CASE AreWritten(text)
  <2>1. \A k \in 1..Len(text) : text[k] \in ToSet(text)
    BY ElementsOf
  <2>2. \A k \in 1..Len(text) : text[k] \in chosen
    BY <1>1, <1>4, <2>1 DEF AreWritten
  <2>3. written = text
    BY <1>2, <2>2, WhereAll
  <2> QED BY <1>3, <2>3
<1>5. CASE text = <<<<>>>>
  <2>1. ToSet(text) = {<<>>}
    <3>1. DOMAIN text = {1} /\ text[1] = <<>>
      BY <1>5
    <3> QED BY <3>1 DEF ToSet
  <2>2. chosen = {}
    BY <1>1, <2>1
  <2>3. written \in Seq(UKLines) /\ ToSet(written) = {}
    BY <1>2, <2>2, WhereItems
  <2>4. written = <<>>
    BY <2>3, NoItems
  <2> QED BY <1>3, <1>5, <2>4
<1> QED BY <1>4, <1>5

LEMMA FoundIs ==
  ASSUME NEW lines \in Seq(UKLines)
  PROVE  /\ DOMAIN CountriesOf(lines) = 1..Len(lines)
         /\ CountriesOf(lines) \in Seq(CanonicalNames \cup {NotFound})
         /\ Len(CountriesOf(lines)) = Len(lines)
         /\ \A k \in 1..Len(lines) : CountriesOf(lines)[k] = CountryOf(lines[k])
<1>1. PICK n \in Nat : n = Len(lines) /\ DOMAIN lines = 1..n
  BY LenProperties
<1>2. PICK found : found = [k \in 1..n |-> CountryOf(lines[k])]
  OBVIOUS
<1>3. CountriesOf(lines) = found
  BY <1>1, <1>2 DEF CountriesOf
<1>4. \A k \in 1..n : CountryOf(lines[k]) \in CanonicalNames \cup {NotFound}
  BY NamesFound
<1>5. found \in [1..n -> CanonicalNames \cup {NotFound}]
  BY <1>2, <1>4
<1>6. found \in Seq(CanonicalNames \cup {NotFound})
  BY <1>5, SeqDef
<1>7. Len(found) = n
  <2>1. PICK m \in Nat : m = Len(found) /\ DOMAIN found = 1..m
    BY <1>6, LenProperties
  <2>2. DOMAIN found = 1..n
    BY <1>5
  <2>3. n > 0 => n \in 1..m
    BY <2>1, <2>2
  <2>4. m > 0 => m \in 1..n
    BY <2>1, <2>2
  <2>5. m = n
    BY <2>3, <2>4
  <2> QED BY <2>1, <2>5
<1> QED BY <1>1, <1>2, <1>3, <1>6, <1>7

LEMMA LastFound ==
  ASSUME NEW lines \in Seq(UKLines), NEW found, found = CountriesOf(lines)
  PROVE  /\ found = <<>> <=> lines = <<>>
         /\ lines # <<>> => Last(found) = CountryOf(lines[Len(lines)])
<1>1. PICK n \in Nat : n = Len(lines)
  BY LenProperties
<1>2. /\ found \in Seq(CanonicalNames \cup {NotFound}) /\ Len(found) = n
      /\ \A k \in 1..n : found[k] = CountryOf(lines[k])
  BY <1>1, FoundIs
<1>3. (n = 0 <=> lines = <<>>) /\ (n = 0 <=> found = <<>>)
  BY <1>1, <1>2, EmptySeq
<1>4. ASSUME n # 0 PROVE Last(found) = CountryOf(lines[n])
  <2>1. n \in 1..n
    BY <1>4
  <2> QED BY <1>2, <2>1 DEF Last
<1> QED BY <1>1, <1>3, <1>4

LEMMA ParsedIs ==
  ASSUME NEW a, Sound(a)
  PROVE  Parsed(a.bfpo_number, EndedWith(WithPostcode(a), a.country)) = Reread(a)
<1>1. PICK number : number = a.bfpo_number
  OBVIOUS
<1>2. PICK name : name = a.country
  OBVIOUS
<1>3. PICK body : body = WithPostcode(a)
  OBVIOUS
<1>4. /\ body \in Seq(UKLines) /\ name \in CanonicalNames
      /\ name = UK => AtHomeEnds(body)
  BY <1>1, <1>2, <1>3, BodyIs DEF Sound, AreBeside
<1>5. PICK lines : lines = EndedWith(body, name)
  OBVIOUS
<1>6. PICK found : found = CountriesOf(lines)
  OBVIOUS
<1>7. PICK country : country = IF name = UK THEN UK ELSE CountryOf(name)
  OBVIOUS
<1>8. Reread(a) = [bfpo_number |-> number, lines_without_bfpo |-> lines, country |-> country,
                   lines_without_country_or_bfpo |-> body]
  BY <1>1, <1>2, <1>3, <1>5, <1>7 DEF Reread
<1>9. Parsed(number, lines) = WithCountry(number, lines, found)
  BY <1>6 DEF Parsed
<1>10. CASE name = UK
  <2>1. lines = body /\ country = UK
    BY <1>5, <1>7, <1>10 DEF EndedWith
  <2>2. ~LastIsCountry(found)
    <3>1. found = <<>> <=> lines = <<>>
      BY <1>4, <1>6, <2>1, LastFound
    <3>2. lines # <<>> => Last(found) = CountryOf(lines[Len(lines)])
      BY <1>4, <1>6, <2>1, LastFound
    <3> QED BY <1>4, <1>10, <2>1, <3>1, <3>2 DEF LastIsCountry, AtHomeEnds
  <2>3. WithCountry(number, lines, found) =
          [bfpo_number |-> number, lines_without_bfpo |-> lines, country |-> UK,
           lines_without_country_or_bfpo |-> lines]
    BY <2>2 DEF WithCountry
  <2> QED BY <1>1, <1>2, <1>3, <1>5, <1>8, <1>9, <2>1, <2>3
<1>11. CASE name # UK
  <2>1. name \in CanonicalNames \ {UK} /\ name \in UKLines /\ lines = Append(body, name)
    BY <1>4, <1>5, <1>11, LinesThatAre DEF EndedWith
  <2>2. PICK n \in Nat : n = Len(body)
    BY <1>4, LenProperties
  <2>3. /\ lines \in Seq(UKLines) /\ Len(lines) = n + 1 /\ lines[n + 1] = name
        /\ \A k \in 1..n : lines[k] = body[k]
    BY <1>4, <2>1, <2>2, Appended
  <2>4. country \in CanonicalNames \ {UK} /\ country = CountryOf(name)
    BY <1>7, <1>11, <2>1, NamesStay
  <2>5. /\ DOMAIN found = 1..(n + 1) /\ Len(found) = n + 1
        /\ \A k \in 1..(n + 1) : found[k] = CountryOf(lines[k])
    BY <1>6, <2>3, FoundIs
  <2>6. n + 1 \in 1..(n + 1)
    OBVIOUS
  <2>7. found[n + 1] = country /\ country \notin {NotFound, UK}
    BY <2>3, <2>4, <2>5, <2>6, CountriesAssumption
  <2>8. LastIsCountry(found) /\ Last(found) = country
    <3>1. lines # <<>>
      BY <2>3, EmptySeq
    <3>2. found # <<>> /\ Last(found) = CountryOf(lines[n + 1])
      BY <1>6, <2>3, <3>1, LastFound
    <3> QED BY <2>3, <2>4, <2>7, <3>2 DEF LastIsCountry
  <2>9. lines_to_truncate(found) = 1
    <3>1. trailing_uk_countries(found) = {}
      <4>1. SUFFICES ASSUME NEW k \in trailing_uk_countries(found) PROVE FALSE
        OBVIOUS
      <4>2. PICK abroad : abroad = {m \in DOMAIN found : found[m] \notin {NotFound, UK}}
        OBVIOUS
      <4>3. k \in DOMAIN found /\ \A m \in abroad : m < k
        BY <4>1, <4>2 DEF trailing_uk_countries
      <4>4. n + 1 \in abroad
        BY <2>5, <2>6, <2>7, <4>2
      <4>5. n + 1 < k /\ k \in 1..(n + 1)
        BY <2>5, <4>3, <4>4
      <4> QED BY <4>5
    <3>2. Cardinality({}) = 0
      BY FS_EmptySet
    <3>3. Max({0, 1}) = 1
      BY DEF Max
    <3> QED BY <3>1, <3>2, <3>3 DEF lines_to_truncate
  <2>10. SubSeq(lines, 1, Len(lines) - lines_to_truncate(found)) = body
    <3>1. Len(lines) - lines_to_truncate(found) = n
      BY <2>3, <2>9
    <3>2. PICK first : first = SubSeq(lines, 1, n)
      OBVIOUS
    <3>3. n \in 0..Len(lines)
      BY <2>3
    <3>4. first \in Seq(UKLines) /\ Len(first) = n /\ \A k \in 1..n : first[k] = lines[k]
      BY <2>3, <3>2, <3>3, FirstLines
    <3>5. \A k \in 1..n : first[k] = body[k]
      BY <2>3, <3>4
    <3>6. first = body
      BY <1>4, <2>2, <3>4, <3>5, SeqEqual
    <3> QED BY <3>1, <3>2, <3>6
  <2>11. WithCountry(number, lines, found) =
           [bfpo_number |-> number, lines_without_bfpo |-> lines, country |-> country,
            lines_without_country_or_bfpo |-> body]
    BY <2>8, <2>10 DEF WithCountry
  <2> QED BY <1>1, <1>2, <1>3, <1>5, <1>8, <1>9, <2>11
<1> QED BY <1>10, <1>11

LEMMA ReadingIs ==
  ASSUME NEW a, Sound(a), normalised_lines(a) # <<>>
  PROVE  PostalAddressOf(normalised_lines(a)) = Reread(a)
<1>1. PICK text : text = normalised_lines(a)
  OBVIOUS
<1>2. PICK lines : lines = EndedWith(WithPostcode(a), a.country)
  OBVIOUS
<1>3. Lines(text) = text
  BY <1>1, NormalIs, NormalIsWritten, LinesStay
<1>4. BfpoNumber(text) = a.bfpo_number /\ _parse_and_extract_bfpo(text, a.bfpo_number) = lines
  BY <1>1, <1>2, TextIs
<1>5. Parsed(a.bfpo_number, lines) = Reread(a)
  BY <1>2, ParsedIs
<1>6. PostalAddressOf(text) = Parsed(a.bfpo_number, lines)
  BY <1>3, <1>4 DEF PostalAddressOf
<1> QED BY <1>1, <1>5, <1>6

(* The last lines of the normal form, apart.                               *)
LEMMA LastApart ==
  ASSUME NEW S, NEW text \in Seq(S), text # <<>>
  PROVE  /\ Len(text) \in Nat \ {0}
         /\ SubSeq(text, 1, Len(text) - 1) \in Seq(S)
         /\ text = SubSeq(text, 1, Len(text) - 1) \o <<Last(text)>>
<1>1. PICK n \in Nat \ {0} : n = Len(text)
  BY EmptySeq
<1>2. 1 \in 1..n /\ n \in 1..n /\ n - 1 \in 0..n
  BY <1>1
<1>3. SubSeq(text, 1, n) = SubSeq(text, 1, n - 1) \o <<text[n]>>
  BY <1>1, <1>2, SubSeqRecursiveSecond
<1>4. SubSeq(text, 1, n) = text
  BY <1>1, SubSeqFull
<1>5. SubSeq(text, 1, n - 1) \in Seq(S)
  BY <1>1, <1>2, FirstLines
<1> QED BY <1>1, <1>3, <1>4, <1>5 DEF Last

LEMMA LastsApart ==
  ASSUME NEW S, NEW text \in Seq(S), NEW n \in Nat, Len(text) = n + 2
  PROVE  /\ text = (SubSeq(text, 1, n) \o <<text[n + 1]>>) \o <<Last(text)>>
         /\ Last(text) = text[n + 2]
<1>1. 1 \in 1..(n + 2) /\ n + 1 \in 1..(n + 2) /\ n + 2 \in 1..(n + 2)
  OBVIOUS
<1>2. (n + 2) - 1 = n + 1 /\ (n + 1) - 1 = n
  OBVIOUS
<1>3. SubSeq(text, 1, n + 2) = SubSeq(text, 1, n + 1) \o <<text[n + 2]>>
  BY <1>1, <1>2, SubSeqRecursiveSecond
<1>4. SubSeq(text, 1, n + 1) = SubSeq(text, 1, n) \o <<text[n + 1]>>
  BY <1>1, <1>2, SubSeqRecursiveSecond
<1>5. SubSeq(text, 1, n + 2) = text
  BY SubSeqFull
<1> QED BY <1>3, <1>4, <1>5 DEF Last

LEMMA FooterApart ==
  ASSUME NEW a, Sound(a), is_bfpo_address(a), a.country = UK,
         NEW text, text = normalised_lines(a), NEW n, n = Len(text)
  PROVE  /\ text \in Seq(UKLines) /\ n \in Nat \ {0}
         /\ Last(text) = <<"BFPO", a.bfpo_number>>
         /\ ~has_valid_postcode(a) => text = SubSeq(text, 1, n - 1) \o <<Last(text)>>
         /\ has_valid_postcode(a) =>
              n >= 2 /\ text = (SubSeq(text, 1, n - 2) \o <<postcode(a)>>) \o <<Last(text)>>
<1>1. PICK body : body = WithPostcode(a)
  OBVIOUS
<1>2. PICK line : line = <<"BFPO", a.bfpo_number>>
  OBVIOUS
<1>3. a.bfpo_number # NoNumber /\ a.bfpo_number \in Numbers
  BY DEF is_bfpo_address, Sound
<1>4. body \in Seq(UKLines) /\ line \in UKLines
  BY <1>1, <1>2, <1>3, BodyIs, LinesThatAre DEF AreBeside
<1>5. text = Append(body, line)
  <2>1. text = EndedWith(Footed(body, a.bfpo_number), a.country)
    BY <1>1, NormalIs
  <2> QED BY <1>2, <1>3, <2>1 DEF EndedWith, Footed
<1>6. PICK m \in Nat : m = Len(body)
  BY <1>4, LenProperties
<1>7. /\ text \in Seq(UKLines) /\ n = m + 1 /\ text[n] = line
      /\ \A k \in 1..m : text[k] = body[k]
  BY <1>4, <1>5, <1>6, Appended
<1>8. n \in Nat \ {0} /\ Last(text) = line
  BY <1>6, <1>7 DEF Last
<1>9. text = SubSeq(text, 1, n - 1) \o <<Last(text)>>
  <2>1. text # <<>>
    BY <1>8, EmptySeq
  <2> QED BY <1>7, <2>1, LastApart
<1>10. ASSUME has_valid_postcode(a)
       PROVE  n >= 2 /\ text = (SubSeq(text, 1, n - 2) \o <<postcode(a)>>) \o <<Last(text)>>
  <2>1. PICK lines : lines = a.lines_without_country_or_bfpo
    OBVIOUS
  <2>2. PICK p \in Nat : Len(lines) = p + 1
    <3>1. Len(lines) \in Nat \ {0}
      BY <1>10, <2>1, PostcodeIs
    <3>2. Len(lines) - 1 \in Nat /\ Len(lines) = (Len(lines) - 1) + 1
      BY <3>1
    <3> QED BY <3>2
  <2>3. PICK first : first = SubSeq(lines, 1, p)
    OBVIOUS
  <2>4. lines \in Seq(UKLines) /\ p \in 0..Len(lines)
    BY <2>1, <2>2 DEF Sound, AreBeside
  <2>5. first \in Seq(UKLines) /\ Len(first) = p
    BY <2>3, <2>4, FirstLines
  <2>6. postcode(a) \in UKLines
    BY <1>10, PostcodeIs, LinesThatAre
  <2>7. body = Append(first, postcode(a))
    <3>1. Len(lines) - 1 = p
      BY <2>2
    <3> QED BY <1>1, <1>10, <2>1, <2>3, <3>1, PostcodeIs
  <2>8. m = p + 1 /\ body[p + 1] = postcode(a)
    BY <1>6, <2>5, <2>6, <2>7, Appended
  <2>9. n = p + 2 /\ n - 2 = p /\ p + 1 \in 1..m
    BY <1>7, <2>8
  <2>10. text[p + 1] = postcode(a)
    BY <1>7, <2>8, <2>9
  <2>11. text = (SubSeq(text, 1, p) \o <<text[p + 1]>>) \o <<Last(text)>>
    BY <1>7, <2>9, LastsApart
  <2> QED BY <2>9, <2>10, <2>11
<1> QED BY <1>2, <1>7, <1>8, <1>9, <1>10

LEMMA PersonalisationIs ==
  ASSUME NEW a, Sound(a), normalised_lines(a) # <<>>, ~has_too_many_lines(a)
  PROVE  as_personalisation(a) = normalised_lines(a)
<1>1. PICK text : text = normalised_lines(a)
  OBVIOUS
<1>2. text \in Seq(UKLines) /\ text # <<>>
  BY <1>1, NormalIs
<1>3. PICK n \in Nat \ {0} : n = Len(text)
  BY <1>2, EmptySeq
<1>4. n <= MAX_LINES /\ MAX_LINES \in Nat
  BY <1>1, <1>3, UKAddressAssumption DEF has_too_many_lines, line_count
<1>5. PICK with_postcode : with_postcode = (has_valid_postcode(a) /\ is_bfpo_address(a))
  OBVIOUS
<1>6. PICK offset : offset = IF with_postcode THEN 2 ELSE 1
  OBVIOUS
<1>7. Min({MAX_LINES - offset, n - offset}) = n - offset
  BY <1>4, <1>6, MinOfTwo
<1>8. as_personalisation(a) =
        (SubSeq(text, 1, n - offset) \o (IF with_postcode THEN <<postcode(a)>> ELSE <<>>)) \o <<Last(text)>>
  BY <1>1, <1>3, <1>5, <1>6, <1>7 DEF as_personalisation, postcode_offset
<1>9. CASE ~with_postcode
  <2>1. SubSeq(text, 1, n - 1) \in Seq(UKLines) /\ text = SubSeq(text, 1, n - 1) \o <<Last(text)>>
    BY <1>2, <1>3, LastApart
  <2>2. SubSeq(text, 1, n - 1) \o <<>> = SubSeq(text, 1, n - 1)
    BY <2>1, ConcatEmptySeq
  <2> QED BY <1>1, <1>6, <1>8, <1>9, <2>1, <2>2
<1>10. CASE with_postcode
  <2>1. has_valid_postcode(a) /\ is_bfpo_address(a) /\ a.country = UK
    BY <1>5, <1>10, PostcodeIs
  <2>2. text = (SubSeq(text, 1, n - 2) \o <<postcode(a)>>) \o <<Last(text)>>
    BY <1>1, <1>3, <2>1, FooterApart
  <2> QED BY <1>1, <1>6, <1>8, <1>10, <2>2
<1> QED BY <1>9, <1>10

-----------------------------------------------------------------------------
(* What is read, once or more, of an address that is sound.                *)
Named(name) == IF name = UK THEN UK ELSE CountryOf(name)

ReadOf(b, a) ==
  /\ Sound(b)
  /\ b.bfpo_number = a.bfpo_number /\ b.country = Named(a.country)
  /\ WithPostcode(b) = WithPostcode(a) /\ postcode(b) = postcode(a)
  /\ \E name : /\ name = UK <=> a.country = UK
               /\ b.lines_without_bfpo = EndedWith(WithPostcode(a), name)

LEMMA RereadFields ==
  ASSUME NEW a
  PROVE  /\ Reread(a).bfpo_number = a.bfpo_number
         /\ Reread(a).lines_without_bfpo = EndedWith(WithPostcode(a), a.country)
         /\ Reread(a).country = Named(a.country)
         /\ Reread(a).lines_without_country_or_bfpo = WithPostcode(a)
  BY DEF Reread, Named

LEMMA NamedIs ==
  ASSUME NEW a, Sound(a)
  PROVE  /\ Named(a.country) = UK <=> a.country = UK
         /\ Named(Named(a.country)) = Named(a.country)
         /\ Named(a.country) \in CanonicalNames
         /\ postage_zone(Named(a.country)) = postage_zone(a.country)
<1>1. CASE a.country = UK
  <2>1. UK \in CanonicalNames
    BY CountriesAssumption
  <2> QED BY <1>1, <2>1 DEF Named
<1>2. CASE a.country # UK
  <2>1. a.country \in CanonicalNames \ {UK}
    BY <1>2 DEF Sound
  <2>2. /\ CountryOf(a.country) \in CanonicalNames \ {UK}
        /\ CountryOf(CountryOf(a.country)) = CountryOf(a.country)
        /\ postage_zone(CountryOf(a.country)) = postage_zone(a.country)
    BY <2>1, NamesStay
  <2> QED BY <1>2, <2>2 DEF Named
<1> QED BY <1>1, <1>2

LEMMA RereadIs ==
  ASSUME NEW a, Sound(a)
  PROVE  ReadOf(Reread(a), a)
<1>1. PICK b : b = Reread(a)
  OBVIOUS
<1>2. PICK body : body = WithPostcode(a)
  OBVIOUS
<1>3. /\ b.bfpo_number = a.bfpo_number /\ b.lines_without_bfpo = EndedWith(body, a.country)
      /\ b.country = Named(a.country) /\ b.lines_without_country_or_bfpo = body
  BY <1>1, <1>2, RereadFields
<1>4. b.country = UK <=> a.country = UK
  BY <1>3, NamedIs
<1>5. PICK lines : lines = a.lines_without_country_or_bfpo
  OBVIOUS
<1>6. /\ AreBeside(body, a.bfpo_number) /\ Len(body) = Len(lines) /\ Len(lines) \in Nat
      /\ AreWritten(body) \/ (body = <<<<>>>> /\ a.bfpo_number = NoNumber /\ a.country = UK)
      /\ a.country = UK => AtHomeEnds(body)
  BY <1>2, <1>5, BodyIs
<1>7. Sound(b)
  <2>1. a.bfpo_number \in Numbers \cup {NoNumber}
    BY DEF Sound
  <2>2. b.country \in CanonicalNames
    BY <1>3, NamedIs
  <2> QED BY <1>3, <1>4, <1>6, <2>1, <2>2, Zenon DEF Sound
<1>8. postcode(b) = postcode(a) /\ WithPostcode(b) = body
  <2>1. CASE ~has_valid_postcode(a)
    <3>1. postcode(a) = NoPostcode /\ body = lines
      BY <1>2, <1>5, <2>1, PostcodeIs DEF NoPostcode
    <3>2. postcode(b) = postcode(a)
      <4>1. international(b) <=> international(a)
        BY <1>4, InternationalIs
      <4> QED BY <1>3, <1>5, <3>1, <4>1 DEF postcode
    <3>3. ~has_valid_postcode(b)
      BY <2>1, <3>2 DEF has_valid_postcode
    <3>4. WithPostcode(b) = body
      BY <1>3, <1>7, <3>3, PostcodeIs
    <3> QED BY <3>2, <3>4
  <2>2. CASE has_valid_postcode(a)
    <3>1. PICK code : code = postcode(a)
      OBVIOUS
    <3>2. /\ a.country = UK /\ Len(lines) \in Nat \ {0}
          /\ \E word \in DOMAIN Postcode : code = <<Postcode[word]>>
          /\ body = Append(SubSeq(lines, 1, Len(lines) - 1), code)
      BY <1>2, <1>5, <2>2, <3>1, PostcodeIs
    <3>3. PICK word \in DOMAIN Postcode : code = <<Postcode[word]>>
      BY <3>2
    <3>4. code \in UKLines
      BY <3>3, LinesThatAre
    <3>5. PICK p \in Nat : p = Len(lines) - 1
      <4>1. Len(lines) \in Nat \ {0}
        BY <3>2
      <4>2. Len(lines) - 1 \in Nat
        BY <4>1
      <4> QED BY <4>2
    <3>6. PICK first : first = SubSeq(lines, 1, p)
      OBVIOUS
    <3>7. first \in Seq(UKLines) /\ Len(first) = p /\ body = Append(first, code)
      <4>1. lines \in Seq(UKLines)
        BY <1>5 DEF Sound, AreBeside
      <4>2. p \in 0..Len(lines)
        BY <3>2, <3>5
      <4> QED BY <3>2, <3>5, <3>6, <4>1, <4>2, FirstLines
    <3>8. /\ body \in Seq(UKLines) /\ Len(body) = p + 1 /\ body[p + 1] = code
          /\ \A k \in 1..p : body[k] = first[k]
      BY <3>4, <3>7, Appended
    <3>9. Last(body) = code /\ body # <<>>
      BY <3>8, EmptySeq DEF Last
    <3>10. format_postcode_or_none(code) = code
      <4>1. Len(code) = 1 /\ Head(code) = Postcode[word]
        BY <3>3
      <4>2. Postcode[word] \in DOMAIN Postcode /\ Postcode[Postcode[word]] = Postcode[word]
        BY NamesAssumption
      <4> QED BY <3>3, <4>1, <4>2 DEF format_postcode_or_none
    <3>11. ~international(b)
      BY <1>4, <3>2, InternationalIs
    <3>12. postcode(b) = code
      BY <1>3, <3>9, <3>10, <3>11 DEF postcode
    <3>13. has_valid_postcode(b)
      BY <2>2, <3>1, <3>12 DEF has_valid_postcode
    <3>14. WithPostcode(b) = Append(SubSeq(body, 1, Len(body) - 1), code)
      BY <1>3, <1>7, <3>12, <3>13, PostcodeIs
    <3>15. SubSeq(body, 1, Len(body) - 1) = first
      <4>1. Len(body) - 1 = p /\ p \in 0..Len(body)
        BY <3>8
      <4>2. PICK again : again = SubSeq(body, 1, p)
        OBVIOUS
      <4>3. again \in Seq(UKLines) /\ Len(again) = p /\ \A k \in 1..p : again[k] = body[k]
        BY <3>8, <4>1, <4>2, FirstLines
      <4>4. \A k \in 1..p : again[k] = first[k]
        BY <3>8, <4>3
      <4>5. again = first
        BY <3>7, <4>3, <4>4, SeqEqual
      <4> QED BY <4>1, <4>2, <4>5
    <3> QED BY <3>1, <3>7, <3>12, <3>14, <3>15
  <2> QED BY <2>1, <2>2
<1> QED BY <1>1, <1>2, <1>3, <1>7, <1>8, Zenon DEF ReadOf

LEMMA RereadTwice ==
  ASSUME NEW a, Sound(a), NEW b, b = Reread(a)
  PROVE  ReadOf(Reread(b), a) /\ Reread(Reread(b)) = Reread(b)
<1>1. PICK c : c = Reread(b)
  OBVIOUS
<1>2. ReadOf(b, a)
  BY RereadIs
<1>3. Sound(b) /\ b.country = Named(a.country) /\ WithPostcode(b) = WithPostcode(a)
      /\ postcode(b) = postcode(a) /\ b.bfpo_number = a.bfpo_number
  BY <1>2, Zenon DEF ReadOf
<1>4. ReadOf(c, b)
  BY <1>1, <1>3, RereadIs
<1>5. Sound(c) /\ c.country = Named(b.country) /\ WithPostcode(c) = WithPostcode(b)
      /\ postcode(c) = postcode(b) /\ c.bfpo_number = b.bfpo_number
  BY <1>4, Zenon DEF ReadOf
<1>6. c.country = b.country
  BY <1>3, <1>5, NamedIs
<1>7. c.lines_without_bfpo = EndedWith(WithPostcode(a), b.country)
  BY <1>1, <1>3, RereadFields
<1>8. b.country = UK <=> a.country = UK
  BY <1>3, NamedIs
<1>9. ReadOf(c, a)
  BY <1>3, <1>5, <1>6, <1>7, <1>8, Zenon DEF ReadOf
<1>10. Reread(c) = c
  BY <1>1, <1>5, <1>6 DEF Reread
<1> QED BY <1>1, <1>9, <1>10

(* What decides whether an address is valid is the same of it.             *)
LinesAlike(one, other) ==
  /\ Len(one) = Len(other)
  /\ \A k \in 1..Len(one) :
       /\ StartsInvalidly(one[k]) <=> StartsInvalidly(other[k])
       /\ IsNoFixedAbode(one[k]) <=> IsNoFixedAbode(other[k])
       /\ HasLetters(one[k]) <=> HasLetters(other[k])

LEMMA NameIsPlain ==
  ASSUME NEW name \in CanonicalNames
  PROVE  ~StartsInvalidly(name) /\ ~IsNoFixedAbode(name) /\ HasLetters(name)
  BY NamesAssumption, Zenon

LEMMA EndedAlike ==
  ASSUME NEW lines \in Seq(UKLines), NEW name \in CanonicalNames, NEW other \in CanonicalNames
  PROVE  LinesAlike(Append(lines, name), Append(lines, other))
<1>1. name \in UKLines /\ other \in UKLines
  BY LinesThatAre
<1>2. PICK n \in Nat : n = Len(lines)
  BY LenProperties
<1>3. PICK one : one = Append(lines, name)
  OBVIOUS
<1>4. PICK two : two = Append(lines, other)
  OBVIOUS
<1>5. Len(one) = n + 1 /\ one[n + 1] = name /\ \A k \in 1..n : one[k] = lines[k]
  BY <1>1, <1>2, <1>3, Appended
<1>6. Len(two) = n + 1 /\ two[n + 1] = other /\ \A k \in 1..n : two[k] = lines[k]
  BY <1>1, <1>2, <1>4, Appended
<1>7. /\ StartsInvalidly(one[n + 1]) <=> StartsInvalidly(two[n + 1])
      /\ IsNoFixedAbode(one[n + 1]) <=> IsNoFixedAbode(two[n + 1])
      /\ HasLetters(one[n + 1]) <=> HasLetters(two[n + 1])
  BY <1>5, <1>6, NameIsPlain
<1>8. 1..(n + 1) = 1..n \cup {n + 1}
  OBVIOUS
<1>9. \A k \in 1..n : one[k] = two[k]
  BY <1>5, <1>6
<1>10. ASSUME NEW k \in 1..Len(one)
       PROVE  /\ StartsInvalidly(one[k]) <=> StartsInvalidly(two[k])
              /\ IsNoFixedAbode(one[k]) <=> IsNoFixedAbode(two[k])
              /\ HasLetters(one[k]) <=> HasLetters(two[k])
  <2>1. k \in 1..n \/ k = n + 1
    BY <1>5, <1>8
  <2>2. CASE k \in 1..n
    BY <1>9, <2>2, Zenon
  <2>3. CASE k = n + 1
    BY <1>7, <2>3, Zenon
  <2> QED BY <2>1, <2>2, <2>3
<1> QED BY <1>3, <1>4, <1>5, <1>6, <1>10, Zenon DEF LinesAlike

LEMMA ReadEnds ==
  ASSUME NEW a, Sound(a), NEW b, ReadOf(b, a)
  PROVE  \E footed \in Seq(UKLines) :
           /\ normalised_lines(a) = EndedWith(footed, a.country)
           /\ normalised_lines(b) = EndedWith(footed, Named(a.country))
<1>1. PICK footed : footed = Footed(WithPostcode(a), a.bfpo_number)
  OBVIOUS
<1>2. /\ Sound(b) /\ b.bfpo_number = a.bfpo_number /\ b.country = Named(a.country)
      /\ WithPostcode(b) = WithPostcode(a)
  BY Zenon DEF ReadOf
<1>3. footed \in Seq(UKLines) /\ normalised_lines(a) = EndedWith(footed, a.country)
  BY <1>1, NormalIs
<1>4. normalised_lines(b) = EndedWith(footed, Named(a.country))
  BY <1>1, <1>2, NormalIs
<1> QED BY <1>3, <1>4

LEMMA NormalAlike ==
  ASSUME NEW a, Sound(a), NEW b, ReadOf(b, a)
  PROVE  LinesAlike(normalised_lines(b), normalised_lines(a))
<1>1. PICK footed \in Seq(UKLines) :
        /\ normalised_lines(a) = EndedWith(footed, a.country)
        /\ normalised_lines(b) = EndedWith(footed, Named(a.country))
  BY ReadEnds
<1>2. CASE a.country = UK
  <2>1. normalised_lines(b) = normalised_lines(a)
    BY <1>1, <1>2 DEF Named
  <2> QED BY <2>1, Zenon DEF LinesAlike
<1>3. CASE a.country # UK
  <2>1. a.country \in CanonicalNames /\ Named(a.country) \in CanonicalNames /\ Named(a.country) # UK
    BY <1>3, NamedIs DEF Sound
  <2>2. normalised_lines(a) = Append(footed, a.country)
        /\ normalised_lines(b) = Append(footed, Named(a.country))
    BY <1>1, <1>3, <2>1 DEF EndedWith
  <2> QED BY <2>1, <2>2, EndedAlike
<1> QED BY <1>2, <1>3

LEMMA SomeLine ==
  ASSUME NEW lines \in Seq(UKLines)
  PROVE  \A line : line \in ToSet(lines) <=> \E k \in 1..Len(lines) : lines[k] = line
  BY AmongThem DEF Among

LEMMA ValidAgain ==
  ASSUME NEW a, Sound(a), NEW b, ReadOf(b, a)
  PROVE  valid(b) <=> valid(a)
<1>1. PICK one \in Seq(UKLines) : one = normalised_lines(b)
  BY NormalIs DEF ReadOf
<1>2. PICK two \in Seq(UKLines) : two = normalised_lines(a)
  BY NormalIs
<1>3. LinesAlike(one, two)
  BY <1>1, <1>2, NormalAlike
<1>4. (international(b) <=> international(a)) /\ (is_bfpo_address(b) <=> is_bfpo_address(a))
      /\ (has_valid_postcode(b) <=> has_valid_postcode(a))
  <2>1. b.country = UK <=> a.country = UK
    BY NamedIs, Zenon DEF ReadOf
  <2>2. b.bfpo_number = a.bfpo_number /\ postcode(b) = postcode(a)
    BY Zenon DEF ReadOf
  <2> QED BY <2>1, <2>2, InternationalIs DEF is_bfpo_address, has_valid_postcode
<1>5. has_valid_last_line(b) <=> has_valid_last_line(a)
  BY <1>4, Zenon DEF has_valid_last_line, has_invalid_country_for_bfpo_address
<1>6. has_invalid_country_for_bfpo_address(b) <=> has_invalid_country_for_bfpo_address(a)
  BY <1>4, Zenon DEF has_invalid_country_for_bfpo_address
<1>7. (has_enough_lines(b) <=> has_enough_lines(a)) /\ (has_too_many_lines(b) <=> has_too_many_lines(a))
  BY <1>1, <1>2, <1>3, Zenon DEF has_enough_lines, has_too_many_lines, line_count, LinesAlike
<1>8. has_invalid_characters(b) <=> has_invalid_characters(a)
  <2>1. has_invalid_characters(b) <=> \E k \in 1..Len(one) : StartsInvalidly(one[k])
    BY <1>1, SomeLine, Zenon DEF has_invalid_characters
  <2>2. has_invalid_characters(a) <=> \E k \in 1..Len(two) : StartsInvalidly(two[k])
    BY <1>2, SomeLine, Zenon DEF has_invalid_characters
  <2>3. (\E k \in 1..Len(one) : StartsInvalidly(one[k])) <=> \E k \in 1..Len(two) : StartsInvalidly(two[k])
    BY <1>3, Zenon DEF LinesAlike
  <2> QED BY <2>1, <2>2, <2>3, Zenon
<1>9. has_no_fixed_abode_address(b) <=> has_no_fixed_abode_address(a)
  <2>1. has_no_fixed_abode_address(b) <=> \E k \in 1..Len(one) : IsNoFixedAbode(one[k])
    BY <1>1, SomeLine, Zenon DEF has_no_fixed_abode_address
  <2>2. has_no_fixed_abode_address(a) <=> \E k \in 1..Len(two) : IsNoFixedAbode(two[k])
    BY <1>2, SomeLine, Zenon DEF has_no_fixed_abode_address
  <2>3. (\E k \in 1..Len(one) : IsNoFixedAbode(one[k])) <=> \E k \in 1..Len(two) : IsNoFixedAbode(two[k])
    BY <1>3, Zenon DEF LinesAlike
  <2> QED BY <2>1, <2>2, <2>3, Zenon
<1>10. has_alphanumeric_character_in_address_lines_1_and_2(b)
         <=> has_alphanumeric_character_in_address_lines_1_and_2(a)
  <2>1. Len(one) = Len(two) /\ \A k \in 1..Len(one) : HasLetters(one[k]) <=> HasLetters(two[k])
    BY <1>3, Zenon DEF LinesAlike
  <2>2. PICK n \in Nat : n = Len(one)
    BY LenProperties
  <2>3. n >= 2 => \A k \in 1..2 : k \in 1..n
    OBVIOUS
  <2>4. (n >= 2 /\ \A k \in 1..2 : HasLetters(one[k])) <=> (n >= 2 /\ \A k \in 1..2 : HasLetters(two[k]))
    BY <2>1, <2>2, <2>3, Zenon
  <2> QED BY <1>1, <1>2, <2>1, <2>2, <2>4, Zenon DEF has_alphanumeric_character_in_address_lines_1_and_2
<1> QED BY <1>5, <1>6, <1>7, <1>8, <1>9, <1>10, Zenon DEF valid

LEMMA SameAgain ==
  ASSUME NEW a, Sound(a), NEW b, ReadOf(b, a)
  PROVE  Same(b, a) \/ SameUnderItsOtherName(b, a)
<1>1. PICK footed \in Seq(UKLines) :
        /\ normalised_lines(a) = EndedWith(footed, a.country)
        /\ normalised_lines(b) = EndedWith(footed, Named(a.country))
  BY ReadEnds
<1>2. b.bfpo_number = a.bfpo_number /\ b.country = Named(a.country)
  BY Zenon DEF ReadOf
<1>3. CASE a.country = UK
  <2>1. Named(a.country) = a.country
    BY <1>3 DEF Named
  <2> QED BY <1>1, <1>2, <2>1 DEF Same
<1>4. CASE a.country # UK
  <2>1. a.country \in CanonicalNames /\ Named(a.country) \in CanonicalNames /\ Named(a.country) # UK
    BY <1>4, NamedIs DEF Sound
  <2>2. \A name \in CanonicalNames : Front(Append(footed, name)) = footed
    <3> TAKE name \in CanonicalNames
    <3>1. PICK n \in Nat : n = Len(footed)
      BY LenProperties
    <3>2. PICK more : more = Append(footed, name)
      OBVIOUS
    <3>3. name \in UKLines
      BY LinesThatAre
    <3>4. more \in Seq(UKLines) /\ Len(more) = n + 1 /\ \A k \in 1..n : more[k] = footed[k]
      BY <3>1, <3>2, <3>3, Appended
    <3>5. n \in 0..Len(more) /\ Len(more) - 1 = n
      BY <3>4
    <3>6. PICK front : front = SubSeq(more, 1, n)
      OBVIOUS
    <3>7. front \in Seq(UKLines) /\ Len(front) = n /\ \A k \in 1..n : front[k] = more[k]
      BY <3>4, <3>5, <3>6, FirstLines
    <3>8. front = footed
      <4>1. \A k \in 1..n : front[k] = footed[k]
        BY <3>4, <3>7
      <4> QED BY <3>1, <3>7, <4>1, SeqEqual
    <3> QED BY <3>2, <3>5, <3>6, <3>8 DEF Front
  <2>3. Front(normalised_lines(a)) = footed /\ Front(normalised_lines(b)) = footed
    BY <1>1, <1>4, <2>1, <2>2 DEF EndedWith
  <2>4. international(a)
    BY <1>4, InternationalIs
  <2>5. postage_of(b) = postage_of(a)
    BY <1>2, NamedIs DEF postage_of
  <2>6. b.country = CountryOf(a.country)
    BY <1>2, <1>4 DEF Named
  <2> QED BY <2>3, <2>4, <2>5, <2>6 DEF SameUnderItsOtherName
<1> QED BY <1>3, <1>4

(* Of a valid address there are lines to read.                             *)
LEMMA ValidHasLines ==
  ASSUME NEW a, Sound(a), valid(a), NEW b, ReadOf(b, a)
  PROVE  normalised_lines(a) # <<>> /\ ~Raises(b)
<1>1. PICK n \in Nat : n = Len(normalised_lines(a))
  <2>1. Len(normalised_lines(a)) \in Nat
    BY NormalIs, LenProperties
  <2> QED BY <2>1
<1>2. n >= MIN_LINES /\ MIN_LINES \in Nat /\ 1 < MIN_LINES
  BY <1>1, UKAddressAssumption DEF valid, has_enough_lines, line_count
<1>3. normalised_lines(a) # <<>>
  BY <1>1, <1>2, EmptySeq
<1>4. ~Raises(b)
  <2>1. PICK body : body = WithPostcode(a)
    OBVIOUS
  <2>2. PICK name : (name = UK <=> a.country = UK) /\ b.lines_without_bfpo = EndedWith(body, name)
    BY <2>1 DEF ReadOf
  <2>3. body \in Seq(UKLines) /\ a.bfpo_number \in Numbers \cup {NoNumber}
    BY <2>1, BodyIs DEF AreBeside, Sound
  <2>4. PICK m \in Nat : m = Len(body)
    BY <2>3, LenProperties
  <2>5. CASE a.country = UK
    <3>1. normalised_lines(a) = Footed(body, a.bfpo_number)
      BY <2>1, <2>5, NormalIs DEF EndedWith
    <3>2. n <= m + 1
      <4>1. CASE a.bfpo_number = NoNumber
        BY <1>1, <2>4, <3>1, <4>1 DEF Footed
      <4>2. CASE a.bfpo_number # NoNumber
        <5>1. PICK line \in UKLines : line = <<"BFPO", a.bfpo_number>>
          BY <2>3, <4>2, LinesThatAre
        <5>2. normalised_lines(a) = Append(body, line)
          BY <3>1, <4>2, <5>1 DEF Footed
        <5> QED BY <1>1, <2>3, <2>4, <5>1, <5>2, Appended
      <4> QED BY <4>1, <4>2
    <3>3. m # 0
      BY <1>2, <3>2
    <3>4. body # <<>>
      BY <2>4, <3>3, EmptySeq
    <3> QED BY <2>2, <2>5, <3>4 DEF Raises, EndedWith
  <2>6. CASE a.country # UK
    <3>1. b.lines_without_bfpo = Append(body, name)
      BY <2>2, <2>6 DEF EndedWith
    <3>2. PICK S : S = UKLines \cup {name}
      OBVIOUS
    <3>3. body \in Seq(S) /\ name \in S
      BY <2>3, <3>2
    <3>4. Append(body, name) \in Seq(S) /\ Len(Append(body, name)) = m + 1
      BY <2>4, <3>3, Appended
    <3>5. Append(body, name) # <<>>
      BY <3>4, EmptySeq
    <3> QED BY <3>1, <3>5 DEF Raises
  <2> QED BY <2>5, <2>6
<1> QED BY <1>3, <1>4

-----------------------------------------------------------------------------
(* What is read of any lines.                                              *)
LEMMA LinesRead ==
  ASSUME NEW raw \in Seq(UKLines)
  PROVE  /\ Lines(raw) \in Seq(UKLines)
         /\ AreWritten(Lines(raw)) \/ Lines(raw) = <<<<>>>>
<1>1. PICK chosen : chosen = {line \in ToSet(raw) : line # <<>>}
  OBVIOUS
<1>2. PICK written : written = Where(raw, chosen)
  OBVIOUS
<1>3. written \in Seq(UKLines) /\ ToSet(written) = ToSet(raw) \cap chosen
  BY <1>2, WhereItems
<1>4. AreWritten(written)
  <2>1. ASSUME NEW k \in 1..Len(written) PROVE written[k] # <<>>
    <3>1. written[k] \in ToSet(written)
      BY <1>3, ElementsOf
    <3> QED BY <1>1, <1>3, <3>1
  <2> QED BY <2>1 DEF AreWritten
<1>5. Lines(raw) = IF written = <<>> THEN <<<<>>>> ELSE written
  BY <1>1, <1>2 DEF Lines
<1>6. <<<<>>>> \in Seq(UKLines)
  <2>1. PICK line \in UKLines : line = <<>>
    BY LinesThatAre
  <2>2. <<line>> \in Seq(UKLines)
    OBVIOUS
  <2> QED BY <2>1, <2>2
<1> QED BY <1>3, <1>4, <1>5, <1>6

LEMMA NumberRead ==
  ASSUME NEW lines \in Seq(UKLines), NEW number, number = BfpoNumber(lines)
  PROVE  /\ number \in Numbers \cup {NoNumber}
         /\ number = NoNumber => \A k \in 1..Len(lines) : ~IsNumbered(lines[k])
         /\ number # NoNumber => \E k \in 1..Len(lines) : IsBfpo(lines[k])
<1>1. PICK n \in Nat : n = Len(lines) /\ DOMAIN lines = 1..n
  BY LenProperties
<1>2. PICK numbered : numbered = {k \in DOMAIN lines : IsBfpo(lines[k]) /\ Last(lines[k]) \in DOMAIN Numerals}
  OBVIOUS
<1>3. number = IF numbered = {} THEN NoNumber ELSE Numerals[Last(lines[Min(numbered)])]
  BY <1>2 DEF BfpoNumber
<1>4. CASE numbered = {}
  <2>1. \A k \in 1..n : ~IsNumbered(lines[k])
    BY <1>1, <1>2, <1>4 DEF IsNumbered
  <2> QED BY <1>1, <1>3, <1>4, <2>1
<1>5. CASE numbered # {}
  <2>1. numbered \subseteq 1..n
    BY <1>1, <1>2
  <2>2. Min(numbered) \in numbered
    BY <1>5, <2>1, LeastPlace
  <2>3. PICK k \in numbered : k = Min(numbered)
    BY <2>2
  <2>4. IsBfpo(lines[k]) /\ Last(lines[k]) \in DOMAIN Numerals /\ k \in 1..n
    BY <1>2, <2>1, <2>3
  <2>5. number = Numerals[Last(lines[k])]
    BY <1>3, <1>5, <2>3
  <2>6. number \in Numbers
    BY <2>4, <2>5 DEF Numbers
  <2>7. number # NoNumber
    BY <2>4, <2>5, NamesAssumption
  <2> QED BY <1>1, <2>4, <2>6, <2>7
<1> QED BY <1>4, <1>5

LEMMA BesideRead ==
  ASSUME NEW lines \in Seq(UKLines), AreWritten(lines) \/ lines = <<<<>>>>,
         NEW number, number = BfpoNumber(lines),
         NEW beside, beside = _parse_and_extract_bfpo(lines, number)
  PROVE  /\ AreBeside(beside, number)
         /\ AreWritten(beside) \/ (beside = <<<<>>>> /\ number = NoNumber)
<1>1. /\ number = NoNumber => \A k \in 1..Len(lines) : ~IsNumbered(lines[k])
      /\ number # NoNumber => \E k \in 1..Len(lines) : IsBfpo(lines[k])
  BY NumberRead
<1>2. CASE number = NoNumber
  <2>1. beside = lines
    BY <1>2 DEF _parse_and_extract_bfpo
  <2> QED BY <1>1, <1>2, <2>1 DEF AreBeside
<1>3. CASE number # NoNumber
  <2>1. PICK chosen : chosen = {line \in ToSet(lines) : ~IsBfpo(line)}
    OBVIOUS
  <2>2. beside = Where(lines, chosen)
    BY <1>3, <2>1 DEF _parse_and_extract_bfpo
  <2>3. beside \in Seq(UKLines) /\ ToSet(beside) = ToSet(lines) \cap chosen
    BY <2>2, WhereItems
  <2>4. \A k \in 1..Len(beside) : beside[k] \in chosen
    BY <2>3, ElementsOf
  <2>5. \A k \in 1..Len(beside) : ~IsBfpo(beside[k])
    BY <2>1, <2>4
  <2>6. AreBeside(beside, number)
    BY <2>3, <2>5, Zenon DEF AreBeside, IsNumbered
  <2>7. AreWritten(lines)
    <3>1. lines # <<<<>>>>
      <4>1. SUFFICES ASSUME lines = <<<<>>>> PROVE FALSE
        OBVIOUS
      <4>2. PICK k \in 1..Len(lines) : IsBfpo(lines[k])
        BY <1>1, <1>3
      <4>3. Len(lines) = 1 /\ lines[1] = <<>>
        BY <4>1
      <4>4. lines[k] = <<>>
        BY <4>2, <4>3
      <4> QED BY <4>2, <4>4 DEF IsBfpo
    <3> QED BY <3>1
  <2>8. AreWritten(beside)
    <3>1. ASSUME NEW k \in 1..Len(beside) PROVE beside[k] # <<>>
      <4>1. beside[k] \in ToSet(lines)
        BY <2>3, ElementsOf
      <4>2. PICK j \in 1..Len(lines) : lines[j] = beside[k]
        BY <4>1, SomeLine
      <4> QED BY <2>7, <4>2 DEF AreWritten
    <3> QED BY <3>1 DEF AreWritten
  <2> QED BY <2>6, <2>8
<1> QED BY <1>2, <1>3

(* How many lines go from the end: some of them, and only countries'.      *)
LEMMA TruncatedIs ==
  ASSUME NEW lines \in Seq(UKLines), NEW found, found = CountriesOf(lines), LastIsCountry(found)
  PROVE  /\ Len(lines) \in Nat \ {0} /\ lines_to_truncate(found) \in 1..Len(lines)
         /\ found[Len(lines)] \notin {NotFound, UK} => lines_to_truncate(found) = 1
         /\ \A m \in 0..Len(lines) - 1 :
              (\A k \in 1..m : found[k] = NotFound) => lines_to_truncate(found) <= Len(lines) - m
<1>1. PICK n \in Nat : n = Len(lines)
  BY LenProperties
<1>2. DOMAIN found = 1..n /\ Len(found) = n /\ found \in Seq(CanonicalNames \cup {NotFound})
  BY <1>1, FoundIs
<1>3. n # 0 /\ found[n] # NotFound
  BY <1>2, EmptySeq DEF LastIsCountry, Last
<1>4. PICK names : names = trailing_uk_countries(found)
  OBVIOUS
<1>5. PICK abroad : abroad = {k \in DOMAIN found : found[k] \notin {NotFound, UK}}
  OBVIOUS
<1>6. \A k \in names : k \in 1..n /\ found[k] = UK /\ \A m \in abroad : m < k
  BY <1>2, <1>4, <1>5 DEF trailing_uk_countries
<1>7. UK # NotFound
  BY CountriesAssumption
<1>8. names \subseteq 1..n
  BY <1>6
<1>9. IsFiniteSet(names) /\ Cardinality(names) \in Nat
  <2>1. IsFiniteSet(1..n)
    BY FS_Interval
  <2> QED BY <1>8, <2>1, FS_Subset, FS_CardinalityType
<1>10. PICK size \in Nat : size = Cardinality(names)
  BY <1>9
<1>11. PICK gone : gone = lines_to_truncate(found)
  OBVIOUS
<1>12. gone = IF size >= 1 THEN size ELSE 1
  <2>1. gone = Max({size, 1})
    BY <1>4, <1>10, <1>11 DEF lines_to_truncate
  <2>2. PICK most \in {size, 1} : \A other \in {size, 1} : most >= other
    <3>1. CASE size >= 1
      BY <3>1
    <3>2. CASE ~(size >= 1)
      BY <3>2
    <3> QED BY <3>1, <3>2
  <2>3. gone \in {size, 1} /\ \A other \in {size, 1} : gone >= other
    BY <2>1, <2>2 DEF Max
  <2> QED BY <2>3
<1>13. ASSUME NEW m \in 0..n - 1, \A k \in 1..m : found[k] = NotFound PROVE gone <= n - m
  <2>1. names \subseteq (m + 1)..n
    <3>1. ASSUME NEW k \in names PROVE k \in (m + 1)..n
      <4>1. k \in 1..n /\ found[k] # NotFound
        BY <1>6, <1>7
      <4>2. k \notin 1..m
        BY <1>13, <4>1
      <4> QED BY <4>1, <4>2
    <3> QED BY <3>1
  <2>2. IsFiniteSet((m + 1)..n) /\ Cardinality((m + 1)..n) = n - m
    <3>1. m + 1 \in Int /\ n \in Int /\ ~(m + 1 > n) /\ n - (m + 1) + 1 = n - m
      OBVIOUS
    <3> QED BY <3>1, FS_Interval
  <2>3. Cardinality(names) <= Cardinality((m + 1)..n)
    <3>1. names \in SUBSET ((m + 1)..n)
      BY <2>1, Zenon
    <3>2. IsFiniteSet((m + 1)..n)
      BY <2>2
    <3> QED BY <3>1, <3>2, FS_Subset
  <2>4. size <= n - m
    BY <1>10, <2>2, <2>3
  <2> QED BY <1>12, <2>4
<1>14. gone \in 1..n
  <2>1. 0 \in 0..n - 1 /\ \A k \in 1..0 : found[k] = NotFound
    BY <1>3
  <2>2. gone <= n - 0
    BY <1>13, <2>1
  <2> QED BY <1>12, <2>2
<1>15. ASSUME found[n] \notin {NotFound, UK} PROVE gone = 1
  <2>1. n \in abroad
    BY <1>2, <1>3, <1>5, <1>15
  <2>2. names = {}
    BY <1>6, <2>1
  <2>3. size = 0
    BY <1>10, <2>2, FS_EmptySet
  <2> QED BY <1>12, <2>3
<1> QED BY <1>1, <1>3, <1>11, <1>13, <1>14, <1>15

LEMMA SoundAsRead ==
  ASSUME NEW raw \in Seq(UKLines), NEW a, a = PostalAddressOf(raw), ~CountryBeneath(a)
  PROVE  Sound(a)
<1>1. PICK lines : lines = Lines(raw)
  OBVIOUS
<1>2. PICK number : number = BfpoNumber(lines)
  OBVIOUS
<1>3. PICK beside : beside = _parse_and_extract_bfpo(lines, number)
  OBVIOUS
<1>4. PICK found : found = CountriesOf(beside)
  OBVIOUS
<1>5. PICK own : own = IF LastIsCountry(found)
                         THEN SubSeq(beside, 1, Len(beside) - lines_to_truncate(found)) ELSE beside
  OBVIOUS
<1>6. /\ a.bfpo_number = number /\ a.lines_without_country_or_bfpo = own
      /\ a.country = IF LastIsCountry(found) THEN Last(found) ELSE UK
  <2>1. a = WithCountry(number, beside, found)
    BY <1>1, <1>2, <1>3, <1>4 DEF PostalAddressOf, Parsed
  <2> QED BY <1>5, <2>1 DEF WithCountry
<1>7. lines \in Seq(UKLines) /\ (AreWritten(lines) \/ lines = <<<<>>>>)
  BY <1>1, LinesRead
<1>8. number \in Numbers \cup {NoNumber}
  BY <1>2, <1>7, NumberRead
<1>9. AreBeside(beside, number) /\ (AreWritten(beside) \/ (beside = <<<<>>>> /\ number = NoNumber))
  BY <1>2, <1>3, <1>7, BesideRead
<1>10. beside \in Seq(UKLines)
  BY <1>9 DEF AreBeside
<1>11. /\ found = <<>> <=> beside = <<>>
       /\ beside # <<>> => Last(found) = CountryOf(beside[Len(beside)])
  BY <1>4, <1>10, LastFound
<1>12. CASE ~LastIsCountry(found)
  <2>1. own = beside /\ a.country = UK
    BY <1>5, <1>6, <1>12
  <2>2. AtHomeEnds(own)
    BY <1>11, <1>12, <2>1 DEF AtHomeEnds, LastIsCountry
  <2>3. a.country \in CanonicalNames
    BY <2>1, CountriesAssumption
  <2> QED BY <1>6, <1>8, <1>9, <2>1, <2>2, <2>3, Zenon DEF Sound
<1>13. CASE LastIsCountry(found)
  <2>1. PICK n \in Nat \ {0} : n = Len(beside)
    BY <1>4, <1>10, <1>13, TruncatedIs
  <2>2. PICK gone \in 1..n : gone = lines_to_truncate(found)
    BY <1>4, <1>10, <1>13, <2>1, TruncatedIs
  <2>3. PICK p : p = n - gone
    OBVIOUS
  <2>4. p \in 0..n /\ p < n
    BY <2>3
  <2>5. /\ own \in Seq(UKLines) /\ Len(own) = p
        /\ \A k \in 1..p : own[k] = beside[k]
    <3>1. own = SubSeq(beside, 1, p)
      BY <1>5, <1>13, <2>1, <2>2, <2>3
    <3> QED BY <1>10, <2>1, <2>4, <3>1, FirstLines
  <2>6. \A k \in 1..p : k \in 1..n
    BY <2>4
  <2>7. AreBeside(own, number)
    BY <1>9, <2>1, <2>5, <2>6, Zenon DEF AreBeside
  <2>8. AreWritten(own)
    <3>1. CASE AreWritten(beside)
      BY <2>1, <2>5, <2>6, <3>1, Zenon DEF AreWritten
    <3>2. CASE beside = <<<<>>>>
      <4>1. n = 1
        BY <2>1, <3>2
      <4>2. Len(own) = 0
        BY <2>4, <2>5, <4>1
      <4> QED BY <4>2 DEF AreWritten
    <3> QED BY <1>9, <3>1, <3>2
  <2>9. a.country \in CanonicalNames
    BY <1>6, <1>11, <1>13, NamesFound DEF LastIsCountry
  <2>10. a.country = UK => AtHomeEnds(own)
    <3> HAVE a.country = UK
    <3>1. ~LastIsCountry(CountriesOf(own))
      BY <1>6, InternationalIs DEF CountryBeneath
    <3>2. /\ CountriesOf(own) = <<>> <=> own = <<>>
          /\ own # <<>> => Last(CountriesOf(own)) = CountryOf(own[Len(own)])
      BY <2>5, LastFound
    <3> QED BY <3>1, <3>2 DEF LastIsCountry, AtHomeEnds
  <2> QED BY <1>6, <1>8, <2>7, <2>8, <2>9, <2>10, Zenon DEF Sound
<1> QED BY <1>12, <1>13

LEMMA GivenLinesAre == ASSUME NEW raw \in UKAddresses PROVE raw \in Seq(UKLines)
<1>1. PICK S : S = ToSet(raw)
  OBVIOUS
<1>2. raw \in Seq(S)
  BY <1>1, UKAddressAssumption
<1>3. S \subseteq GivenLines
  BY <1>1 DEF GivenLines
<1>4. S \subseteq UKLines
  BY <1>3, Zenon DEF UKLines
<1> QED BY <1>2, <1>4

-----------------------------------------------------------------------------
(* The invariant: an address that was stored is what is read of the given  *)
(* one, once or more often, if no country stands beneath another in it and *)
(* there are keys for its lines.                                           *)
UKAddressInv ==
  /\ given \in {PostalAddressOf(raw_address) : raw_address \in UKAddresses}
  /\ ~stored => address = given
  /\ stored /\ ~CountryBeneath(given) /\ ~has_too_many_lines(given) =>
       address \in {Reread(given), Reread(Reread(given))}

LEMMA GivenSound == UKAddressInv /\ ~CountryBeneath(given) => Sound(given)
<1> SUFFICES ASSUME UKAddressInv, ~CountryBeneath(given) PROVE Sound(given)
  OBVIOUS
<1>1. PICK raw \in UKAddresses : given = PostalAddressOf(raw)
  BY DEF UKAddressInv
<1> QED BY <1>1, GivenLinesAre, SoundAsRead

(* What is read of any of them.                                            *)
LEMMA ReadOnce ==
  ASSUME NEW a, Sound(a), NEW b, b = a \/ ReadOf(b, a), ~has_too_many_lines(a),
         Storable(b), NEW raw \in Stored(b)
  PROVE  PostalAddressOf(raw) = Reread(b)
<1>1. Sound(b)
  BY Zenon DEF ReadOf
<1>2. ~has_too_many_lines(b)
  <2>1. CASE b = a
    BY <2>1
  <2>2. CASE ReadOf(b, a)
    <3>1. Len(normalised_lines(b)) = Len(normalised_lines(a))
      BY <2>2, NormalAlike DEF LinesAlike
    <3> QED BY <3>1 DEF has_too_many_lines, line_count
  <2> QED BY <2>1, <2>2
<1>3. normalised_lines(b) # <<>>
  BY DEF Storable
<1>4. raw = normalised_lines(b)
  BY <1>1, <1>2, <1>3, PersonalisationIs DEF Stored
<1> QED BY <1>1, <1>3, <1>4, ReadingIs

LEMMA UKInvInit == UKAddressInit => UKAddressInv
  BY DEF UKAddressInit, UKAddressInv

LEMMA UKInvNext == UKAddressInv /\ [UKAddressNext]_uk_vars => UKAddressInv'
<1> SUFFICES ASSUME UKAddressInv, [UKAddressNext]_uk_vars PROVE UKAddressInv'
  OBVIOUS
<1>1. ASSUME Storable(address), NEW raw \in Stored(address), ReadAgain(raw) PROVE UKAddressInv'
  <2>1. stored' = TRUE /\ given' = given /\ address' = PostalAddressOf(raw)
    BY <1>1 DEF ReadAgain
  <2>2. ASSUME ~CountryBeneath(given), ~has_too_many_lines(given)
        PROVE  address' \in {Reread(given), Reread(Reread(given))}
    <3>1. Sound(given)
      BY <2>2, GivenSound
    <3>2. PICK b : b = Reread(given)
      OBVIOUS
    <3>3. ReadOf(b, given) /\ ReadOf(Reread(b), given) /\ Reread(Reread(b)) = Reread(b)
      BY <3>1, <3>2, RereadIs, RereadTwice
    <3>4. address \in {given, b, Reread(b)}
      BY <2>2, <3>2 DEF UKAddressInv
    <3>5. address = given \/ ReadOf(address, given)
      BY <3>3, <3>4
    <3>6. address' = Reread(address)
      BY <1>1, <2>1, <2>2, <3>1, <3>5, ReadOnce
    <3> QED BY <3>2, <3>3, <3>4, <3>6
  <2> QED BY <2>1, <2>2 DEF UKAddressInv
<1>2. ASSUME UNCHANGED uk_vars PROVE UKAddressInv'
  BY <1>2 DEF UKAddressInv, uk_vars
<1> QED BY <1>1, <1>2 DEF UKAddressNext

(* What is read of an address, however often it is stored, is what was     *)
(* read of it first, or second: nothing more is lost.                      *)
THEOREM UKAddressesInductive == UKAddressSpec => []UKAddressInv
<1>1. UKAddressInit => UKAddressInv
  BY UKInvInit
<1>2. UKAddressInv /\ [UKAddressNext]_uk_vars => UKAddressInv'
  BY UKInvNext
<1> QED BY <1>1, <1>2, PTL DEF UKAddressSpec

LEMMA WhatIsStored ==
  ASSUME UKAddressInv, stored, ~CountryBeneath(given), ~has_too_many_lines(given)
  PROVE  Sound(given) /\ ReadOf(address, given)
<1>1. Sound(given)
  BY GivenSound
<1>2. ReadOf(Reread(given), given) /\ ReadOf(Reread(Reread(given)), given)
  BY <1>1, RereadIs, RereadTwice
<1>3. address \in {Reread(given), Reread(Reread(given))}
  BY DEF UKAddressInv
<1> QED BY <1>1, <1>2, <1>3

(* A valid address can be stored and read again, in either way and any     *)
(* number of times, and is the same and valid; and one that is not does    *)
(* not become so.                                                          *)
THEOREM UKAddressesAlwaysStay == UKAddressSpec => []StoredUKAddressesStay
<1>1. UKAddressInv => StoredUKAddressesStay
  <2> SUFFICES ASSUME UKAddressInv, stored
               PROVE  /\ valid(given) /\ ~CountryBeneath(given) =>
                           /\ ~Raises(address) /\ valid(address)
                           /\ Same(address, given) \/ SameUnderItsOtherName(address, given)
                           /\ postcode(address) = postcode(given)
                      /\ ~Raises(address) /\ valid(address) =>
                           valid(given) \/ has_too_many_lines(given) \/ CountryBeneath(given)
    BY Zenon DEF StoredUKAddressesStay
  <2>1. ASSUME ~CountryBeneath(given), ~has_too_many_lines(given)
        PROVE  Sound(given) /\ ReadOf(address, given)
    BY <2>1, WhatIsStored
  <2>2. valid(given) => ~has_too_many_lines(given)
    BY Zenon DEF valid
  <2>3. ASSUME valid(given), ~CountryBeneath(given)
        PROVE  /\ ~Raises(address) /\ valid(address)
               /\ Same(address, given) \/ SameUnderItsOtherName(address, given)
               /\ postcode(address) = postcode(given)
    <3>1. Sound(given) /\ ReadOf(address, given)
      BY <2>1, <2>2, <2>3
    <3>2. ~Raises(address)
      BY <2>3, <3>1, ValidHasLines
    <3>3. valid(address)
      BY <2>3, <3>1, ValidAgain
    <3>4. Same(address, given) \/ SameUnderItsOtherName(address, given)
      BY <3>1, SameAgain
    <3>5. postcode(address) = postcode(given)
      BY <3>1, Zenon DEF ReadOf
    <3> QED BY <3>2, <3>3, <3>4, <3>5
  <2>4. ASSUME valid(address), ~CountryBeneath(given), ~has_too_many_lines(given)
        PROVE  valid(given)
    BY <2>1, <2>4, ValidAgain
  <2> QED BY <2>3, <2>4, Zenon
<1> QED BY <1>1, UKAddressesInductive, PTL

-----------------------------------------------------------------------------
(* The recipient's own lines.                                              *)
OwnAndThenNames(lines, m) ==
  /\ m \in 0..Len(lines)
  /\ \A k \in 1..m : CountryOf(lines[k]) = NotFound
  /\ \A k \in (m + 1)..Len(lines) : CountryOf(lines[k]) # NotFound

LEMMA OwnLinesAre ==
  ASSUME NEW lines \in Seq(UKLines), NEW m, OwnAndThenNames(lines, m)
  PROVE  OwnLines(lines) = SubSeq(lines, 1, m)
<1>1. PICK chosen : chosen = {line \in ToSet(lines) : CountryOf(line) = NotFound}
  OBVIOUS
<1>2. OwnLines(lines) = Where(lines, chosen)
  BY <1>1 DEF OwnLines
<1>3. PICK n \in Nat : n = Len(lines)
  BY LenProperties
<1>4. m \in 0..n
  BY <1>3 DEF OwnAndThenNames
<1>5. \A k \in 1..n : lines[k] \in ToSet(lines)
  BY <1>3, ElementsOf
<1>6. FirstChosen(lines, chosen, m)
  <2>1. \A k \in 1..m : lines[k] \in chosen
    <3> TAKE k \in 1..m
    <3>1. k \in 1..n
      BY <1>4
    <3>2. CountryOf(lines[k]) = NotFound
      BY DEF OwnAndThenNames
    <3> QED BY <1>1, <1>5, <3>1, <3>2
  <2>2. \A k \in (m + 1)..Len(lines) : lines[k] \notin chosen
    BY <1>1 DEF OwnAndThenNames
  <2> QED BY <2>1, <2>2 DEF FirstChosen
<1> QED BY <1>2, <1>3, <1>4, <1>6, WhereFirst

LEMMA AllOwnLines ==
  ASSUME NEW lines \in Seq(UKLines), \A k \in 1..Len(lines) : CountryOf(lines[k]) = NotFound
  PROVE  OwnLines(lines) = lines
<1>1. PICK n \in Nat : n = Len(lines)
  BY LenProperties
<1>2. OwnAndThenNames(lines, n)
  BY <1>1 DEF OwnAndThenNames
<1>3. SubSeq(lines, 1, n) = lines
  BY <1>1, SubSeqFull
<1> QED BY <1>2, <1>3, OwnLinesAre

(* Where no line comes after a name of a country.                          *)
LEMMA NamesLast ==
  ASSUME NEW lines \in Seq(UKLines), NEW found, found = CountriesOf(lines), CountriesComeLast(found)
  PROVE  \E m : OwnAndThenNames(lines, m)
<1>1. PICK n \in Nat : n = Len(lines)
  BY LenProperties
<1>2. DOMAIN found = 1..n /\ Len(found) = n /\ \A k \in 1..n : found[k] = CountryOf(lines[k])
  BY <1>1, FoundIs
<1>3. PICK names : names = {k \in 1..n : found[k] # NotFound}
  OBVIOUS
<1>4. CASE names = {}
  <2>1. OwnAndThenNames(lines, n)
    <3>1. n \in 0..n /\ (n + 1)..n = {}
      OBVIOUS
    <3>2. \A k \in 1..n : CountryOf(lines[k]) = NotFound
      BY <1>2, <1>3, <1>4
    <3> QED BY <1>1, <3>1, <3>2 DEF OwnAndThenNames
  <2> QED BY <2>1
<1>5. CASE names # {}
  <2>1. names \subseteq 1..n
    BY <1>3
  <2>2. PICK first : first = Min(names)
    OBVIOUS
  <2>3. first \in names /\ \A k \in names : first <= k
    BY <1>5, <2>1, <2>2, LeastPlace
  <2>4. first \in 1..n /\ found[first] # NotFound
    BY <1>3, <2>3
  <2>5. \A k \in first..n : found[k] # NotFound
    BY <1>2, <2>4 DEF CountriesComeLast
  <2>6. PICK m : m = first - 1
    OBVIOUS
  <2>7. m \in 0..n /\ m + 1 = first /\ \A k \in 1..m : k \in 1..n /\ ~(first <= k)
    BY <2>4, <2>6
  <2>8. \A k \in 1..m : CountryOf(lines[k]) = NotFound
    BY <1>2, <1>3, <2>3, <2>7
  <2>9. \A k \in first..n : k \in 1..n
    BY <2>4
  <2>10. \A k \in (m + 1)..n : CountryOf(lines[k]) # NotFound
    BY <1>2, <2>5, <2>7, <2>9
  <2>11. OwnAndThenNames(lines, m)
    BY <1>1, <2>7, <2>8, <2>10 DEF OwnAndThenNames
  <2> QED BY <2>11
<1> QED BY <1>4, <1>5

(* What is left of such lines when the country is taken off.               *)
AreLeft(lines, own, m, name) ==
  /\ own \in Seq(UKLines)
  /\ OwnAndThenNames(own, m) /\ SubSeq(own, 1, m) = SubSeq(lines, 1, m)
  /\ name = UK => m = Len(own)

LEMMA OwnAreLeft ==
  ASSUME NEW raw \in Seq(UKLines), NEW a, a = PostalAddressOf(raw), ~CountryBeneath(a),
         NEW m, OwnAndThenNames(a.lines_without_bfpo, m)
  PROVE  AreLeft(a.lines_without_bfpo, a.lines_without_country_or_bfpo, m, a.country)
<1> SUFFICES ASSUME NEW lines, lines = a.lines_without_bfpo,
                    NEW own, own = a.lines_without_country_or_bfpo
             PROVE  /\ own \in Seq(UKLines)
                    /\ OwnAndThenNames(own, m) /\ SubSeq(own, 1, m) = SubSeq(lines, 1, m)
                    /\ a.country = UK => m = Len(own)
  BY Zenon DEF AreLeft
<1>1. PICK number : number = BfpoNumber(Lines(raw))
  OBVIOUS
<1>2. PICK found : found = CountriesOf(lines)
  OBVIOUS
<1>3. /\ lines = _parse_and_extract_bfpo(Lines(raw), number)
      /\ own = IF LastIsCountry(found)
                 THEN SubSeq(lines, 1, Len(lines) - lines_to_truncate(found)) ELSE lines
      /\ a.country = IF LastIsCountry(found) THEN Last(found) ELSE UK
  <2>1. PICK beside : beside = _parse_and_extract_bfpo(Lines(raw), number)
    OBVIOUS
  <2>2. a = WithCountry(number, beside, CountriesOf(beside))
    BY <1>1, <2>1 DEF PostalAddressOf, Parsed
  <2>3. lines = beside
    BY <2>2 DEF WithCountry
  <2> QED BY <1>2, <2>1, <2>2, <2>3 DEF WithCountry
<1>4. Lines(raw) \in Seq(UKLines) /\ (AreWritten(Lines(raw)) \/ Lines(raw) = <<<<>>>>)
  BY LinesRead
<1>5. lines \in Seq(UKLines)
  BY <1>1, <1>3, <1>4, BesideRead DEF AreBeside
<1>6. PICK n \in Nat : n = Len(lines)
  BY <1>5, LenProperties
<1>7. /\ m \in 0..n
      /\ \A k \in 1..m : CountryOf(lines[k]) = NotFound
      /\ \A k \in (m + 1)..n : CountryOf(lines[k]) # NotFound
  BY <1>6 DEF OwnAndThenNames
<1>8. /\ found = <<>> <=> lines = <<>>
      /\ lines # <<>> => Last(found) = CountryOf(lines[n])
  BY <1>2, <1>5, <1>6, LastFound
<1>9. n = 0 <=> lines = <<>>
  BY <1>5, <1>6, EmptySeq
<1>10. LastIsCountry(found) <=> m < n
  <2>1. CASE n = 0
    BY <1>7, <1>8, <1>9, <2>1 DEF LastIsCountry
  <2>2. CASE n # 0
    <3>1. LastIsCountry(found) <=> CountryOf(lines[n]) # NotFound
      BY <1>8, <1>9, <2>2 DEF LastIsCountry
    <3>2. m < n => n \in (m + 1)..n
      BY <1>7
    <3>3. ~(m < n) => n \in 1..m
      BY <1>7, <2>2
    <3> QED BY <1>7, <3>1, <3>2, <3>3
  <2> QED BY <2>1, <2>2
<1>11. CASE ~(m < n)
  <2>1. own = lines /\ m = n
    BY <1>3, <1>7, <1>10, <1>11
  <2> QED BY <1>5, <1>6, <2>1
<1>12. CASE m < n
  <2>1. LastIsCountry(found)
    BY <1>10, <1>12
  <2>2. PICK gone \in 1..n : gone = lines_to_truncate(found)
    BY <1>2, <1>5, <1>6, <2>1, TruncatedIs
  <2>3. gone <= n - m
    <3>1. m \in 0..n - 1
      BY <1>7, <1>12
    <3>2. \A k \in 1..m : found[k] = NotFound
      <4>1. \A k \in 1..m : k \in 1..n
        BY <1>7
      <4>2. \A k \in 1..n : found[k] = CountryOf(lines[k])
        BY <1>2, <1>5, <1>6, FoundIs
      <4> QED BY <1>7, <4>1, <4>2
    <3> QED BY <1>2, <1>5, <1>6, <2>1, <2>2, <3>1, <3>2, TruncatedIs
  <2>4. PICK p : p = n - gone
    OBVIOUS
  <2>5. p \in 0..n /\ p < n /\ m <= p
    BY <1>7, <2>2, <2>3, <2>4
  <2>6. own = SubSeq(lines, 1, p)
    BY <1>3, <1>6, <2>1, <2>2, <2>4
  <2>7. own \in Seq(UKLines) /\ Len(own) = p /\ \A k \in 1..p : own[k] = lines[k]
    BY <1>5, <1>6, <2>5, <2>6, FirstLines
  <2>8. OwnAndThenNames(own, m)
    <3>1. m \in 0..p /\ (\A k \in 1..m : k \in 1..p) /\ (\A k \in (m + 1)..p : k \in 1..p /\ k \in (m + 1)..n)
      BY <1>7, <2>5
    <3>2. \A k \in 1..m : CountryOf(own[k]) = NotFound
      BY <1>7, <2>7, <3>1
    <3>3. \A k \in (m + 1)..p : CountryOf(own[k]) # NotFound
      BY <1>7, <2>7, <3>1
    <3> QED BY <2>7, <3>1, <3>2, <3>3 DEF OwnAndThenNames
  <2>9. SubSeq(own, 1, m) = SubSeq(lines, 1, m)
    <3>1. m \in 0..Len(lines) /\ m \in 0..Len(own)
      BY <1>6, <1>7, <2>5, <2>7
    <3>2. PICK one : one = SubSeq(own, 1, m)
      OBVIOUS
    <3>3. PICK two : two = SubSeq(lines, 1, m)
      OBVIOUS
    <3>4. one \in Seq(UKLines) /\ Len(one) = m /\ \A k \in 1..m : one[k] = own[k]
      BY <2>7, <3>1, <3>2, FirstLines
    <3>5. two \in Seq(UKLines) /\ Len(two) = m /\ \A k \in 1..m : two[k] = lines[k]
      BY <1>5, <3>1, <3>3, FirstLines
    <3>6. \A k \in 1..m : one[k] = two[k]
      <4>1. \A k \in 1..m : k \in 1..p
        BY <1>7, <2>5
      <4> QED BY <2>7, <3>4, <3>5, <4>1
    <3>7. one = two
      BY <3>4, <3>5, <3>6, SeqEqual
    <3> QED BY <3>2, <3>3, <3>7
  <2>10. a.country = UK => m = p
    <3> HAVE a.country = UK
    <3>1. ~LastIsCountry(CountriesOf(own))
      BY InternationalIs DEF CountryBeneath
    <3>2. /\ CountriesOf(own) = <<>> <=> own = <<>>
          /\ own # <<>> => Last(CountriesOf(own)) = CountryOf(own[p])
      BY <2>7, LastFound
    <3>3. own = <<>> \/ CountryOf(own[p]) = NotFound
      BY <3>1, <3>2 DEF LastIsCountry
    <3>4. own = <<>> => p = 0
      BY <2>7, EmptySeq
    <3>5. m < p => p \in (m + 1)..p
      BY <1>7, <2>5
    <3>6. m < p => CountryOf(own[p]) # NotFound
      BY <2>7, <2>8, <3>5 DEF OwnAndThenNames
    <3> QED BY <1>7, <2>5, <3>3, <3>4, <3>6
  <2> QED BY <1>5, <2>7, <2>8, <2>9, <2>10
<1> QED BY <1>11, <1>12

LEMMA OwnLinesGoOut ==
  ASSUME UKAddressInv, ~CountryBeneath(given),
         CountriesComeLast(CountriesOf(given.lines_without_bfpo)),
         NEW name \in CanonicalNames, name = UK <=> given.country = UK
  PROVE  OwnLines(EndedWith(WithPostcode(given), name)) = OwnLinesSent(OwnLines(given.lines_without_bfpo))
<1>1. PICK raw \in UKAddresses : given = PostalAddressOf(raw)
  BY DEF UKAddressInv
<1>2. raw \in Seq(UKLines)
  BY GivenLinesAre
<1>3. PICK lines : lines = given.lines_without_bfpo
  OBVIOUS
<1>4. PICK own : own = given.lines_without_country_or_bfpo
  OBVIOUS
<1>5. PICK body : body = WithPostcode(given)
  OBVIOUS
<1>6. Sound(given)
  BY GivenSound
<1>7. lines \in Seq(UKLines)
  <2>1. PICK number : number = BfpoNumber(Lines(raw))
    OBVIOUS
  <2>2. PICK beside : beside = _parse_and_extract_bfpo(Lines(raw), number)
    OBVIOUS
  <2>3. Lines(raw) \in Seq(UKLines) /\ (AreWritten(Lines(raw)) \/ Lines(raw) = <<<<>>>>)
    BY <1>2, LinesRead
  <2>4. beside \in Seq(UKLines)
    BY <2>1, <2>2, <2>3, BesideRead DEF AreBeside
  <2>5. given = WithCountry(number, beside, CountriesOf(beside))
    BY <1>1, <2>1, <2>2 DEF PostalAddressOf, Parsed
  <2>6. lines = beside
    BY <1>3, <2>5 DEF WithCountry
  <2> QED BY <2>4, <2>6
<1>8. PICK m : OwnAndThenNames(lines, m)
  <2>1. \E m : OwnAndThenNames(lines, m)
    BY <1>3, <1>7, NamesLast
  <2> QED BY <2>1
<1>9. /\ own \in Seq(UKLines) /\ OwnAndThenNames(own, m) /\ SubSeq(own, 1, m) = SubSeq(lines, 1, m)
      /\ given.country = UK => m = Len(own)
  <2>1. AreLeft(lines, own, m, given.country)
    BY <1>1, <1>2, <1>3, <1>4, <1>8, OwnAreLeft
  <2> QED BY <2>1, Zenon DEF AreLeft
<1>10. PICK mine : mine = SubSeq(own, 1, m)
  OBVIOUS
<1>11. OwnLines(lines) = mine
  BY <1>7, <1>8, <1>9, <1>10, OwnLinesAre
<1>12. PICK n \in Nat : n = Len(own)
  BY <1>9, LenProperties
<1>13. CASE given.country # UK
  <2>1. international(given) /\ name # UK
    BY <1>13, InternationalIs
  <2>2. OwnLinesSent(mine) = mine
    BY <2>1 DEF OwnLinesSent
  <2>3. body = own
    BY <1>4, <1>5, <1>6, <1>13, PostcodeIs
  <2>4. name \in UKLines /\ CountryOf(name) # NotFound
    <3>1. CountryOf(name) # NotFound
      BY CountriesAssumption, Zenon
    <3> QED BY <3>1, LinesThatAre
  <2>5. PICK text : text = Append(own, name)
    OBVIOUS
  <2>6. /\ text \in Seq(UKLines) /\ Len(text) = n + 1 /\ text[n + 1] = name
        /\ \A k \in 1..n : text[k] = own[k]
    BY <1>9, <1>12, <2>4, <2>5, Appended
  <2>7. /\ m \in 0..n
        /\ \A k \in 1..m : CountryOf(own[k]) = NotFound
        /\ \A k \in (m + 1)..n : CountryOf(own[k]) # NotFound
    BY <1>9, <1>12 DEF OwnAndThenNames
  <2>8. OwnAndThenNames(text, m)
    <3>1. m \in 0..(n + 1) /\ (\A k \in 1..m : k \in 1..n)
      BY <2>7
    <3>2. \A k \in (m + 1)..(n + 1) : k = n + 1 \/ (k \in 1..n /\ k \in (m + 1)..n)
      BY <2>7
    <3>3. \A k \in 1..m : CountryOf(text[k]) = NotFound
      BY <2>6, <2>7, <3>1
    <3>4. \A k \in (m + 1)..(n + 1) : CountryOf(text[k]) # NotFound
      BY <2>4, <2>6, <2>7, <3>2
    <3> QED BY <2>6, <3>1, <3>3, <3>4 DEF OwnAndThenNames
  <2>9. OwnLines(text) = SubSeq(text, 1, m)
    BY <2>6, <2>8, OwnLinesAre
  <2>10. SubSeq(text, 1, m) = mine
    <3>1. m \in 0..Len(text) /\ m \in 0..Len(own) /\ \A k \in 1..m : k \in 1..n
      BY <1>12, <2>6, <2>7
    <3>2. PICK one : one = SubSeq(text, 1, m)
      OBVIOUS
    <3>3. one \in Seq(UKLines) /\ Len(one) = m /\ \A k \in 1..m : one[k] = text[k]
      BY <2>6, <3>1, <3>2, FirstLines
    <3>4. mine \in Seq(UKLines) /\ Len(mine) = m /\ \A k \in 1..m : mine[k] = own[k]
      BY <1>9, <1>10, <3>1, FirstLines
    <3>5. \A k \in 1..m : one[k] = mine[k]
      BY <2>6, <3>1, <3>3, <3>4
    <3> QED BY <3>2, <3>3, <3>4, <3>5, SeqEqual
  <2>11. EndedWith(body, name) = text
    BY <2>1, <2>3, <2>5 DEF EndedWith
  <2> QED BY <1>3, <1>5, <1>11, <2>2, <2>9, <2>10, <2>11
<1>14. CASE given.country = UK
  <2>1. ~international(given) /\ name = UK
    BY <1>14, InternationalIs
  <2>2. mine = own
    BY <1>9, <1>10, <1>14, SubSeqFull
  <2>3. \A k \in 1..n : CountryOf(own[k]) = NotFound
    BY <1>9, <1>12, <1>14 DEF OwnAndThenNames
  <2>4. OwnLinesSent(own) = body
    <3>1. PICK code : code = IF own = <<>> THEN NoPostcode ELSE format_postcode_or_none(Last(own))
      OBVIOUS
    <3>2. postcode(given) = code
      BY <1>4, <2>1, <3>1 DEF postcode
    <3>3. OwnLinesSent(own) = IF code = NoPostcode THEN own ELSE Append(Front(own), code)
      BY <2>1, <3>1 DEF OwnLinesSent
    <3> QED BY <1>4, <1>5, <3>2, <3>3 DEF WithPostcode, has_valid_postcode
  <2>5. body \in Seq(UKLines) /\ Len(body) = n
    BY <1>4, <1>5, <1>6, <1>12, BodyIs DEF AreBeside
  <2>6. \A k \in 1..n : CountryOf(body[k]) = NotFound
    <3>1. CASE ~has_valid_postcode(given)
      <4>1. body = own
        BY <1>4, <1>5, <1>6, <3>1, PostcodeIs
      <4> QED BY <2>3, <4>1
    <3>2. CASE has_valid_postcode(given)
      <4>1. n \in Nat \ {0} /\ body = Append(SubSeq(own, 1, n - 1), postcode(given))
        BY <1>4, <1>5, <1>6, <1>12, <3>2, PostcodeIs
      <4>2. PICK word \in DOMAIN Postcode : postcode(given) = <<Postcode[word]>>
        BY <1>6, <3>2, PostcodeIs
      <4>3. PICK code \in UKLines : code = <<Postcode[word]>>
        BY LinesThatAre
      <4>4. CountryOf(code) = NotFound
        BY <4>3, BfpoOrNot
      <4>5. PICK p \in Nat : p = n - 1
        <5>1. n - 1 \in Nat
          BY <4>1
        <5> QED BY <5>1
      <4>6. n = p + 1 /\ p \in 0..Len(own)
        BY <1>12, <4>5
      <4>7. PICK first : first = SubSeq(own, 1, p)
        OBVIOUS
      <4>8. first \in Seq(UKLines) /\ Len(first) = p /\ \A k \in 1..p : first[k] = own[k]
        BY <1>9, <4>6, <4>7, FirstLines
      <4>9. body[p + 1] = code /\ \A k \in 1..p : body[k] = first[k]
        <5>1. body = Append(first, code)
          BY <4>1, <4>2, <4>3, <4>5, <4>7
        <5> QED BY <4>8, <5>1, Appended
      <4>10. \A k \in 1..n : k = p + 1 \/ (k \in 1..p /\ k \in 1..n)
        BY <4>6
      <4> QED BY <2>3, <4>4, <4>8, <4>9, <4>10
    <3> QED BY <3>1, <3>2
  <2>7. OwnLines(body) = body
    BY <2>5, <2>6, AllOwnLines
  <2>8. EndedWith(body, name) = body
    BY <2>1 DEF EndedWith
  <2> QED BY <1>3, <1>5, <1>11, <2>2, <2>4, <2>7, <2>8
<1> QED BY <1>13, <1>14

(* Every line of its own of a valid address goes out in its place, however *)
(* often the address was stored, and a BFPO address has what is above its  *)
(* footer and the footer.                                                  *)
THEOREM ValidUKAddressesAlwaysGoOutWhole == UKAddressSpec => []ValidUKAddressesGoOutWhole
<1>1. UKAddressInv => ValidUKAddressesGoOutWhole
  <2> SUFFICES ASSUME UKAddressInv, valid(given), ~CountryBeneath(given),
                      CountriesComeLast(CountriesOf(given.lines_without_bfpo)),
                      NEW sent, sent = normalised_lines(address)
               PROVE  /\ OwnLines(_parse_and_extract_bfpo(sent, BfpoNumber(sent)))
                           = OwnLinesSent(OwnLines(given.lines_without_bfpo))
                      /\ is_bfpo_address(address) =>
                           sent = bfpo_address_lines(address)
                                    \o (IF has_valid_postcode(address) THEN <<postcode(address)>> ELSE <<>>)
                                    \o <<<<"BFPO", given.bfpo_number>>>>
    BY DEF ValidUKAddressesGoOutWhole
  <2>1. Sound(given)
    BY GivenSound
  <2>2. address = given \/ ReadOf(address, given)
    <3>1. CASE ~stored
      BY <3>1 DEF UKAddressInv
    <3>2. CASE stored
      <4>1. ~has_too_many_lines(given)
        BY Zenon DEF valid
      <4> QED BY <3>2, <4>1, WhatIsStored
    <3> QED BY <3>1, <3>2
  <2>3. /\ Sound(address) /\ address.bfpo_number = given.bfpo_number
        /\ WithPostcode(address) = WithPostcode(given)
        /\ address.country = UK <=> given.country = UK
    <3>1. CASE address = given
      BY <2>1, <3>1
    <3>2. CASE ReadOf(address, given)
      <4>1. Named(given.country) = UK <=> given.country = UK
        BY <2>1, NamedIs
      <4> QED BY <3>2, <4>1, Zenon DEF ReadOf
    <3> QED BY <2>2, <3>1, <3>2
  <2>4. OwnLines(_parse_and_extract_bfpo(sent, BfpoNumber(sent)))
          = OwnLinesSent(OwnLines(given.lines_without_bfpo))
    <3>1. _parse_and_extract_bfpo(sent, BfpoNumber(sent)) = EndedWith(WithPostcode(given), address.country)
      BY <2>3, TextIs
    <3>2. address.country \in CanonicalNames
      BY <2>3 DEF Sound
    <3> QED BY <2>3, <3>1, <3>2, OwnLinesGoOut
  <2>5. ASSUME is_bfpo_address(address)
        PROVE  sent = bfpo_address_lines(address)
                        \o (IF has_valid_postcode(address) THEN <<postcode(address)>> ELSE <<>>)
                        \o <<<<"BFPO", given.bfpo_number>>>>
    <3>1. address.country = UK
      <4>1. is_bfpo_address(given)
        BY <2>3, <2>5 DEF is_bfpo_address
      <4>2. ~international(given)
        BY <4>1, Zenon DEF valid, has_invalid_country_for_bfpo_address
      <4> QED BY <2>3, <4>2, InternationalIs
    <3>2. PICK n : n = Len(sent)
      OBVIOUS
    <3>3. /\ sent \in Seq(UKLines) /\ n \in Nat \ {0}
          /\ Last(sent) = <<"BFPO", address.bfpo_number>>
          /\ ~has_valid_postcode(address) => sent = SubSeq(sent, 1, n - 1) \o <<Last(sent)>>
          /\ has_valid_postcode(address) =>
               n >= 2 /\ sent = (SubSeq(sent, 1, n - 2) \o <<postcode(address)>>) \o <<Last(sent)>>
      BY <2>3, <2>5, <3>1, <3>2, FooterApart
    <3>4. Last(sent) = <<"BFPO", given.bfpo_number>>
      BY <2>3, <3>3
    <3>5. CASE has_valid_postcode(address)
      <4>1. bfpo_address_lines(address) = SubSeq(sent, 1, n - 2)
        BY <3>2, <3>5 DEF bfpo_address_lines
      <4> QED BY <3>3, <3>4, <3>5, <4>1
    <3>6. CASE ~has_valid_postcode(address)
      <4>1. bfpo_address_lines(address) = SubSeq(sent, 1, n - 1)
        BY <3>2, <3>6 DEF bfpo_address_lines
      <4>2. n - 1 \in 0..Len(sent)
        BY <3>2, <3>3
      <4>3. SubSeq(sent, 1, n - 1) \in Seq(UKLines)
        BY <3>3, <4>2, FirstLines
      <4>4. SubSeq(sent, 1, n - 1) \o <<>> = SubSeq(sent, 1, n - 1)
        BY <4>3, ConcatEmptySeq
      <4> QED BY <3>3, <3>4, <3>6, <4>1, <4>4
    <3> QED BY <3>5, <3>6
  <2> QED BY <2>4, <2>5
<1> QED BY <1>1, UKAddressesInductive, PTL
=============================================================================
