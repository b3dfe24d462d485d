--------------------------- MODULE NotifyTaskProofs ---------------------------
(***************************************************************************)
(* Theorems about NotifyTask, for any web apps and workers, tasks, groups, *)
(* depth of calls and length of the queue.                                 *)
(***************************************************************************)
EXTENDS NotifyTask, FiniteSetTheorems, SequenceTheorems, TLAPS

-----------------------------------------------------------------------------
(* Sequences, and how many calls have pushed a context.                    *)

LEMMA FrontAndLast ==
  ASSUME NEW S, NEW s \in Seq(S), s # <<>>
  PROVE  /\ Len(s) \in Nat \ {0}
         /\ Front(s) \in Seq(S)
         /\ Len(Front(s)) = Len(s) - 1
         /\ \A n \in 1..(Len(s) - 1) : Front(s)[n] = s[n]
         /\ Last(s) = s[Len(s)]
         /\ Last(s) \in S
<1>1. Len(s) \in Nat \ {0}
  BY EmptySeq, LenProperties
<1>2. \A n \in 1..Len(s) : s[n] \in S
  BY ElementOfSeq
<1>3. \A n \in 1..(Len(s) - 1) : s[n] \in S
  BY <1>1, <1>2
<1>4. /\ SubSeq(s, 1, Len(s) - 1) \in Seq(S)
      /\ Len(SubSeq(s, 1, Len(s) - 1)) = Len(s) - 1
      /\ \A n \in 1..(Len(s) - 1) : SubSeq(s, 1, Len(s) - 1)[n] = s[n]
  <2> DEFINE m == Len(s) - 1
  <2>1. m \in Int /\ \A i \in 1..m : s[i] \in S
    BY <1>1, <1>3
  <2>2. m \in Nat
    BY <1>1
  <2> HIDE DEF m
  <2>3. \A a, b \in Int : (\A i \in a..b : s[i] \in S) => SubSeq(s, a, b) \in Seq(S)
    BY SubSeqProperties, Zenon
  <2>4. \A a \in Int : a = 1 => SubSeq(s, a, m) \in Seq(S)
    BY <2>1, <2>3
  <2>5. SubSeq(s, 1, m) \in Seq(S)
    BY <2>4
  <2>6. Len(SubSeq(s, 1, m)) = m
    BY <2>2
  <2>7. \A n \in 1..m : SubSeq(s, 1, m)[n] = s[n]
    BY <2>2
  <2>8. m = Len(s) - 1
    BY DEF m
  <2> QED BY <2>5, <2>6, <2>7, <2>8
<1> QED BY <1>1, <1>2, <1>4 DEF Front, Last

LEMMA Appended ==
  ASSUME NEW S, NEW s \in Seq(S), NEW e \in S
  PROVE  /\ Append(s, e) \in Seq(S)
         /\ Append(s, e) # <<>>
         /\ Len(s) \in Nat
         /\ Len(Append(s, e)) = Len(s) + 1
         /\ \A n \in 1..Len(s) : Append(s, e)[n] = s[n]
         /\ Append(s, e)[Len(s) + 1] = e
  BY AppendProperties, LenProperties

LEMMA FunctionsAreSequences ==
  ASSUME NEW S, NEW n \in Nat, NEW f \in [1..n -> S]
  PROVE  f \in Seq(S) /\ Len(f) = n
  OBVIOUS

(* A set of places in a sequence has a last one.                           *)
LEMMA LastPlace ==
  ASSUME NEW len \in Nat, NEW places, places \subseteq 1..len, places # {}
  PROVE  Max(places) \in places
<1> DEFINE After(n) == {m \in places : m > n}
<1>1. IsFiniteSet(places)
  <2>1. IsFiniteSet(1..len)
    BY FS_Interval
  <2> QED BY <2>1, FS_Subset
<1>2. IsWellFoundedOn(StrictSubsetOrdering(places), SUBSET places)
  BY <1>1, FS_StrictSubsetOrderingWellFounded, FS_FiniteSubsetsOfFinite
<1>3. PICK least \in {After(n) : n \in places} :
        \A other \in {After(n) : n \in places} :
          <<other, least>> \notin StrictSubsetOrdering(places)
  <2>1. {After(n) : n \in places} \subseteq SUBSET places /\ {After(n) : n \in places} # {}
    OBVIOUS
  <2> DEFINE T == {After(n) : n \in places}
  <2>2. T \subseteq SUBSET places /\ T # {}
    BY <2>1
  <2> HIDE DEF T
  <2>3. \E x \in T : \A y \in T : ~(<<y, x>> \in StrictSubsetOrdering(places))
    BY <1>2, <2>2, WFMin, Zenon
  <2> QED BY <2>3 DEF T
<1>4. PICK last \in places : least = After(last)
  BY <1>3
<1>5. \A m \in places : last >= m
  <2> SUFFICES ASSUME NEW m \in places, m > last PROVE FALSE
    OBVIOUS
  <2>1. After(m) \subseteq After(last)
    <3>1. m \in Int /\ last \in Int /\ places \subseteq Int
      OBVIOUS
    <3>2. \A other \in places : other > m => other > last
      BY <3>1
    <3> QED BY <3>2
  <2>2. m \in After(last) /\ m \notin After(m)
    OBVIOUS
  <2>3. After(last) \subseteq places /\ After(m) \subseteq places
    OBVIOUS
  <2>4. <<After(m), After(last)>> \in StrictSubsetOrdering(places)
    <3> HIDE DEF After
    <3> QED BY <2>1, <2>2, <2>3 DEF StrictSubsetOrdering
  <2>5. After(m) \in {After(n) : n \in places}
    OBVIOUS
  <2> QED BY <1>3, <1>4, <2>4, <2>5
<1> QED BY <1>5 DEF Max

Pushing(s) == {n \in 1..Len(s) : s[n].pushed}

LEMMA PushingIsFinite ==
  ASSUME NEW S, NEW s \in Seq(S)
  PROVE  /\ IsFiniteSet(Pushing(s))
         /\ Cardinality(Pushing(s)) \in Nat
  <1>1. Len(s) \in Nat
    BY LenProperties
  <1>2. IsFiniteSet(1..Len(s))
    BY <1>1, FS_Interval
  <1>3. Pushing(s) \subseteq 1..Len(s)
    BY DEF Pushing
  <1> QED BY <1>2, <1>3, FS_Subset, FS_CardinalityType

(* One call more, whose predecessors pushed what they did.                 *)
LEMMA PushingMore ==
  ASSUME NEW S, NEW s \in Seq(S), NEW t \in Seq(S), Len(t) = Len(s) + 1,
         \A n \in 1..Len(s) : t[n].pushed = s[n].pushed
  PROVE  Cardinality(Pushing(t)) =
           IF t[Len(t)].pushed THEN Cardinality(Pushing(s)) + 1 ELSE Cardinality(Pushing(s))
<1>1. Len(s) \in Nat /\ Len(t) \in Nat
  BY LenProperties
<1>2. CASE t[Len(t)].pushed
  <2>1. Pushing(t) = Pushing(s) \cup {Len(t)}
    BY <1>1, <1>2 DEF Pushing
  <2>2. Len(t) \notin Pushing(s)
    BY <1>1 DEF Pushing
  <2> QED BY <1>2, <2>1, <2>2, PushingIsFinite, FS_AddElement
<1>3. CASE ~t[Len(t)].pushed
  <2>1. Pushing(t) = Pushing(s)
    BY <1>1, <1>3 DEF Pushing
  <2> QED BY <1>3, <2>1
<1> QED BY <1>2, <1>3

LEMMA PushingLess ==
  ASSUME NEW S, NEW s \in Seq(S), s # <<>>
  PROVE  Cardinality(Pushing(s)) =
           IF Last(s).pushed THEN Cardinality(Pushing(Front(s))) + 1
           ELSE Cardinality(Pushing(Front(s)))
<1>1. /\ Front(s) \in Seq(S) /\ Len(s) = Len(Front(s)) + 1 /\ Last(s) = s[Len(s)]
      /\ \A n \in 1..Len(Front(s)) : s[n].pushed = Front(s)[n].pushed
  BY FrontAndLast
<1> QED BY <1>1, PushingMore

-----------------------------------------------------------------------------
(* The inductive invariant.  A worker works for a message from taking it   *)
(* to its end: the first call is then the message's, in a context of its   *)
(* own, and all others are direct.  As long as each of them pushed a       *)
(* context, all of those hold the id of the cause.  Otherwise contexts     *)
(* hold no id, so that what is sent there begins a trace; the one beneath  *)
(* the calls stays so whatever they do.                                    *)

Works(p) == p \in Workers /\ cause[p] # None

NoId == {Unset, None}

IsDirect(call) == call.id = None /\ call.headers = NoHeaders

TracesAreCauses(p) ==
  /\ p \in Workers => trace[p] = Unset
  /\ p \in Webs => cause[p] = IF trace[p] = Unset THEN None ELSE trace[p]

OthersAreDirect(p) ==
  \A n \in 1..Len(calls[p]) : IsDirect(calls[p][n]) \/ (Works(p) /\ n = 1)

FirstIsTheMessage(p) ==
  Works(p) =>
    /\ calls[p] # <<>>
    /\ calls[p][1].id # None /\ calls[p][1].pushed
    /\ ~blurred[p] => request_id(calls[p][1]) = cause[p]

FirstKeepsItsGroup(p) ==
  Works(p) =>
    \/ calls[p][1].asked = None
    \/ calls[p][1].headers.message_group_id = calls[p][1].asked

FirstIsTimed(p) ==
  Works(p) =>
    LET first == calls[p][1]
        started == start[p][first.task]
    IN /\ first.began <= clock
       /\ started = first.began \/ (started > first.began /\ first.again)

OneContextAtMostBeneath(p) ==
  LET pushed == Cardinality(Pushing(calls[p]))
  IN Len(g[p]) = pushed \/ Len(g[p]) = pushed + 1

NoIdBeneath(p) ==
  /\ ~Works(p) => \A n \in 1..Len(g[p]) : g[p][n] \in NoId
  /\ Works(p) /\ Len(g[p]) = Cardinality(Pushing(calls[p])) + 1 => g[p][1] \in NoId

ContextsHoldTheCause(p) ==
  Works(p) /\ ~blurred[p] =>
    /\ Len(calls[p]) <= Len(g[p])
    /\ \A n \in 1..Len(calls[p]) :
         /\ calls[p][n].pushed
         /\ g[p][Len(g[p]) - Len(calls[p]) + n] = cause[p]

ProcessOK(p) ==
  /\ TracesAreCauses(p) /\ OthersAreDirect(p)
  /\ FirstIsTheMessage(p) /\ FirstKeepsItsGroup(p) /\ FirstIsTimed(p)
  /\ OneContextAtMostBeneath(p) /\ NoIdBeneath(p) /\ ContextsHoldTheCause(p)

QueueOK ==
  /\ GroupsAreRemembered
  /\ \A q \in queue : ~q.blurred => request_id(q.message) = q.cause

IInv == TasksTypeOK /\ QueueOK /\ \A p \in Processes : ProcessOK(p)

LEMMA Kinds ==
  /\ NoId \cap Ids = {} /\ None \notin Ids /\ Unset # None /\ Unset \notin Ids
  /\ Ids \subseteq Nat /\ NoHeaders \in Headers
  /\ \A p \in Processes : p \in Webs <=> p \notin Workers
  /\ Direct.id = None /\ Direct.headers = NoHeaders
  BY TasksAssumption DEF NoId, Ids, None, Unset, NoHeaders, Headers, Processes, Direct

LEMMA NoCalls ==
  /\ Len(<<>>) = 0
  /\ Pushing(<<>>) = {}
  /\ Cardinality(Pushing(<<>>)) = 0
<1>1. Len(<<>>) = 0
  OBVIOUS
<1>2. Pushing(<<>>) = {}
  BY <1>1 DEF Pushing
<1> QED BY <1>1, <1>2, FS_EmptySet

LEMMA OneContext ==
  /\ <<Unset>> \in Seq(NoId \cup Ids) /\ <<>> \in Seq(NoId \cup Ids)
  /\ Len(<<Unset>>) = 1 /\ <<Unset>>[1] = Unset
<1>1. Unset \in NoId \cup Ids
  BY DEF NoId
<1> QED BY <1>1

LEMMA InitInvariant == TasksInit => IInv
<1> SUFFICES ASSUME TasksInit PROVE IInv
  OBVIOUS
<1>1. TasksTypeOK
  <2>1. \A p \in Processes : g[p] \in Seq(NoId \cup Ids)
    BY OneContext DEF TasksInit
  <2>2. g \in [Processes -> Seq(NoId \cup Ids)]
    BY <2>1 DEF TasksInit
  <2> QED BY <2>2, TasksAssumption DEF TasksInit, TasksTypeOK, NoId, Ids, Unset, None
<1>2. QueueOK
  BY DEF TasksInit, QueueOK, GroupsAreRemembered
<1>3. ASSUME NEW p \in Processes PROVE ProcessOK(p)
  <2>1. /\ trace[p] = Unset /\ calls[p] = <<>> /\ cause[p] = None /\ ~Works(p)
        /\ g[p] = <<>> \/ g[p] = <<Unset>>
    BY DEF TasksInit, Works
  <2>2. /\ Len(g[p]) = 0 \/ Len(g[p]) = 1
        /\ \A n \in 1..Len(g[p]) : g[p][n] \in NoId
    <3>1. CASE g[p] = <<>>
      BY <3>1, NoCalls
    <3>2. CASE g[p] = <<Unset>>
      BY <3>2, OneContext DEF NoId
    <3> QED BY <2>1, <3>1, <3>2
  <2> QED BY <2>1, <2>2, NoCalls DEF ProcessOK, TracesAreCauses, OthersAreDirect,
        FirstIsTheMessage, FirstKeepsItsGroup, FirstIsTimed, OneContextAtMostBeneath,
        NoIdBeneath, ContextsHoldTheCause
<1> QED BY <1>1, <1>2, <1>3 DEF IInv

-----------------------------------------------------------------------------
(* What the actions rest on.                                               *)

LEMMA Typed ==
  ASSUME TasksTypeOK, NEW p \in Processes
  PROVE  /\ g[p] \in Seq(NoId \cup Ids) /\ Len(g[p]) \in Nat
         /\ \A n \in 1..Len(g[p]) : g[p][n] \in NoId \cup Ids
         /\ calls[p] \in Seq(Calls) /\ Len(calls[p]) \in Nat
         /\ \A n \in 1..Len(calls[p]) : calls[p][n] \in Calls
         /\ calls[p] # <<>> <=> Len(calls[p]) > 0
         /\ g[p] # <<>> <=> Len(g[p]) > 0
         /\ Cardinality(Pushing(calls[p])) \in Nat
<1>1. g[p] \in Seq(NoId \cup Ids) /\ calls[p] \in Seq(Calls)
  BY DEF TasksTypeOK, NoId
<1>2. Cardinality(Pushing(calls[p])) \in Nat
  BY <1>1, PushingIsFinite
<1> QED BY <1>1, <1>2, ElementOfSeq, LenProperties, EmptySeq

(* A step of another process.                                              *)
LEMMA Elsewhere ==
  ASSUME IInv, NEW p \in Processes, clock' \in Nat, clock <= clock',
         g'[p] = g[p], calls'[p] = calls[p], trace'[p] = trace[p],
         cause'[p] = cause[p], blurred'[p] = blurred[p],
         p \in Workers => start'[p] = start[p]
  PROVE  ProcessOK(p)'
<1>1. ProcessOK(p) /\ TasksTypeOK
  BY DEF IInv
<1>2. Works(p)' <=> Works(p)
  BY DEF Works
<1>3. /\ TracesAreCauses(p)' /\ OthersAreDirect(p)' /\ FirstIsTheMessage(p)'
      /\ FirstKeepsItsGroup(p)' /\ OneContextAtMostBeneath(p)' /\ NoIdBeneath(p)'
      /\ ContextsHoldTheCause(p)'
  BY <1>1, <1>2 DEF ProcessOK, TracesAreCauses, OthersAreDirect, FirstIsTheMessage,
     FirstKeepsItsGroup, OneContextAtMostBeneath, NoIdBeneath, ContextsHoldTheCause,
     request_id, Pushing, NoId, IsDirect, NoHeaders, None, Unset
<1>4. FirstIsTimed(p)'
  <2> SUFFICES ASSUME Works(p) PROVE FirstIsTimed(p)'
    BY <1>2 DEF FirstIsTimed
  <2>1. calls[p] # <<>>
    BY <1>1 DEF ProcessOK, FirstIsTheMessage
  <2>2. calls[p][1] \in Calls
    BY <1>1, <2>1, Typed
  <2>3. calls[p][1].began \in Int /\ clock \in Int
    BY <1>1, <2>2, TasksAssumption DEF Calls, TasksTypeOK
  <2>4. FirstIsTimed(p) /\ start'[p] = start[p]
    BY <1>1 DEF ProcessOK, Works
  <2> QED BY <2>3, <2>4 DEF FirstIsTimed
<1> QED BY <1>3, <1>4 DEF ProcessOK

(* What goes with what is sent: the cause, unless the way to it was lost;  *)
(* no id, where there is no cause.                                         *)
LEMMA WhatIsSent ==
  ASSUME IInv, NEW p \in Processes, trace[p] # None, NEW default \in Ids \cup {None}
  PROVE  /\ RequestId(p, default) \in Ids \cup {None}
         /\ cause[p] = None => RequestId(p, default) \in {None, default}
         /\ cause[p] # None /\ ~blurred[p] => RequestId(p, default) = cause[p]
<1>1. TasksTypeOK /\ ProcessOK(p)
  BY DEF IInv
<1>2. /\ trace[p] \in NoId \cup Ids /\ cause[p] \in Ids \cup {None}
  BY <1>1 DEF TasksTypeOK, NoId
<1>3. CASE trace[p] # Unset
  <2>1. p \in Webs /\ cause[p] = trace[p] /\ trace[p] \in Ids
    BY <1>1, <1>2, <1>3 DEF ProcessOK, TracesAreCauses, Processes, NoId
  <2> QED BY <1>3, <2>1, Kinds DEF RequestId
<1>4. CASE trace[p] = Unset
  <2>1. cause[p] # None <=> Works(p)
    BY <1>1, <1>4 DEF ProcessOK, TracesAreCauses, Processes, Works
  <2>2. g[p] # <<>> => /\ Last(g[p]) = g[p][Len(g[p])] /\ Len(g[p]) \in 1..Len(g[p])
                       /\ Last(g[p]) \in NoId \cup Ids
    <3>1. g[p] \in Seq(NoId \cup Ids)
      BY <1>1, Typed
    <3> QED BY <3>1, FrontAndLast
  <2>3. CASE ~Works(p)
    <3>1. g[p] # <<>> => Last(g[p]) \in NoId
      BY <1>1, <2>2, <2>3 DEF ProcessOK, NoIdBeneath
    <3> QED BY <1>4, <2>1, <2>3, <3>1 DEF RequestId, HasAppContext, NoId
  <2>4. CASE Works(p)
    <3>1. RequestId(p, default) \in Ids \cup {None}
      BY <1>4, <2>2 DEF RequestId, HasAppContext, NoId
    <3>2. CASE ~blurred[p]
      <4>1. Len(calls[p]) \in Nat /\ Len(g[p]) \in Nat /\ Len(calls[p]) > 0
        BY <1>1, <2>4, Typed DEF ProcessOK, FirstIsTheMessage
      <4>2. /\ Len(calls[p]) <= Len(g[p])
            /\ \A n \in 1..Len(calls[p]) : g[p][Len(g[p]) - Len(calls[p]) + n] = cause[p]
        BY <1>1, <2>4, <3>2 DEF ProcessOK, ContextsHoldTheCause
      <4>3. g[p][Len(g[p]) - Len(calls[p]) + Len(calls[p])] = cause[p]
        <5>1. Len(calls[p]) \in 1..Len(calls[p])
          BY <4>1
        <5> QED BY <4>2, <5>1, Zenon
      <4>4. g[p][Len(g[p])] = cause[p] /\ g[p] # <<>>
        BY <1>1, <4>1, <4>2, <4>3, Typed
      <4> QED BY <1>2, <1>4, <2>1, <2>2, <2>4, <4>4, Kinds DEF RequestId, HasAppContext
    <3> QED BY <2>1, <2>4, <3>1, <3>2
  <2> QED BY <2>3, <2>4
<1> QED BY <1>3, <1>4

LEMMA MoreIsQueued ==
  ASSUME IInv, NEW m \in Messages, NEW asked \in Groups \cup {None},
         NEW from \in Ids, NEW vague \in BOOLEAN, Enqueue(m, asked, from, vague),
         asked # None => m.headers.message_group_id = asked,
         m.MessageGroupId \in {None, m.headers.message_group_id},
         ~vague => request_id(m) = from
  PROVE  /\ QueueOK'
         /\ queue' \subseteq [message : Messages, asked : Groups \cup {None}, cause : Ids,
                             blurred : BOOLEAN]
<1> DEFINE new == [message |-> m, asked |-> asked, cause |-> from, blurred |-> vague]
<1>1. queue' = queue \cup {new}
  BY DEF Enqueue
<1>2. /\ new.message = m /\ new.asked = asked /\ new.cause = from /\ new.blurred = vague
      /\ new \in [message : Messages, asked : Groups \cup {None}, cause : Ids,
                  blurred : BOOLEAN]
  OBVIOUS
<1> HIDE DEF new
<1>3. GroupsAreRemembered'
  BY <1>1, <1>2 DEF IInv, QueueOK, GroupsAreRemembered
<1>4. \A q \in queue' : ~q.blurred => request_id(q.message) = q.cause
  BY <1>1, <1>2 DEF IInv, QueueOK
<1> QED BY <1>1, <1>2, <1>3, <1>4 DEF QueueOK, IInv, TasksTypeOK, request_id

-----------------------------------------------------------------------------
(* Calls and returns.                                                      *)

OlderCall(call, t) == [call EXCEPT !.again = call.again \/ call.task = t]

NewCall(p, t, request, own, asked) ==
  [task |-> t, id |-> own.id, headers |-> own.headers,
   pushed |-> PushesContext(p, request), asked |-> asked,
   began |-> IF own.id = None THEN 0 ELSE clock, again |-> own.id = None]

LEMMA Called ==
  ASSUME TasksTypeOK, NEW p \in Processes, NEW t \in Tasks,
         NEW request, request_id(request) \in Ids \cup {None},
         NEW own, own.id \in Ids \cup {None}, own.headers \in Headers,
         NEW asked \in Groups \cup {None}, Call(p, t, request, own, asked)
  PROVE  /\ calls' \in [Processes -> Seq(Calls)]
         /\ Len(calls'[p]) = Len(calls[p]) + 1
         /\ \A n \in 1..Len(calls[p]) :
              calls'[p][n] = OlderCall(calls[p][n], t)
         /\ calls'[p][Len(calls[p]) + 1] = NewCall(p, t, request, own, asked)
         /\ \A o \in Processes \ {p} : calls'[o] = calls[o]
<1> DEFINE older == [n \in DOMAIN calls[p] |-> OlderCall(calls[p][n], t)]
           new == NewCall(p, t, request, own, asked)
<1>1. calls' = [calls EXCEPT ![p] = Append(older, new)]
  BY DEF Call, OlderCall, NewCall
<1>2. new \in Calls
  BY TasksAssumption DEF Calls, TasksTypeOK, PushesContext, NewCall
<1>3. /\ calls[p] \in Seq(Calls) /\ Len(calls[p]) \in Nat /\ DOMAIN calls[p] = 1..Len(calls[p])
      /\ \A n \in 1..Len(calls[p]) : calls[p][n] \in Calls
  BY Typed
<1>4. \A n \in 1..Len(calls[p]) : older[n] \in Calls
  BY <1>3 DEF Calls, OlderCall
<1>5. older \in [1..Len(calls[p]) -> Calls]
  BY <1>3, <1>4
<1>6. older \in Seq(Calls) /\ Len(older) = Len(calls[p])
  BY <1>3, <1>5, FunctionsAreSequences
<1>7. \A n \in 1..Len(calls[p]) :
        older[n] = OlderCall(calls[p][n], t)
  BY <1>3
<1> HIDE DEF older, new
<1>8. /\ Append(older, new) \in Seq(Calls) /\ Len(Append(older, new)) = Len(calls[p]) + 1
      /\ \A n \in 1..Len(calls[p]) : Append(older, new)[n] = older[n]
      /\ Append(older, new)[Len(calls[p]) + 1] = new
  BY <1>2, <1>6, Appended
<1>9. calls'[p] = Append(older, new) /\ \A o \in Processes \ {p} : calls'[o] = calls[o]
  BY <1>1 DEF TasksTypeOK
<1>10. calls' \in [Processes -> Seq(Calls)]
  BY <1>1, <1>8 DEF TasksTypeOK
<1> QED BY <1>7, <1>8, <1>9, <1>10 DEF new

LEMMA Contexts ==
  ASSUME TasksTypeOK, NEW p \in Processes, NEW t \in Tasks,
         NEW request, request_id(request) \in Ids \cup {None},
         NEW own, NEW asked, Call(p, t, request, own, asked)
  PROVE  /\ g' \in [Processes -> Seq(NoId \cup Ids)]
         /\ PushesContext(p, request) =>
              /\ Len(g'[p]) = Len(g[p]) + 1
              /\ \A n \in 1..Len(g[p]) : g'[p][n] = g[p][n]
         /\ ~PushesContext(p, request) =>
              /\ Len(g'[p]) = Len(g[p]) /\ Len(g[p]) > 0
              /\ \A n \in 1..(Len(g[p]) - 1) : g'[p][n] = g[p][n]
         /\ g'[p][Len(g'[p])] = request_id(request)
         /\ \A o \in Processes \ {p} : g'[o] = g[o]
<1>1. /\ g' = [g EXCEPT ![p] = AppContext(p, request)]
      /\ g \in [Processes -> Seq(NoId \cup Ids)]
  BY DEF Call, TasksTypeOK, NoId
<1>2. g[p] \in Seq(NoId \cup Ids) /\ Len(g[p]) \in Nat /\ (g[p] # <<>> <=> Len(g[p]) > 0)
  BY Typed
<1>3. g'[p] = AppContext(p, request) /\ \A o \in Processes \ {p} : g'[o] = g[o]
  BY <1>1
<1>4. request_id(request) \in NoId \cup Ids
  BY DEF NoId
<1>5. CASE PushesContext(p, request)
  <2>1. AppContext(p, request) = Append(g[p], request_id(request))
    BY <1>5 DEF AppContext
  <2>2. AppContext(p, request) \in Seq(NoId \cup Ids)
    BY <1>2, <1>4, <2>1, Appended
  <2>3. g' \in [Processes -> Seq(NoId \cup Ids)]
    BY <1>1, <2>2
  <2> QED BY <1>2, <1>3, <1>4, <1>5, <2>1, <2>3, Appended
<1>6. CASE ~PushesContext(p, request)
  <2>1. AppContext(p, request) = [g[p] EXCEPT ![Len(g[p])] = request_id(request)]
    BY <1>6 DEF AppContext
  <2>2. Len(g[p]) > 0 /\ Len(g[p]) \in 1..Len(g[p])
    BY <1>2, <1>6 DEF PushesContext, HasAppContext
  <2>3. /\ AppContext(p, request) \in Seq(NoId \cup Ids)
        /\ Len(AppContext(p, request)) = Len(g[p])
        /\ \A n \in 1..Len(g[p]) : AppContext(p, request)[n] =
             IF n = Len(g[p]) THEN request_id(request) ELSE g[p][n]
    BY <1>2, <1>4, <2>1, <2>2, ExceptSeq
  <2>4. g' \in [Processes -> Seq(NoId \cup Ids)]
    BY <1>1, <2>3
  <2> QED BY <1>2, <1>3, <1>6, <2>2, <2>3, <2>4
<1> QED BY <1>5, <1>6

LEMMA Starts ==
  ASSUME TasksTypeOK, NEW p \in Processes, NEW t \in Tasks, start' = Started(p, t)
  PROVE  /\ start' \in [Workers -> [Tasks -> Unset..MaxClock]]
         /\ p \in Workers => start'[p][t] = clock
         /\ p \in Workers => \A u \in Tasks \ {t} : start'[p][u] = start[p][u]
         /\ \A o \in Workers \ {p} : start'[o] = start[o]
  BY TasksAssumption DEF Started, TasksTypeOK, Unset

(* A task's own request is that of its message or none.                    *)
LEMMA OwnRequests ==
  ASSUME IInv, NEW p \in Processes, NEW t \in Tasks
  PROVE  \/ IsDirect(TaskRequest(p, t))
         \/ /\ Works(p) /\ TaskRequest(p, t).id # None
            /\ TaskRequest(p, t).id = calls[p][1].id
            /\ TaskRequest(p, t).headers = calls[p][1].headers
<1> DEFINE own == {n \in DOMAIN calls[p] : calls[p][n].task = t}
<1>1. TasksTypeOK /\ ProcessOK(p)
  BY DEF IInv
<1>2. DOMAIN calls[p] = 1..Len(calls[p]) /\ Len(calls[p]) \in Nat
  BY <1>1, Typed
<1>3. CASE own = {}
  BY <1>3, Kinds DEF TaskRequest, IsDirect
<1>4. CASE own # {}
  <2>1. Max(own) \in own
    BY <1>2, <1>4, LastPlace
  <2>2. /\ TaskRequest(p, t).id = calls[p][Max(own)].id
        /\ TaskRequest(p, t).headers = calls[p][Max(own)].headers
    BY <1>4 DEF TaskRequest
  <2>3. Max(own) \in 1..Len(calls[p])
    BY <1>2, <2>1
  <2> HIDE DEF own
  <2>4. IsDirect(calls[p][Max(own)]) \/ (Works(p) /\ Max(own) = 1)
    BY <1>1, <2>3 DEF ProcessOK, OthersAreDirect
  <2> QED BY <1>1, <2>2, <2>4 DEF IsDirect, ProcessOK, FirstIsTheMessage
<1> QED BY <1>3, <1>4

LEMMA Left ==
  ASSUME TasksTypeOK, NEW p \in Processes, Leave(p), calls[p] # <<>>
  PROVE  /\ calls' \in [Processes -> Seq(Calls)]
         /\ Len(calls[p]) \in Nat \ {0} /\ Len(calls'[p]) = Len(calls[p]) - 1
         /\ \A n \in 1..Len(calls'[p]) : calls'[p][n] = calls[p][n]
         /\ Cardinality(Pushing(calls[p])) =
              IF calls[p][Len(calls[p])].pushed THEN Cardinality(Pushing(calls'[p])) + 1
              ELSE Cardinality(Pushing(calls'[p]))
         /\ Cardinality(Pushing(calls'[p])) \in Nat
         /\ g' \in [Processes -> Seq(NoId \cup Ids)]
         /\ ~calls[p][Len(calls[p])].pushed => g'[p] = g[p]
         /\ calls[p][Len(calls[p])].pushed /\ Len(g[p]) > 0 =>
              /\ Len(g'[p]) = Len(g[p]) - 1
              /\ \A n \in 1..Len(g'[p]) : g'[p][n] = g[p][n]
         /\ \A o \in Processes \ {p} : calls'[o] = calls[o] /\ g'[o] = g[o]
<1>1. /\ calls' = [calls EXCEPT ![p] = Front(calls[p])]
      /\ g' = [g EXCEPT ![p] = Popped(p)]
      /\ calls \in [Processes -> Seq(Calls)] /\ g \in [Processes -> Seq(NoId \cup Ids)]
  BY DEF Leave, TasksTypeOK, NoId
<1>2. calls[p] \in Seq(Calls) /\ g[p] \in Seq(NoId \cup Ids)
  BY Typed
<1>3. /\ Len(calls[p]) \in Nat \ {0} /\ Front(calls[p]) \in Seq(Calls)
      /\ Len(Front(calls[p])) = Len(calls[p]) - 1
      /\ \A n \in 1..(Len(calls[p]) - 1) : Front(calls[p])[n] = calls[p][n]
      /\ Last(calls[p]) = calls[p][Len(calls[p])]
  BY <1>2, FrontAndLast
<1>4. calls'[p] = Front(calls[p]) /\ g'[p] = Popped(p)
  BY <1>1
<1>5. Popped(p) = IF calls[p][Len(calls[p])].pushed THEN Front(g[p]) ELSE g[p]
  BY <1>3 DEF Popped
<1>6. g[p] # <<>> => /\ Front(g[p]) \in Seq(NoId \cup Ids) /\ Len(Front(g[p])) = Len(g[p]) - 1
                     /\ \A n \in 1..(Len(g[p]) - 1) : Front(g[p])[n] = g[p][n]
  BY <1>2, FrontAndLast
<1>7. Popped(p) \in Seq(NoId \cup Ids)
  <2>1. CASE g[p] = <<>>
    <3>1. Front(g[p]) = <<>>
      BY <2>1 DEF Front
    <3> QED BY <1>2, <1>5, <2>1, <3>1
  <2> QED BY <1>2, <1>5, <1>6, <2>1
<1>8. calls' \in [Processes -> Seq(Calls)] /\ g' \in [Processes -> Seq(NoId \cup Ids)]
  BY <1>1, <1>3, <1>7
<1>9. Cardinality(Pushing(calls[p])) =
        IF calls[p][Len(calls[p])].pushed THEN Cardinality(Pushing(calls'[p])) + 1
        ELSE Cardinality(Pushing(calls'[p]))
  BY <1>2, <1>3, <1>4, PushingLess
<1>10. Cardinality(Pushing(calls'[p])) \in Nat
  BY <1>3, <1>4, PushingIsFinite
<1>11. Len(g[p]) > 0 => g[p] # <<>>
  BY <1>2, NoCalls
<1> QED BY <1>1, <1>3, <1>4, <1>5, <1>6, <1>8, <1>9, <1>10, <1>11

-----------------------------------------------------------------------------
(* Requests and time.                                                      *)

(* A process left without calls, whose contexts hold no id.                *)
LEMMA AtRest ==
  ASSUME NEW p \in Processes, calls'[p] = <<>>, p \in Workers => cause'[p] = None,
         TracesAreCauses(p)', Len(g'[p]) = 0 \/ Len(g'[p]) = 1,
         \A n \in 1..Len(g'[p]) : g'[p][n] \in NoId
  PROVE  ProcessOK(p)'
<1>1. ~Works(p)'
  BY DEF Works
<1>2. Cardinality(Pushing(calls'[p])) = 0 /\ Len(calls'[p]) = 0
  BY NoCalls
<1> QED BY <1>1, <1>2 DEF ProcessOK, OthersAreDirect, FirstIsTheMessage,
      FirstKeepsItsGroup, FirstIsTimed, OneContextAtMostBeneath, NoIdBeneath,
      ContextsHoldTheCause, NoId, Pushing, None, Unset

LEMMA Resting ==
  ASSUME NEW p \in Processes, calls'[p] = <<>>, p \in Workers => cause'[p] = None,
         TracesAreCauses(p)', g'[p] = <<>> \/ g'[p] = <<Unset>>
  PROVE  ProcessOK(p)'
<1>1. Len(g'[p]) = 0 \/ Len(g'[p]) = 1
  BY NoCalls, OneContext
<1>2. \A n \in 1..Len(g'[p]) : g'[p][n] \in NoId
  <2>1. CASE g'[p] = <<>>
    BY <2>1, NoCalls
  <2>2. CASE g'[p] = <<Unset>>
    BY <2>2, OneContext DEF NoId
  <2> QED BY <2>1, <2>2
<1> QED BY <1>1, <1>2, AtRest

LEMMA BeginRequestInvariant ==
  ASSUME IInv, NEW p \in Webs, BeginRequest(p)
  PROVE  IInv'
<1>1. p \in Processes /\ p \notin Workers /\ TasksTypeOK
  BY Kinds DEF Processes, IInv
<1>2. cause[p] = None
  BY <1>1 DEF IInv, ProcessOK, TracesAreCauses, BeginRequest
<1>3. TasksTypeOK'
  <2>1. g' \in [Processes -> Seq(NoId \cup Ids)]
    BY <1>1, OneContext DEF BeginRequest, TasksTypeOK, NoId
  <2>2. next_id' \in 1..(MaxIds + 1)
    BY <1>1, TasksAssumption DEF BeginRequest, TasksTypeOK, Ids
  <2> QED BY <1>1, <2>1, <2>2 DEF BeginRequest, TasksTypeOK, NoId
<1>4. QueueOK'
  BY DEF IInv, QueueOK, GroupsAreRemembered, BeginRequest, request_id
<1>5. ASSUME NEW o \in Processes PROVE ProcessOK(o)'
  <2>1. CASE o = p
    <3>1. TracesAreCauses(p)'
      BY <1>1, <1>2, Kinds DEF BeginRequest, TracesAreCauses, TasksTypeOK
    <3>2. calls'[p] = <<>> /\ g'[p] = <<Unset>>
      BY <1>1 DEF BeginRequest, TasksTypeOK
    <3> QED BY <1>1, <2>1, <3>1, <3>2, Resting
  <2>2. CASE o # p
    BY <1>1, <2>2, Elsewhere DEF BeginRequest, TasksTypeOK
  <2> QED BY <2>1, <2>2
<1> QED BY <1>3, <1>4, <1>5 DEF IInv

LEMMA TraceIdInvariant ==
  ASSUME IInv, NEW p \in Webs, trace_id(p)
  PROVE  IInv'
<1>1. p \in Processes /\ p \notin Workers /\ TasksTypeOK /\ ProcessOK(p)
  BY Kinds DEF Processes, IInv
<1>2. TasksTypeOK'
  BY <1>1, TasksAssumption DEF trace_id, TasksTypeOK, Ids
<1>3. QueueOK'
  BY DEF IInv, QueueOK, GroupsAreRemembered, trace_id, request_id
<1>4. ASSUME NEW o \in Processes PROVE ProcessOK(o)'
  <2>1. CASE o = p
    <3>1. ~Works(p) /\ ~Works(p)'
      BY <1>1 DEF Works
    <3>2. TracesAreCauses(p)'
      BY <1>1, Kinds DEF trace_id, TracesAreCauses, TasksTypeOK, ProcessOK, NotTraced
    <3>3. OthersAreDirect(p)' /\ OneContextAtMostBeneath(p)' /\ NoIdBeneath(p)'
      BY <1>1, <3>1 DEF trace_id, ProcessOK, OthersAreDirect, OneContextAtMostBeneath,
         NoIdBeneath, NoId, IsDirect, Pushing, None, NoHeaders, Unset
    <3> QED BY <2>1, <3>1, <3>2, <3>3 DEF ProcessOK, FirstIsTheMessage,
          FirstKeepsItsGroup, FirstIsTimed, ContextsHoldTheCause
  <2>2. CASE o # p
    BY <1>1, <2>2, Elsewhere DEF trace_id, TasksTypeOK
  <2> QED BY <2>1, <2>2
<1> QED BY <1>2, <1>3, <1>4 DEF IInv

LEMMA EndRequestInvariant ==
  ASSUME IInv, NEW p \in Webs, EndRequest(p)
  PROVE  IInv'
<1>1. p \in Processes /\ p \notin Workers /\ TasksTypeOK
  BY Kinds DEF Processes, IInv
<1>2. TasksTypeOK'
  <2>1. g' \in [Processes -> Seq(NoId \cup Ids)]
    BY <1>1, OneContext DEF EndRequest, TasksTypeOK, NoId
  <2> QED BY <1>1, <2>1 DEF EndRequest, TasksTypeOK, NoId, ids_vars
<1>3. QueueOK'
  BY DEF IInv, QueueOK, GroupsAreRemembered, EndRequest, request_id
<1>4. ASSUME NEW o \in Processes PROVE ProcessOK(o)'
  <2>1. CASE o = p
    <3>1. TracesAreCauses(p)'
      BY <1>1 DEF EndRequest, TracesAreCauses, TasksTypeOK
    <3>2. calls'[p] = <<>> /\ g'[p] = <<>>
      BY <1>1 DEF EndRequest, TasksTypeOK
    <3> QED BY <1>1, <2>1, <3>1, <3>2, Resting
  <2>2. CASE o # p
    <3>1. /\ g'[o] = g[o] /\ calls'[o] = calls[o] /\ trace'[o] = trace[o]
          /\ cause'[o] = cause[o] /\ blurred'[o] = blurred[o] /\ start' = start
          /\ clock' = clock /\ clock \in Nat
      BY <1>1, <2>2, TasksAssumption DEF EndRequest, TasksTypeOK, ids_vars
    <3> QED BY <3>1, Elsewhere
  <2> QED BY <2>1, <2>2
<1> QED BY <1>2, <1>3, <1>4 DEF IInv

LEMMA TickInvariant ==
  ASSUME IInv, Tick
  PROVE  IInv'
<1>1. TasksTypeOK
  BY DEF IInv
<1>2. /\ UNCHANGED <<queue, trace, g, calls, start, enabled, next_id, cause, blurred>>
      /\ clock' = clock + 1 /\ clock' \in 0..MaxClock /\ clock \in Nat /\ clock' \in Nat
  BY <1>1, TasksAssumption DEF Tick, TasksTypeOK, context_vars, history_vars
<1>3. TasksTypeOK'
  BY <1>1, <1>2 DEF TasksTypeOK
<1>4. QueueOK'
  BY <1>2 DEF IInv, QueueOK, GroupsAreRemembered, request_id
<1>5. \A o \in Processes : ProcessOK(o)'
  BY <1>2, Elsewhere
<1> QED BY <1>3, <1>4, <1>5 DEF IInv

LEMMA SendInvariant ==
  ASSUME IInv, NEW p \in Processes, NEW t \in Tasks, NEW group \in Groups \cup {None},
         Send(p, t, group)
  PROVE  IInv'
<1> DEFINE m == SendTask(p, next_id, t, NoHeaders, group)
           asked == IF UsesGroups(p) THEN group ELSE None
           from == IF cause[p] = None THEN next_id ELSE cause[p]
<1>1. TasksTypeOK /\ trace[p] # None /\ next_id \in Ids
  BY DEF IInv, Send
<1>2. /\ RequestId(p, None) \in Ids \cup {None}
      /\ cause[p] = None => RequestId(p, None) = None
      /\ cause[p] # None /\ ~blurred[p] => RequestId(p, None) = cause[p]
  BY <1>1, WhatIsSent
<1>3. /\ m.id = next_id /\ m.headers.request_id = RequestId(p, None)
      /\ m.headers.message_group_id = asked /\ m.MessageGroupId = asked
      /\ m \in Messages /\ asked \in Groups \cup {None}
  BY <1>1, <1>2 DEF SendTask, NoHeaders, GroupHeader, Messages, Headers
<1>4. from \in Ids /\ blurred[p] \in BOOLEAN
  BY <1>1 DEF TasksTypeOK
<1>5. ~blurred[p] => request_id(m) = from
  BY <1>2, <1>3 DEF request_id
<1>6. Enqueue(m, asked, from, blurred[p])
  BY DEF Send
<1> HIDE DEF m, asked, from
<1>7. /\ QueueOK'
      /\ queue' \subseteq [message : Messages, asked : Groups \cup {None}, cause : Ids,
                          blurred : BOOLEAN]
  BY <1>3, <1>4, <1>5, <1>6, MoreIsQueued
<1>8. /\ UNCHANGED <<trace, g, calls, start, enabled, clock, cause, blurred>>
      /\ next_id' = next_id + 1
  BY DEF Send, context_vars, history_vars
<1>9. TasksTypeOK'
  BY <1>1, <1>7, <1>8, TasksAssumption DEF TasksTypeOK, Ids
<1>10. \A o \in Processes : ProcessOK(o)'
  BY <1>1, <1>8, TasksAssumption, Elsewhere DEF TasksTypeOK
<1> QED BY <1>7, <1>9, <1>10 DEF IInv

-----------------------------------------------------------------------------
(* Tasks.                                                                  *)

(* The message's call is the only one, in a context above at most one.     *)
LEMMA BeginTaskInvariant ==
  ASSUME IInv, NEW p \in Workers, BeginTask(p)
  PROVE  IInv'
<1>1. p \in Processes /\ p \notin Webs /\ TasksTypeOK /\ ProcessOK(p) /\ calls[p] = <<>>
  BY Kinds DEF Processes, IInv, BeginTask
<1>2. PICK q \in queue :
        /\ queue' \in {queue, queue \ {q}}
        /\ Call(p, q.message.task, q.message, q.message, q.asked)
        /\ cause' = [cause EXCEPT ![p] = q.cause]
        /\ blurred' = [blurred EXCEPT ![p] = q.blurred]
  BY DEF BeginTask
<1> DEFINE m == q.message
<1>3. /\ m.task \in Tasks /\ m.id \in Ids /\ m.headers \in Headers
      /\ request_id(m) \in Ids \cup {None} /\ m.id # None
      /\ q.asked \in Groups \cup {None} /\ q.cause \in Ids /\ q.blurred \in BOOLEAN
      /\ ~q.blurred => request_id(m) = q.cause
      /\ q.asked # None => m.headers.message_group_id = q.asked
  BY <1>1, Kinds DEF TasksTypeOK, Messages, Headers, request_id, IInv, QueueOK,
     GroupsAreRemembered
<1>4. PushesContext(p, m)
  BY <1>3 DEF PushesContext
<1>5. UNCHANGED <<trace, enabled, next_id, clock>> /\ clock \in Nat
  BY <1>1, TasksAssumption DEF BeginTask, ids_vars, TasksTypeOK
<1> HIDE DEF m
<1>6. Call(p, m.task, m, m, q.asked)
  BY <1>2 DEF m
<1>7. start' = Started(p, m.task)
  BY <1>6 DEF Call
<1>8. /\ calls' \in [Processes -> Seq(Calls)] /\ Len(calls'[p]) = 1
      /\ calls'[p][1] = [task |-> m.task, id |-> m.id, headers |-> m.headers, pushed |-> TRUE,
                        asked |-> q.asked, began |-> clock, again |-> FALSE]
      /\ \A o \in Processes \ {p} : calls'[o] = calls[o]
  <2>1. Len(calls[p]) = 0
    BY <1>1, NoCalls
  <2>2. /\ TasksTypeOK /\ p \in Processes /\ m.task \in Tasks
        /\ request_id(m) \in Ids \cup {None} /\ m.id \in Ids \cup {None}
        /\ m.headers \in Headers /\ q.asked \in Groups \cup {None}
        /\ Call(p, m.task, m, m, q.asked)
    BY <1>1, <1>3, <1>6
  <2>3. /\ calls' \in [Processes -> Seq(Calls)] /\ Len(calls'[p]) = Len(calls[p]) + 1
        /\ calls'[p][Len(calls[p]) + 1] = NewCall(p, m.task, m, m, q.asked)
        /\ \A o \in Processes \ {p} : calls'[o] = calls[o]
    BY <2>2, Called
  <2>4. (m.id = None) = FALSE /\ PushesContext(p, m) = TRUE
    BY <1>3, <1>4 DEF PushesContext
  <2>5. calls'[p][1] = [task |-> m.task, id |-> m.id, headers |-> m.headers, pushed |-> TRUE,
                        asked |-> q.asked, began |-> clock, again |-> FALSE]
    <3>1. Len(calls[p]) + 1 = 1
      BY <2>1
    <3> QED BY <2>3, <2>4, <3>1, Zenon DEF NewCall
  <2> QED BY <2>1, <2>3, <2>5
<1>9. /\ g' \in [Processes -> Seq(NoId \cup Ids)] /\ Len(g'[p]) = Len(g[p]) + 1
      /\ \A n \in 1..Len(g[p]) : g'[p][n] = g[p][n]
      /\ g'[p][Len(g'[p])] = request_id(m)
      /\ \A o \in Processes \ {p} : g'[o] = g[o]
  BY <1>1, <1>3, <1>4, <1>6, Contexts
<1>10. /\ start' \in [Workers -> [Tasks -> Unset..MaxClock]]
       /\ start'[p][m.task] = clock
       /\ \A o \in Workers \ {p} : start'[o] = start[o]
  BY <1>1, <1>3, <1>7, Starts
<1>11. TasksTypeOK'
  BY <1>1, <1>2, <1>3, <1>5, <1>8, <1>9, <1>10 DEF TasksTypeOK, NoId
<1>12. QueueOK'
  BY <1>2 DEF IInv, QueueOK, GroupsAreRemembered, request_id
<1>13. ProcessOK(p)'
  <2>1. /\ cause'[p] = q.cause /\ q.cause # None /\ blurred'[p] = q.blurred
        /\ Works(p)' /\ ~Works(p)
    BY <1>1, <1>2, <1>3, Kinds DEF TasksTypeOK, Works, ProcessOK, FirstIsTheMessage
  <2>2. Len(g[p]) \in {0, 1} /\ \A n \in 1..Len(g[p]) : g[p][n] \in NoId
    <3>1. Cardinality(Pushing(calls[p])) = 0
      BY <1>1, NoCalls
    <3>2. OneContextAtMostBeneath(p)
      BY <1>1 DEF ProcessOK
    <3>3. Len(g[p]) = 0 \/ Len(g[p]) = 1
      BY <3>1, <3>2 DEF OneContextAtMostBeneath
    <3>4. \A n \in 1..Len(g[p]) : g[p][n] \in NoId
      BY <1>1, <2>1 DEF ProcessOK, NoIdBeneath
    <3> QED BY <3>3, <3>4
  <2>3. Cardinality(Pushing(calls'[p])) = 1
    <3>1. /\ calls'[p] \in Seq(Calls) /\ calls[p] \in Seq(Calls)
          /\ Len(calls'[p]) = Len(calls[p]) + 1 /\ calls'[p][Len(calls'[p])].pushed
      BY <1>1, <1>8, NoCalls DEF TasksTypeOK
    <3>2. \A n \in 1..Len(calls[p]) : calls'[p][n].pushed = calls[p][n].pushed
      BY <1>1, NoCalls
    <3>3. Cardinality(Pushing(calls'[p])) = Cardinality(Pushing(calls[p])) + 1
      BY <3>1, <3>2, PushingMore
    <3>4. Cardinality(Pushing(calls[p])) = 0
      BY <1>1, NoCalls
    <3> QED BY <3>3, <3>4
  <2>4. TracesAreCauses(p)' /\ OthersAreDirect(p)'
    BY <1>1, <1>5, <1>8, <2>1 DEF ProcessOK, TracesAreCauses, OthersAreDirect
  <2>5. FirstIsTheMessage(p)' /\ FirstKeepsItsGroup(p)' /\ FirstIsTimed(p)'
    <3>1. calls'[p] # <<>>
      BY <1>8, NoCalls
    <3> QED BY <1>3, <1>5, <1>8, <1>10, <2>1, <3>1
          DEF FirstIsTheMessage, FirstKeepsItsGroup, FirstIsTimed, request_id
  <2>6. OneContextAtMostBeneath(p)' /\ NoIdBeneath(p)'
    BY <1>9, <2>1, <2>2, <2>3 DEF OneContextAtMostBeneath, NoIdBeneath, NoId, Pushing, Unset, None
  <2>7. ContextsHoldTheCause(p)'
    <3>1. Len(g'[p]) \in Nat /\ 1 <= Len(g'[p]) /\ Len(g'[p]) - 1 + 1 = Len(g'[p])
      BY <1>9, <2>2
    <3>2. ~q.blurred => g'[p][Len(g'[p]) - 1 + 1] = cause'[p]
      BY <1>3, <1>9, <2>1, <3>1
    <3> QED BY <1>8, <2>1, <3>1, <3>2 DEF ContextsHoldTheCause
  <2> QED BY <2>4, <2>5, <2>6, <2>7 DEF ProcessOK
<1>14. ASSUME NEW o \in Processes, o # p PROVE ProcessOK(o)'
  <2>1. cause'[o] = cause[o] /\ blurred'[o] = blurred[o]
    BY <1>1, <1>2, <1>14 DEF TasksTypeOK
  <2>2. /\ g'[o] = g[o] /\ calls'[o] = calls[o] /\ trace'[o] = trace[o]
        /\ o \in Workers => start'[o] = start[o]
        /\ clock' \in Nat /\ clock <= clock'
    BY <1>5, <1>8, <1>9, <1>10, <1>14
  <2> QED BY <2>1, <2>2, Elsewhere
<1> QED BY <1>11, <1>12, <1>13, <1>14 DEF IInv

(* In a task's work, a direct call that pushes no context blurs it; one    *)
(* that does, because it is of the task itself, has the cause's id.        *)
LEMMA CallDirectlyInvariant ==
  ASSUME IInv, NEW p \in Processes, NEW t \in Tasks, CallDirectly(p, t)
  PROVE  IInv'
<1> DEFINE request == TaskRequest(p, t)
           pushes == PushesContext(p, request)
           depth == Len(calls[p])
           known == Len(g[p])
<1>1. TasksTypeOK /\ ProcessOK(p)
  BY DEF IInv
<1>2. /\ Call(p, t, request, Direct, None)
      /\ blurred' = [blurred EXCEPT ![p] =
           @ \/ (cause[p] # None /\ trace[p] = Unset /\ ~pushes)]
      /\ UNCHANGED <<queue, trace, enabled, next_id, clock, cause>>
  BY DEF CallDirectly, ids_vars
<1>3. \/ IsDirect(request)
      \/ /\ Works(p) /\ request.id # None
         /\ request.id = calls[p][1].id /\ request.headers = calls[p][1].headers
  BY OwnRequests
<1>4. Works(p) =>
        /\ calls[p] # <<>> /\ 1 \in 1..depth /\ calls[p][1] \in Calls
        /\ Cardinality(Pushing(calls[p])) \in Nat \ {0}
  <2> SUFFICES ASSUME Works(p)
               PROVE  /\ calls[p] # <<>> /\ 1 \in 1..depth /\ calls[p][1] \in Calls
                      /\ Cardinality(Pushing(calls[p])) \in Nat \ {0}
    OBVIOUS
  <2>1. calls[p] # <<>> /\ calls[p][1].pushed
    BY <1>1 DEF ProcessOK, FirstIsTheMessage
  <2>2. depth \in Nat /\ depth > 0 /\ calls[p] \in Seq(Calls)
    BY <1>1, <2>1, Typed
  <2>3. 1 \in Pushing(calls[p])
    BY <2>1, <2>2 DEF Pushing
  <2>4. IsFiniteSet(Pushing(calls[p])) /\ Cardinality(Pushing(calls[p])) \in Nat
    BY <2>2, PushingIsFinite
  <2>5. Cardinality(Pushing(calls[p])) # 0
    BY <2>3, <2>4, FS_EmptySet
  <2>6. calls[p][1] \in Calls
    BY <1>1, <2>2, Typed
  <2> QED BY <2>1, <2>2, <2>4, <2>5, <2>6
<1>5. request_id(request) \in Ids \cup {None}
  <2>1. CASE IsDirect(request)
    BY <2>1 DEF IsDirect, request_id, NoHeaders
  <2>2. CASE ~IsDirect(request)
    BY <1>3, <1>4, <2>2 DEF request_id, Calls, Headers
  <2> QED BY <2>1, <2>2
<1>6. IsDirect(request) => request_id(request) = None
  BY DEF IsDirect, request_id, NoHeaders
<1> HIDE DEF request
<1>7. /\ Direct.id = None /\ Direct.headers = NoHeaders /\ Direct.headers \in Headers
      /\ Direct.id \in Ids \cup {None} /\ None \in Groups \cup {None}
  BY Kinds
<1>8. /\ calls' \in [Processes -> Seq(Calls)] /\ Len(calls'[p]) = depth + 1
      /\ \A n \in 1..depth : calls'[p][n] = OlderCall(calls[p][n], t)
      /\ calls'[p][depth + 1] = NewCall(p, t, request, Direct, None)
      /\ \A o \in Processes \ {p} : calls'[o] = calls[o]
  BY <1>1, <1>2, <1>5, <1>7, Called
<1>9. /\ g' \in [Processes -> Seq(NoId \cup Ids)]
      /\ pushes => /\ Len(g'[p]) = known + 1
                   /\ \A n \in 1..known : g'[p][n] = g[p][n]
      /\ ~pushes => /\ Len(g'[p]) = known /\ known > 0
                    /\ \A n \in 1..(known - 1) : g'[p][n] = g[p][n]
      /\ g'[p][Len(g'[p])] = request_id(request)
      /\ \A o \in Processes \ {p} : g'[o] = g[o]
  BY <1>1, <1>2, <1>5, Contexts
<1>10. /\ start' \in [Workers -> [Tasks -> Unset..MaxClock]]
       /\ p \in Workers => start'[p][t] = clock
       /\ p \in Workers => \A u \in Tasks \ {t} : start'[p][u] = start[p][u]
       /\ \A o \in Workers \ {p} : start'[o] = start[o]
  <2>1. start' = Started(p, t)
    BY <1>2 DEF Call
  <2> QED BY <1>1, <2>1, Starts
<1>11. TasksTypeOK'
  <2>1. blurred' \in [Processes -> BOOLEAN]
    BY <1>1, <1>2 DEF TasksTypeOK, PushesContext
  <2> QED BY <1>1, <1>2, <1>8, <1>9, <1>10, <2>1 DEF TasksTypeOK, NoId
<1>12. QueueOK'
  BY <1>2 DEF IInv, QueueOK, GroupsAreRemembered, request_id
<1>13. depth \in Nat /\ known \in Nat
  BY <1>1, Typed
<1>14. \A n \in 1..depth : /\ calls[p][n] \in Calls
                           /\ calls'[p][n].id = calls[p][n].id
                           /\ calls'[p][n].headers = calls[p][n].headers
                           /\ calls'[p][n].pushed = calls[p][n].pushed
                           /\ calls'[p][n].task = calls[p][n].task
                           /\ calls'[p][n].asked = calls[p][n].asked
                           /\ calls'[p][n].began = calls[p][n].began
                           /\ calls'[p][n].again = (calls[p][n].again \/ calls[p][n].task = t)
  <2>1. \A n \in 1..depth : calls[p][n] \in Calls
    BY <1>1, Typed
  <2> QED BY <1>8, <2>1 DEF OlderCall, Calls
<1>15. /\ IsDirect(calls'[p][depth + 1])
       /\ calls'[p][depth + 1].pushed = pushes
  BY <1>7, <1>8 DEF NewCall, IsDirect
<1>16. Cardinality(Pushing(calls'[p])) =
         IF pushes THEN Cardinality(Pushing(calls[p])) + 1 ELSE Cardinality(Pushing(calls[p]))
  <2>1. calls'[p] \in Seq(Calls) /\ calls[p] \in Seq(Calls)
    BY <1>1, <1>8 DEF TasksTypeOK
  <2>2. calls'[p][Len(calls'[p])].pushed = pushes
    BY <1>8, <1>15
  <2> QED BY <1>8, <1>14, <2>1, <2>2, PushingMore
<1>17. Works(p)' <=> Works(p)
  BY <1>2 DEF Works
<1> HIDE DEF pushes
<1>18. TracesAreCauses(p)' /\ OthersAreDirect(p)'
  <2>1. TracesAreCauses(p)'
    BY <1>1, <1>2 DEF ProcessOK, TracesAreCauses
  <2>2. ASSUME NEW n \in 1..Len(calls'[p])
        PROVE  IsDirect(calls'[p][n]) \/ (Works(p) /\ n = 1)
    <3>1. CASE n \in 1..depth
      BY <1>1, <1>14, <3>1 DEF ProcessOK, OthersAreDirect, IsDirect
    <3>2. CASE n = depth + 1
      BY <1>15, <3>2
    <3> QED BY <1>8, <1>13, <3>1, <3>2
  <2> QED BY <1>17, <2>1, <2>2 DEF OthersAreDirect, IsDirect, NoHeaders, None
<1>19. OneContextAtMostBeneath(p)'
  <2>1. known = Cardinality(Pushing(calls[p])) \/ known = Cardinality(Pushing(calls[p])) + 1
    BY <1>1 DEF ProcessOK, OneContextAtMostBeneath
  <2>2. \/ Len(g'[p]) = Cardinality(Pushing(calls'[p]))
        \/ Len(g'[p]) = Cardinality(Pushing(calls'[p])) + 1
    BY <1>9, <1>16, <2>1
  <2> QED BY <2>2 DEF OneContextAtMostBeneath, Pushing
<1>20. ASSUME ~Works(p) PROVE ProcessOK(p)'
  <2>1. request_id(request) \in NoId
    BY <1>3, <1>6, <1>20 DEF NoId
  <2>2. \A n \in 1..known : g[p][n] \in NoId
    BY <1>1, <1>20 DEF ProcessOK, NoIdBeneath
  <2>3. \A n \in 1..Len(g'[p]) : g'[p][n] \in NoId
    BY <1>9, <1>13, <2>1, <2>2
  <2>4. NoIdBeneath(p)'
    BY <1>17, <1>20, <2>3 DEF NoIdBeneath, NoId, Unset, None
  <2> QED BY <1>17, <1>18, <1>19, <1>20, <2>4 DEF ProcessOK, FirstIsTheMessage,
        FirstKeepsItsGroup, FirstIsTimed, ContextsHoldTheCause
<1>21. ASSUME Works(p) PROVE ProcessOK(p)'
  <2>1. ~blurred'[p] => ~blurred[p] /\ pushes
    BY <1>1, <1>2, <1>21 DEF TasksTypeOK, ProcessOK, TracesAreCauses, Works, pushes
  <2>2. FirstIsTheMessage(p)' /\ FirstKeepsItsGroup(p)'
    <3>1. calls'[p] # <<>>
      BY <1>8, <1>13, NoCalls
    <3> QED BY <1>1, <1>2, <1>4, <1>14, <1>21, <2>1, <3>1 DEF ProcessOK,
          FirstIsTheMessage, FirstKeepsItsGroup, request_id, None
  <2>3. FirstIsTimed(p)'
    <3> DEFINE first == calls[p][1]
    <3>1. /\ first \in Calls /\ first.task \in Tasks /\ first.began \in Int
          /\ clock \in Int /\ start[p][first.task] \in Int /\ p \in Workers
      BY <1>1, <1>4, <1>21, TasksAssumption DEF Calls, TasksTypeOK, Works, Unset
    <3>2. /\ first.began <= clock
          /\ \/ start[p][first.task] = first.began
             \/ start[p][first.task] > first.began /\ first.again
      BY <1>1, <1>21 DEF ProcessOK, FirstIsTimed
    <3>3. /\ calls'[p][1].began = first.began /\ calls'[p][1].task = first.task
          /\ calls'[p][1].again = (first.again \/ first.task = t)
      BY <1>4, <1>14, <1>21
    <3> HIDE DEF first
    <3>4. /\ first.began <= clock
          /\ \/ start'[p][first.task] = first.began
             \/ start'[p][first.task] > first.began /\ (first.again \/ first.task = t)
      <4>1. CASE first.task = t
        <5>1. start'[p][first.task] = clock
          BY <1>10, <3>1, <4>1
        <5> QED BY <3>1, <3>2, <4>1, <5>1
      <4>2. CASE first.task # t
        <5>1. start'[p][first.task] = start[p][first.task]
          BY <1>10, <3>1, <4>2
        <5> QED BY <3>2, <5>1
      <4> QED BY <4>1, <4>2
    <3> QED BY <1>2, <3>3, <3>4 DEF FirstIsTimed
  <2>4. NoIdBeneath(p)'
    <3>1. Len(g'[p]) = Cardinality(Pushing(calls'[p])) + 1 =>
            /\ known = Cardinality(Pushing(calls[p])) + 1
            /\ 1 \in 1..(known - 1)
      BY <1>4, <1>9, <1>13, <1>16, <1>21
    <3>2. Len(g'[p]) = Cardinality(Pushing(calls'[p])) + 1 => g'[p][1] \in NoId
      BY <1>1, <1>9, <1>13, <1>21, <3>1 DEF ProcessOK, NoIdBeneath
    <3> QED BY <1>17, <1>21, <3>2 DEF NoIdBeneath, NoId, Unset, None, Pushing
  <2>5. ContextsHoldTheCause(p)'
    <3> SUFFICES ASSUME ~blurred'[p]
                 PROVE  /\ Len(calls'[p]) <= Len(g'[p])
                        /\ \A n \in 1..Len(calls'[p]) :
                             /\ calls'[p][n].pushed
                             /\ g'[p][Len(g'[p]) - Len(calls'[p]) + n] = cause'[p]
      BY DEF ContextsHoldTheCause
    <3>1. /\ depth <= known
          /\ \A n \in 1..depth : calls[p][n].pushed /\ g[p][known - depth + n] = cause[p]
      BY <1>1, <1>21, <2>1 DEF ProcessOK, ContextsHoldTheCause
    <3>2. Len(g'[p]) = known + 1 /\ \A n \in 1..known : g'[p][n] = g[p][n]
      BY <1>9, <2>1
    <3>3. g'[p][known + 1] = cause[p]
      <4>1. known > 0 /\ g[p] # <<>>
        BY <1>1, <1>4, <1>13, <1>21, <3>1, Typed
      <4>2. request.id # None
        BY <2>1, <4>1 DEF pushes, PushesContext, HasAppContext
      <4>3. request_id(request) = request_id(calls[p][1])
        BY <1>3, <4>2 DEF IsDirect, request_id
      <4>4. request_id(calls[p][1]) = cause[p]
        BY <1>1, <1>21, <2>1 DEF ProcessOK, FirstIsTheMessage
      <4> QED BY <1>9, <3>2, <4>3, <4>4
    <3>4. Len(calls'[p]) = depth + 1 /\ Len(g'[p]) = known + 1
      BY <1>8, <3>2
    <3> HIDE DEF depth, known
    <3>5. ASSUME NEW n \in 1..Len(calls'[p])
          PROVE  /\ calls'[p][n].pushed
                 /\ g'[p][Len(g'[p]) - Len(calls'[p]) + n] = cause[p]
      <4>1. Len(g'[p]) - Len(calls'[p]) + n = known - depth + n
        BY <1>13, <3>4
      <4>2. CASE n \in 1..depth
        <5>1. known - depth + n \in 1..known
          BY <1>13, <3>1, <4>2
        <5> QED BY <1>14, <3>1, <3>2, <4>1, <4>2, <5>1
      <4>3. CASE n = depth + 1
        <5>1. known - depth + n = known + 1
          BY <1>13, <4>3
        <5> QED BY <1>15, <2>1, <3>3, <4>1, <4>3, <5>1
      <4> QED BY <1>13, <3>4, <4>2, <4>3
    <3>6. Len(calls'[p]) <= Len(g'[p])
      BY <1>13, <3>1, <3>4
    <3> QED BY <1>2, <3>5, <3>6
  <2> QED BY <1>18, <1>19, <2>2, <2>3, <2>4, <2>5 DEF ProcessOK
<1>22. ASSUME NEW o \in Processes, o # p PROVE ProcessOK(o)'
  <2>1. /\ g'[o] = g[o] /\ calls'[o] = calls[o] /\ trace'[o] = trace[o]
        /\ cause'[o] = cause[o] /\ blurred'[o] = blurred[o]
        /\ o \in Workers => start'[o] = start[o]
        /\ clock' \in Nat /\ clock <= clock'
    BY <1>1, <1>2, <1>8, <1>9, <1>10, <1>22, TasksAssumption DEF TasksTypeOK
  <2> QED BY <2>1, Elsewhere
<1> QED BY <1>11, <1>12, <1>20, <1>21, <1>22 DEF IInv

(* A direct call returns to the calls, and to the contexts, from before it. *)
LEMMA ReturnDirectlyInvariant ==
  ASSUME IInv, NEW p \in Processes, ReturnDirectly(p)
  PROVE  IInv'
<1> DEFINE depth == Len(calls[p])
           known == Len(g[p])
           pops == calls[p][Len(calls[p])].pushed
<1>1. TasksTypeOK /\ ProcessOK(p) /\ Leave(p) /\ calls[p] # <<>>
  BY DEF IInv, ReturnDirectly
<1>2. UNCHANGED <<queue, trace, start, enabled, next_id, clock, cause, blurred>>
  BY DEF ReturnDirectly, Leave, ids_vars, history_vars
<1>3. /\ calls' \in [Processes -> Seq(Calls)]
      /\ depth \in Nat \ {0} /\ Len(calls'[p]) = depth - 1
      /\ \A n \in 1..Len(calls'[p]) : calls'[p][n] = calls[p][n]
      /\ Cardinality(Pushing(calls[p])) =
           IF pops THEN Cardinality(Pushing(calls'[p])) + 1
           ELSE Cardinality(Pushing(calls'[p]))
      /\ Cardinality(Pushing(calls'[p])) \in Nat
      /\ g' \in [Processes -> Seq(NoId \cup Ids)]
      /\ ~pops => g'[p] = g[p]
      /\ pops /\ known > 0 => /\ Len(g'[p]) = known - 1
                              /\ \A n \in 1..Len(g'[p]) : g'[p][n] = g[p][n]
      /\ \A o \in Processes \ {p} : calls'[o] = calls[o] /\ g'[o] = g[o]
  BY <1>1, Left
<1>4. known \in Nat
  BY <1>1, Typed
<1>5. calls[p][depth].id = None
  <2>1. calls[p] \in Seq(Calls)
    BY <1>1, Typed
  <2>2. Last(calls[p]) = calls[p][depth]
    BY <1>1, <2>1, FrontAndLast
  <2> QED BY <2>2 DEF ReturnDirectly
<1>6. known = Cardinality(Pushing(calls[p])) \/ known = Cardinality(Pushing(calls[p])) + 1
  BY <1>1 DEF ProcessOK, OneContextAtMostBeneath
<1>7. pops => known > 0 /\ Len(g'[p]) = known - 1
  BY <1>3, <1>4, <1>6
<1>8. \A n \in 1..Len(g'[p]) : n \in 1..known /\ g'[p][n] = g[p][n]
  BY <1>3, <1>4, <1>7
<1>9. TasksTypeOK'
  BY <1>1, <1>2, <1>3 DEF TasksTypeOK, NoId
<1>10. QueueOK'
  BY <1>2 DEF IInv, QueueOK, GroupsAreRemembered, request_id
<1>11. Works(p)' <=> Works(p)
  BY <1>2 DEF Works
<1>12. Works(p) => /\ depth - 1 >= 1 /\ 1 \in 1..(depth - 1)
                   /\ calls'[p] # <<>> /\ calls'[p][1] = calls[p][1]
  <2> SUFFICES ASSUME Works(p)
               PROVE  /\ depth - 1 >= 1 /\ 1 \in 1..(depth - 1)
                      /\ calls'[p] # <<>> /\ calls'[p][1] = calls[p][1]
    OBVIOUS
  <2>1. calls[p][1].id # None
    BY <1>1 DEF ProcessOK, FirstIsTheMessage
  <2>2. depth # 1
    BY <1>5, <2>1
  <2>3. depth - 1 >= 1 /\ 1 \in 1..(depth - 1)
    <3>1. depth \in Nat \ {0}
      BY <1>3
    <3> HIDE DEF depth
    <3> QED BY <2>2, <3>1
  <2> QED BY <1>3, <2>3, NoCalls
<1>13. \A n \in 1..Len(calls'[p]) : n \in 1..depth /\ calls'[p][n] = calls[p][n]
  BY <1>3
<1> HIDE DEF pops
<1>14. TracesAreCauses(p)' /\ OthersAreDirect(p)'
  <2>1. TracesAreCauses(p)'
    BY <1>1, <1>2 DEF ProcessOK, TracesAreCauses
  <2>2. \A n \in 1..Len(calls'[p]) : IsDirect(calls'[p][n]) \/ (Works(p) /\ n = 1)
    BY <1>1, <1>13 DEF ProcessOK, OthersAreDirect
  <2> QED BY <1>11, <2>1, <2>2 DEF OthersAreDirect, IsDirect, NoHeaders, None
<1>15. FirstIsTheMessage(p)' /\ FirstKeepsItsGroup(p)' /\ FirstIsTimed(p)'
  BY <1>1, <1>2, <1>11, <1>12 DEF ProcessOK, FirstIsTheMessage, FirstKeepsItsGroup,
     FirstIsTimed, request_id, None
<1>16. OneContextAtMostBeneath(p)'
  <2>1. \/ Len(g'[p]) = Cardinality(Pushing(calls'[p]))
        \/ Len(g'[p]) = Cardinality(Pushing(calls'[p])) + 1
    BY <1>3, <1>4, <1>6, <1>7
  <2> QED BY <2>1 DEF OneContextAtMostBeneath, Pushing
<1>17. NoIdBeneath(p)'
  <2>1. ~Works(p) => \A n \in 1..Len(g'[p]) : g'[p][n] \in NoId
    BY <1>1, <1>8 DEF ProcessOK, NoIdBeneath
  <2>2. Len(g'[p]) = Cardinality(Pushing(calls'[p])) + 1 =>
          known = Cardinality(Pushing(calls[p])) + 1 /\ 1 \in 1..Len(g'[p])
    BY <1>3, <1>4, <1>6, <1>7
  <2>3. Works(p) /\ Len(g'[p]) = Cardinality(Pushing(calls'[p])) + 1 => g'[p][1] \in NoId
    BY <1>1, <1>8, <2>2 DEF ProcessOK, NoIdBeneath
  <2> QED BY <1>11, <2>1, <2>3 DEF NoIdBeneath, NoId, Unset, None, Pushing
<1>18. ContextsHoldTheCause(p)'
  <2> SUFFICES ASSUME Works(p), ~blurred[p]
               PROVE  /\ Len(calls'[p]) <= Len(g'[p])
                      /\ \A n \in 1..Len(calls'[p]) :
                           /\ calls'[p][n].pushed
                           /\ g'[p][Len(g'[p]) - Len(calls'[p]) + n] = cause[p]
    BY <1>2, <1>11 DEF ContextsHoldTheCause
  <2>1. /\ depth <= known
        /\ \A n \in 1..depth : calls[p][n].pushed /\ g[p][known - depth + n] = cause[p]
    BY <1>1 DEF ProcessOK, ContextsHoldTheCause
  <2>2. pops
    <3>1. depth \in 1..depth
      BY <1>3
    <3>2. calls[p][depth].pushed
      BY <2>1, <3>1, Zenon
    <3> QED BY <3>2 DEF pops
  <2>3. Len(g'[p]) = known - 1 /\ Len(calls'[p]) = depth - 1
    BY <1>3, <1>7, <2>2
  <2>4. depth \in Nat \ {0}
    BY <1>3
  <2> HIDE DEF depth, known
  <2>5. ASSUME NEW n \in 1..Len(calls'[p])
        PROVE  /\ calls'[p][n].pushed
               /\ g'[p][Len(g'[p]) - Len(calls'[p]) + n] = cause[p]
    <3>1. Len(g'[p]) - Len(calls'[p]) + n = known - depth + n
      BY <1>4, <2>3, <2>4
    <3>2. known - depth + n \in 1..Len(g'[p])
      BY <1>4, <2>1, <2>3, <2>4
    <3>3. g'[p][known - depth + n] = g[p][known - depth + n]
      BY <1>8, <3>2, Zenon
    <3>4. /\ n \in 1..depth /\ calls'[p][n] = calls[p][n]
          /\ calls[p][n].pushed /\ g[p][known - depth + n] = cause[p]
      BY <1>13, <2>1, Zenon
    <3> QED BY <3>1, <3>3, <3>4
  <2>6. Len(calls'[p]) <= Len(g'[p])
    BY <1>4, <2>1, <2>3, <2>4
  <2> QED BY <2>5, <2>6
<1>19. ProcessOK(p)'
  BY <1>14, <1>15, <1>16, <1>17, <1>18 DEF ProcessOK
<1>20. ASSUME NEW o \in Processes, o # p PROVE ProcessOK(o)'
  <2>1. /\ g'[o] = g[o] /\ calls'[o] = calls[o] /\ trace'[o] = trace[o]
        /\ cause'[o] = cause[o] /\ blurred'[o] = blurred[o]
        /\ o \in Workers => start'[o] = start[o]
        /\ clock' \in Nat /\ clock <= clock'
    BY <1>1, <1>2, <1>3, <1>20, TasksAssumption DEF TasksTypeOK
  <2> QED BY <2>1, Elsewhere
<1> QED BY <1>9, <1>10, <1>19, <1>20 DEF IInv

(* What is in a task is the message's call, alone.                         *)
LEMMA InTaskIsAlone ==
  ASSUME IInv, NEW p \in Processes, InTask(p)
  PROVE  /\ Works(p) /\ Len(calls[p]) = 1 /\ Last(calls[p]) = calls[p][1]
         /\ calls[p][1] \in Calls
<1>1. TasksTypeOK /\ ProcessOK(p)
  BY DEF IInv
<1>2. /\ Len(calls[p]) \in Nat \ {0} /\ Last(calls[p]) = calls[p][Len(calls[p])]
      /\ Last(calls[p]) \in Calls
  <2>1. calls[p] \in Seq(Calls) /\ calls[p] # <<>>
    BY <1>1, Typed DEF InTask
  <2> QED BY <2>1, FrontAndLast
<1>3. Len(calls[p]) \in 1..Len(calls[p]) /\ ~IsDirect(calls[p][Len(calls[p])])
  BY <1>2 DEF InTask, IsDirect
<1>4. Works(p) /\ Len(calls[p]) = 1
  BY <1>1, <1>3 DEF ProcessOK, OthersAreDirect
<1> QED BY <1>2, <1>4

(* Its end leaves the process with at most the context it found there.     *)
LEMMA TaskDone ==
  ASSUME IInv, NEW p \in Workers, InTask(p), Leave(p), Idle(p)
  PROVE  /\ \A o \in Processes : ProcessOK(o)'
         /\ (queue' \subseteq [message : Messages, asked : Groups \cup {None}, cause : Ids,
                              blurred : BOOLEAN]) => TasksTypeOK'
<1>1. p \in Processes /\ p \notin Webs /\ TasksTypeOK /\ ProcessOK(p) /\ calls[p] # <<>>
  BY Kinds DEF Processes, IInv, InTask
<1>2. UNCHANGED <<trace, start, enabled, next_id, clock>>
  BY DEF Leave, ids_vars
<1>3. /\ cause' = [cause EXCEPT ![p] = None]
      /\ blurred' = [blurred EXCEPT ![p] = FALSE]
  BY DEF Idle
<1>4. Works(p) /\ Len(calls[p]) = 1
  BY <1>1, InTaskIsAlone
<1>5. calls[p][Len(calls[p])].pushed
  BY <1>1, <1>4 DEF ProcessOK, FirstIsTheMessage
<1>6. /\ calls' \in [Processes -> Seq(Calls)] /\ Len(calls'[p]) = Len(calls[p]) - 1
      /\ Cardinality(Pushing(calls[p])) = Cardinality(Pushing(calls'[p])) + 1
      /\ g' \in [Processes -> Seq(NoId \cup Ids)]
      /\ Len(g[p]) > 0 => /\ Len(g'[p]) = Len(g[p]) - 1
                          /\ \A n \in 1..Len(g'[p]) : g'[p][n] = g[p][n]
      /\ \A o \in Processes \ {p} : calls'[o] = calls[o] /\ g'[o] = g[o]
  BY <1>1, <1>5, Left
<1>7. calls'[p] = <<>>
  <2>1. Len(calls'[p]) = 0
    BY <1>4, <1>6
  <2>2. calls'[p] \in Seq(Calls)
    BY <1>1, <1>6
  <2> QED BY <2>1, <2>2, EmptySeq
<1>8. Cardinality(Pushing(calls[p])) = 1
  BY <1>6, <1>7, NoCalls
<1>9. Len(g[p]) = 1 \/ Len(g[p]) = 2
  BY <1>1, <1>8 DEF ProcessOK, OneContextAtMostBeneath
<1>10. Len(g'[p]) = 0 \/ (Len(g'[p]) = 1 /\ g'[p][1] = g[p][1] /\ Len(g[p]) = 2)
  <2>1. /\ Len(g'[p]) = Len(g[p]) - 1
        /\ \A n \in 1..Len(g'[p]) : g'[p][n] = g[p][n]
    <3>1. Len(g[p]) > 0
      BY <1>9
    <3> QED BY <1>6, <3>1, Zenon
  <2>2. CASE Len(g[p]) = 1
    BY <2>1, <2>2
  <2>3. CASE Len(g[p]) = 2
    <3>1. Len(g'[p]) = 1 /\ 1 \in 1..1
      BY <2>1, <2>3
    <3> QED BY <2>1, <2>3, <3>1
  <2> QED BY <1>9, <2>2, <2>3
<1>11. Len(g'[p]) = 1 => g'[p][1] \in NoId
  BY <1>1, <1>4, <1>8, <1>10 DEF ProcessOK, NoIdBeneath
<1>12. TracesAreCauses(p)' /\ cause'[p] = None
  BY <1>1, <1>2, <1>3 DEF ProcessOK, TracesAreCauses, TasksTypeOK
<1>13. ProcessOK(p)'
  <2>1. Len(g'[p]) = 0 \/ Len(g'[p]) = 1
    BY <1>10
  <2>2. \A n \in 1..Len(g'[p]) : g'[p][n] \in NoId
    BY <1>11, <2>1
  <2> QED BY <1>1, <1>7, <1>12, <2>1, <2>2, AtRest
<1>14. ASSUME NEW o \in Processes, o # p PROVE ProcessOK(o)'
  <2>1. /\ g'[o] = g[o] /\ calls'[o] = calls[o] /\ trace'[o] = trace[o]
        /\ cause'[o] = cause[o] /\ blurred'[o] = blurred[o]
        /\ o \in Workers => start'[o] = start[o]
        /\ clock' \in Nat /\ clock <= clock'
    BY <1>1, <1>2, <1>3, <1>6, <1>14, TasksAssumption DEF TasksTypeOK
  <2> QED BY <2>1, Elsewhere
<1>15. (queue' \subseteq [message : Messages, asked : Groups \cup {None}, cause : Ids,
                         blurred : BOOLEAN]) => TasksTypeOK'
  BY <1>1, <1>2, <1>3, <1>6 DEF TasksTypeOK, NoId
<1> QED BY <1>13, <1>14, <1>15

LEMMA EndInvariant ==
  ASSUME IInv, NEW p \in Workers, End(p)
  PROVE  IInv'
<1>1. TasksTypeOK /\ queue' = queue
  BY DEF End, IInv
<1>2. (\A o \in Processes : ProcessOK(o)') /\ TasksTypeOK'
  <2>1. InTask(p) /\ Leave(p) /\ Idle(p)
    BY DEF End
  <2>2. queue' \subseteq [message : Messages, asked : Groups \cup {None}, cause : Ids,
                         blurred : BOOLEAN]
    BY <1>1 DEF TasksTypeOK
  <2> QED BY <2>1, <2>2, TaskDone
<1>3. QueueOK'
  BY <1>1 DEF IInv, QueueOK, GroupsAreRemembered, request_id
<1> QED BY <1>2, <1>3 DEF IInv

(* The message that is sent again has the headers of the first and, as     *)
(* long as nothing blurred it, the cause's id.                             *)
LEMMA RetryInvariant ==
  ASSUME IInv, NEW p \in Workers, Retry(p)
  PROVE  IInv'
<1> DEFINE call == Last(calls[p])
           m == SendTask(p, call.id, call.task, call.headers, call.headers.message_group_id)
<1>1. /\ TasksTypeOK /\ ProcessOK(p) /\ p \in Processes
      /\ InTask(p) /\ Leave(p) /\ Idle(p) /\ call.id # None
      /\ Enqueue(m, call.asked, cause[p], blurred[p])
  BY DEF IInv, Processes, Retry, InTask
<1>2. Works(p) /\ call = calls[p][1] /\ call \in Calls
  BY <1>1, InTaskIsAlone
<1>3. /\ call.id \in Ids /\ call.task \in Tasks /\ call.headers \in Headers
      /\ call.headers.request_id \in Ids \cup {None}
      /\ call.headers.message_group_id \in Groups \cup {None}
      /\ call.asked \in Groups \cup {None}
      /\ cause[p] \in Ids /\ blurred[p] \in BOOLEAN
  BY <1>1, <1>2 DEF Calls, Headers, TasksTypeOK, Works
<1>4. trace[p] # None
  BY <1>1 DEF ProcessOK, TracesAreCauses, Unset, None
<1>5. call.asked # None => call.headers.message_group_id = call.asked
  BY <1>1, <1>2 DEF ProcessOK, FirstKeepsItsGroup
<1> HIDE DEF call
<1>6. /\ RequestId(p, call.headers.request_id) \in Ids \cup {None}
      /\ ~blurred[p] => RequestId(p, call.headers.request_id) = cause[p]
  BY <1>1, <1>2, <1>3, <1>4, WhatIsSent DEF Works
<1>7. /\ m.headers.request_id = RequestId(p, call.headers.request_id)
      /\ m.headers.message_group_id = call.headers.message_group_id
      /\ m.MessageGroupId \in {None, call.headers.message_group_id}
      /\ m \in Messages
  BY <1>3, <1>6 DEF SendTask, GroupHeader, Messages, Headers
<1>8. ~blurred[p] => request_id(m) = cause[p]
  BY <1>3, <1>6, <1>7, Kinds DEF request_id
<1> HIDE DEF m
<1>9. /\ QueueOK'
      /\ queue' \subseteq [message : Messages, asked : Groups \cup {None}, cause : Ids,
                          blurred : BOOLEAN]
  <2>1. /\ call.asked # None => m.headers.message_group_id = call.asked
        /\ m.MessageGroupId \in {None, m.headers.message_group_id}
    BY <1>5, <1>7
  <2> QED BY <1>1, <1>3, <1>7, <1>8, <2>1, MoreIsQueued
<1>10. (\A o \in Processes : ProcessOK(o)') /\ TasksTypeOK'
  BY <1>1, <1>9, TaskDone
<1> QED BY <1>9, <1>10 DEF IInv

-----------------------------------------------------------------------------
(* The theorems.                                                           *)

LEMMA NextInvariant == IInv /\ [TasksNext]_tasks_vars => IInv'
<1> SUFFICES ASSUME IInv, [TasksNext]_tasks_vars PROVE IInv'
  OBVIOUS
<1>1. CASE Tick
  BY <1>1, TickInvariant
<1>2. ASSUME NEW p \in Webs, BeginRequest(p) \/ trace_id(p) \/ EndRequest(p) PROVE IInv'
  BY <1>2, BeginRequestInvariant, TraceIdInvariant, EndRequestInvariant
<1>3. ASSUME NEW p \in Workers, BeginTask(p) \/ End(p) \/ Retry(p) PROVE IInv'
  BY <1>3, BeginTaskInvariant, EndInvariant, RetryInvariant
<1>4. ASSUME NEW p \in Processes, NEW t \in Tasks, NEW group \in Groups \cup {None},
             Send(p, t, group)
      PROVE  IInv'
  BY <1>4, SendInvariant
<1>5. ASSUME NEW p \in Processes, NEW t \in Tasks, CallDirectly(p, t) PROVE IInv'
  BY <1>5, CallDirectlyInvariant
<1>6. ASSUME NEW p \in Processes, ReturnDirectly(p) PROVE IInv'
  BY <1>6, ReturnDirectlyInvariant
<1>7. CASE UNCHANGED tasks_vars
  <2>1. /\ UNCHANGED <<queue, trace, g, calls, start, enabled, next_id, clock, cause, blurred>>
        /\ TasksTypeOK
    BY <1>7 DEF tasks_vars, IInv
  <2>2. TasksTypeOK'
    BY <2>1 DEF TasksTypeOK
  <2>3. QueueOK'
    BY <2>1 DEF IInv, QueueOK, GroupsAreRemembered, request_id
  <2>4. clock \in Nat
    BY <2>1, TasksAssumption DEF TasksTypeOK
  <2>5. \A o \in Processes : ProcessOK(o)'
    BY <2>1, <2>4, Elsewhere
  <2> QED BY <2>2, <2>3, <2>5 DEF IInv
<1> QED BY <1>1, <1>2, <1>3, <1>4, <1>5, <1>6, <1>7 DEF TasksNext

(* What the queue, the contexts, the calls and the times of the tasks hold *)
(* is of its type, in any state that requests and workers reach.           *)
THEOREM TypeCorrectness == TasksSpec => []TasksTypeOK
<1>1. IInv => TasksTypeOK
  BY DEF IInv
<1> QED BY <1>1, InitInvariant, NextInvariant, PTL DEF TasksSpec

(* Whatever a request or a first message leads to is logged and sent on    *)
(* under its id, unless one task called another directly on the way.       *)
THEOREM CausesAreAlwaysFollowed == TasksSpec => []CausesAreFollowed
<1>1. IInv => CausesAreFollowed
  <2> SUFFICES ASSUME IInv, NEW p \in Processes, InTask(p), ~blurred[p]
               PROVE  LoggedId(p) = cause[p]
    BY DEF CausesAreFollowed, IInv, QueueOK
  <2>1. Works(p) /\ Last(calls[p]) = calls[p][1]
    BY InTaskIsAlone
  <2> QED BY <2>1 DEF IInv, ProcessOK, FirstIsTheMessage, LoggedId
<1> QED BY <1>1, InitInvariant, NextInvariant, PTL DEF TasksSpec

(* A message keeps, over its retries, the group it was first sent with.    *)
THEOREM GroupsAreAlwaysRemembered == TasksSpec => []GroupsAreRemembered
<1>1. IInv => GroupsAreRemembered
  BY DEF IInv, QueueOK
<1> QED BY <1>1, InitInvariant, NextInvariant, PTL DEF TasksSpec

(* The duration reported at a task's end is that of its run, or less where *)
(* the task called itself directly.                                        *)
THEOREM DurationsAreAlwaysOfTheRun == TasksSpec => []DurationsAreOfTheRun
<1>1. IInv => DurationsAreOfTheRun
  <2> SUFFICES ASSUME IInv, NEW p \in Workers, InTask(p)
               PROVE  LET ran == clock - Last(calls[p]).began
                      IN \/ elapsed_time(p) = ran
                         \/ elapsed_time(p) < ran /\ Last(calls[p]).again
    BY DEF DurationsAreOfTheRun
  <2>1. p \in Processes /\ TasksTypeOK
    BY DEF Processes, IInv
  <2>2. Works(p) /\ Last(calls[p]) = calls[p][1] /\ calls[p][1] \in Calls
    BY <2>1, InTaskIsAlone
  <2>3. FirstIsTimed(p)
    BY <2>1 DEF IInv, ProcessOK
  <2>4. /\ calls[p][1].began \in Int /\ clock \in Int
        /\ start[p][calls[p][1].task] \in Int
    BY <2>1, <2>2, TasksAssumption DEF Calls, TasksTypeOK, Unset
  <2> QED BY <2>2, <2>3, <2>4 DEF FirstIsTimed, elapsed_time
<1> QED BY <1>1, InitInvariant, NextInvariant, PTL DEF TasksSpec
=============================================================================
