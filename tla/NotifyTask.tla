------------------------------- MODULE NotifyTask -------------------------------
(***************************************************************************)
(* celery.py, request_helper.py and the filter of logging/flask.py: how    *)
(* the id of a request follows the tasks it causes, through the queue,     *)
(* retries and tasks that call tasks, and what is reported of their runs.  *)
(*                                                                         *)
(* A process has a stack of app contexts, each with the request_id of its  *)
(* g, and of calls of tasks.  Ids of traces and of messages are drawn from *)
(* one counter; what flask and celery do themselves is taken from how the  *)
(* code uses them.                                                         *)
(***************************************************************************)
EXTENDS Integers, SequencesExt

CONSTANTS Webs, Workers, Tasks, Groups,
          MaxIds, MaxClock, MaxCalls,  \* bounds: ids, time, nested calls
          MaxQueued                    \* bound: messages in the queue at once

Unset == -1  \* there is no such attribute, header or context
None == 0    \* any value that is false

ASSUME TasksAssumption ==
  /\ Webs \cap Workers = {}
  /\ MaxIds \in Nat /\ MaxClock \in Nat /\ MaxQueued \in Nat
  /\ MaxCalls \in [Webs \cup Workers -> Nat]

VARIABLES
  queue,    \* of messages
  trace,    \* _trace_id of the request that each process handles
  g,        \* request_id in g, for the app contexts of each process
  calls,    \* of tasks under way in each process, the innermost last
  start,    \* NotifyTask.start, of each worker's tasks: nothing reads it elsewhere
  enabled,  \* ENABLE_SQS_MESSAGE_GROUP_IDS, of each process' app
  next_id, clock,
  \* History:
  cause,    \* the id of the request or first message behind what a process does
  blurred   \* has a task, not a request, called a task directly there?

tasks_vars == <<queue, trace, g, calls, start, enabled, next_id, clock, cause,
                blurred>>
context_vars == <<trace, g, calls, start>>
ids_vars == <<next_id, clock, enabled>>
history_vars == <<cause, blurred>>

Processes == Webs \cup Workers
Ids == 1..MaxIds
NoHeaders == [request_id |-> None, message_group_id |-> None]

TasksInit ==
  /\ queue = {}
  /\ trace = [p \in Processes |-> Unset]
  /\ g \in [Processes -> {<<>>, <<Unset>>}]
  /\ \A p \in Webs : g[p] = <<>>
  /\ calls = [p \in Processes |-> <<>>]
  /\ start = [p \in Workers |-> [t \in Tasks |-> Unset]]
  /\ enabled \in [Processes -> BOOLEAN]
  /\ next_id = 1 /\ clock = 0
  /\ cause = [p \in Processes |-> None]
  /\ blurred = [p \in Processes |-> FALSE]

-----------------------------------------------------------------------------
(* Requests.                                                               *)

(* A trace id comes with the request, in the first of the headers that is  *)
(* not empty, or is made up when it is first asked for.                    *)
BeginRequest(p) ==
  /\ trace[p] = Unset /\ calls[p] = <<>>
  /\ \/ /\ next_id \in Ids
        /\ trace' = [trace EXCEPT ![p] = next_id]
        /\ cause' = [cause EXCEPT ![p] = next_id]
        /\ next_id' = next_id + 1
     \/ /\ trace' = [trace EXCEPT ![p] = None]
        /\ UNCHANGED <<cause, next_id>>
  /\ g' = [g EXCEPT ![p] = <<Unset>>]
  /\ UNCHANGED <<queue, calls, start, enabled, clock, blurred>>

NotTraced(p) == trace[p] = None

trace_id(p) ==
  /\ NotTraced(p)
  /\ next_id \in Ids
  /\ trace' = [trace EXCEPT ![p] = next_id]
  /\ next_id' = next_id + 1
  /\ cause' = [cause EXCEPT ![p] = IF @ = None THEN next_id ELSE @]
  /\ UNCHANGED <<queue, g, calls, start, enabled, clock, blurred>>

EndRequest(p) ==
  /\ trace[p] # Unset /\ calls[p] = <<>>
  /\ trace' = [trace EXCEPT ![p] = Unset]
  /\ g' = [g EXCEPT ![p] = <<>>]
  /\ cause' = [cause EXCEPT ![p] = None]
  /\ blurred' = [blurred EXCEPT ![p] = FALSE]
  /\ UNCHANGED <<queue, calls, start, ids_vars>>

-----------------------------------------------------------------------------
(* Sending.                                                                *)

HasAppContext(p) == g[p] # <<>>

(* Mutant of RequestId: g before the request.                              *)
RequestIdOfG(p, default) ==
  IF HasAppContext(p) /\ Last(g[p]) # Unset THEN Last(g[p])
  ELSE IF trace[p] # Unset THEN trace[p]
  ELSE default

(* Of the request, or of g: send_task and RequestIdFilter.                 *)
RequestId(p, default) ==
  IF trace[p] # Unset THEN trace[p]
  ELSE IF HasAppContext(p) /\ Last(g[p]) # Unset THEN Last(g[p])
  ELSE default

UsesGroups(p) == HasAppContext(p) /\ enabled[p]

(* Mutant of GroupHeader: the header goes with the argument.               *)
GroupHeaderDropped(p, headers, group) == IF UsesGroups(p) THEN group ELSE None

GroupHeader(p, headers, group) ==
  IF UsesGroups(p) THEN group ELSE headers.message_group_id

SendTask(p, id, t, headers, group) ==
  [id |-> id, task |-> t,
   headers |-> [request_id |-> RequestId(p, headers.request_id),
                message_group_id |-> GroupHeader(p, headers, group)],
   MessageGroupId |-> IF UsesGroups(p) THEN group ELSE None]

(* What a message is sent with, and what it is remembered for.             *)
Enqueue(m, asked, from, vague) ==
  queue' = queue \cup {[message |-> m, asked |-> asked, cause |-> from,
                        blurred |-> vague]}

Send(p, t, group) ==
  /\ trace[p] # None
  /\ next_id \in Ids /\ Cardinality(queue) < MaxQueued
  /\ LET m == SendTask(p, next_id, t, NoHeaders, group)
     IN Enqueue(m, IF UsesGroups(p) THEN group ELSE None,
                IF cause[p] = None THEN next_id ELSE cause[p], blurred[p])
  /\ next_id' = next_id + 1
  /\ UNCHANGED <<context_vars, enabled, clock, history_vars>>

-----------------------------------------------------------------------------
(* Running.                                                                *)

(* The task context of t: that of its innermost call.  A direct call has   *)
(* one of its own without an id.                                           *)
Direct == [id |-> None, headers |-> NoHeaders]

TaskRequest(p, t) ==
  LET own == {n \in DOMAIN calls[p] : calls[p][n].task = t}
      last == calls[p][Max(own)]
  IN IF own = {} THEN Direct ELSE [id |-> last.id, headers |-> last.headers]

request_id(request) ==
  IF request.headers.request_id # None THEN request.headers.request_id
  ELSE request.id

PushesContext(p, request) == request.id # None \/ ~HasAppContext(p)

(* app_context: what g holds in it.                                        *)
AppContext(p, request) ==
  IF PushesContext(p, request) THEN Append(g[p], request_id(request))
  ELSE [g[p] EXCEPT ![Len(g[p])] = request_id(request)]

(* Mutant of Started: only the first time.                                 *)
StartedOnce(p, t) ==
  IF p \in Workers /\ start[p][t] = Unset THEN [start EXCEPT ![p][t] = clock] ELSE start

Started(p, t) == IF p \in Workers THEN [start EXCEPT ![p][t] = clock] ELSE start

(* NotifyTask.__call__ with the task context of request; the body then runs *)
(* with one of its own.                                                    *)
Call(p, t, request, own, asked) ==
  LET older == [n \in DOMAIN calls[p] |->
                  [calls[p][n] EXCEPT !.again = calls[p][n].again \/ calls[p][n].task = t]]
      new == [task |-> t, id |-> own.id, headers |-> own.headers,
              pushed |-> PushesContext(p, request), asked |-> asked,
              began |-> IF own.id = None THEN 0 ELSE clock, again |-> own.id = None]
  IN /\ g' = [g EXCEPT ![p] = AppContext(p, request)]
     /\ start' = Started(p, t)
     /\ calls' = [calls EXCEPT ![p] = Append(older, new)]

(* A worker takes a message, which may be delivered again.                 *)
BeginTask(p) ==
  /\ calls[p] = <<>>
  /\ \E q \in queue :
       /\ queue' \in {queue, queue \ {q}}
       /\ Call(p, q.message.task, q.message, q.message, q.asked)
       /\ cause' = [cause EXCEPT ![p] = q.cause]
       /\ blurred' = [blurred EXCEPT ![p] = q.blurred]
  /\ UNCHANGED <<trace, ids_vars>>

(* A request, a task or a script calls a task as a function.               *)
CallDirectly(p, t) ==
  /\ Len(calls[p]) < MaxCalls[p]
  /\ Call(p, t, TaskRequest(p, t), Direct, None)
  /\ blurred' = [blurred EXCEPT ![p] =
       \/ @
       \/ /\ cause[p] # None /\ trace[p] = Unset
          /\ ~PushesContext(p, TaskRequest(p, t))]
  /\ UNCHANGED <<queue, trace, ids_vars, cause>>

Popped(p) == IF Last(calls[p]).pushed THEN Front(g[p]) ELSE g[p]

Leave(p) ==
  /\ g' = [g EXCEPT ![p] = Popped(p)]
  /\ calls' = [calls EXCEPT ![p] = Front(@)]
  /\ UNCHANGED <<trace, start, ids_vars>>

(* What on_success, on_failure and on_retry report of the innermost call,  *)
(* in an app context of its own.                                           *)
elapsed_time(p) == clock - start[p][Last(calls[p]).task]
LoggedId(p) == request_id(Last(calls[p]))

Idle(p) ==
  /\ cause' = [cause EXCEPT ![p] = None]
  /\ blurred' = [blurred EXCEPT ![p] = FALSE]

InTask(p) == calls[p] # <<>> /\ Last(calls[p]).id # None

ReturnDirectly(p) ==
  /\ calls[p] # <<>> /\ Last(calls[p]).id = None
  /\ Leave(p)
  /\ UNCHANGED <<queue, history_vars>>

(* Success or failure.                                                     *)
End(p) ==
  /\ InTask(p)
  /\ Leave(p)
  /\ Idle(p)
  /\ UNCHANGED queue

(* With the id and the headers of the message, and its message_group_id.   *)
Retry(p) ==
  /\ InTask(p)
  /\ Cardinality(queue) < MaxQueued
  /\ LET call == Last(calls[p])
     IN Enqueue(SendTask(p, call.id, call.task, call.headers,
                         call.headers.message_group_id),
                call.asked, cause[p], blurred[p])
  /\ Leave(p)
  /\ Idle(p)

(* A bound: time passes in tasks, while no request is handled.             *)
Tick ==
  /\ clock < MaxClock
  /\ \E p \in Workers : calls[p] # <<>>
  /\ \A p \in Webs : trace[p] = Unset
  /\ clock' = clock + 1
  /\ UNCHANGED <<queue, context_vars, enabled, next_id, history_vars>>

TasksNext ==
  \/ Tick
  \/ \E p \in Webs : BeginRequest(p) \/ trace_id(p) \/ EndRequest(p)
  \/ \E p \in Workers : BeginTask(p) \/ End(p) \/ Retry(p)
  \/ \E p \in Processes :
       \/ \E t \in Tasks :
            \/ \E group \in Groups \cup {None} : Send(p, t, group)
            \/ CallDirectly(p, t)
       \/ ReturnDirectly(p)

TasksSpec == TasksInit /\ [][TasksNext]_tasks_vars

-----------------------------------------------------------------------------
(* Properties.                                                             *)

Headers == [request_id : Ids \cup {None}, message_group_id : Groups \cup {None}]

Messages ==
  [id : Ids, task : Tasks, headers : Headers, MessageGroupId : Groups \cup {None}]

Calls ==
  [task : Tasks, id : Ids \cup {None}, headers : Headers, pushed : BOOLEAN,
   asked : Groups \cup {None}, began : 0..MaxClock, again : BOOLEAN]

(* The types, which the theorems rest on.                                  *)
TasksTypeOK ==
  /\ queue \subseteq [message : Messages, asked : Groups \cup {None}, cause : Ids,
                     blurred : BOOLEAN]
  /\ trace \in [Processes -> {Unset, None} \cup Ids]
  /\ g \in [Processes -> Seq({Unset, None} \cup Ids)]
  /\ calls \in [Processes -> Seq(Calls)]
  /\ start \in [Workers -> [Tasks -> Unset..MaxClock]]
  /\ enabled \in [Processes -> BOOLEAN]
  /\ next_id \in 1..(MaxIds + 1) /\ clock \in 0..MaxClock
  /\ cause \in [Processes -> Ids \cup {None}]
  /\ blurred \in [Processes -> BOOLEAN]

(* Whatever a request or a first message leads to, over any number of      *)
(* tasks, retries, repeated deliveries and tasks called in a request, is   *)
(* logged and sent on under its id, unless a task was called directly by   *)
(* another task on the way.                                                *)
CausesAreFollowed ==
  /\ \A q \in queue : ~q.blurred => request_id(q.message) = q.cause
  /\ \A p \in Processes : InTask(p) /\ ~blurred[p] => LoggedId(p) = cause[p]

(* Once a message was sent with a group, each retry of it carries that     *)
(* group in its headers, whichever of the apps it ran in use groups; the   *)
(* queue is given that group or none.                                      *)
GroupsAreRemembered ==
  \A q \in queue :
    /\ q.asked # None => q.message.headers.message_group_id = q.asked
    /\ q.message.MessageGroupId \in {None, q.message.headers.message_group_id}

(* The duration that is reported when a task ends is that of its run: runs *)
(* of the same task object before it and calls of other tasks in it do not *)
(* matter, and a task that calls itself directly reports less, not more.   *)
DurationsAreOfTheRun ==
  \A p \in Workers : InTask(p) =>
    LET ran == clock - Last(calls[p]).began
    IN \/ elapsed_time(p) = ran
       \/ elapsed_time(p) < ran /\ Last(calls[p]).again
=============================================================================
