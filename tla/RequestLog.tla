------------------------------ MODULE RequestLog ------------------------------
(***************************************************************************)
(* request_helper.py and the request log of logging/flask.py: the ids of a *)
(* request, those it hands on to the requests it makes, and the lines that *)
(* are logged of it, the last of which is written when its response is     *)
(* closed and neither its request context nor its g is there any more.     *)
(***************************************************************************)
EXTENDS Integers, SequencesExt

CONSTANTS
  Requests,
  Services,      \* what a view may put into g.service_id
  OutsideIds,    \* ids in the headers of those who call from outside
  RequestLevels  \* NOTIFY_REQUEST_LOG_LEVEL, or that of the handlers if higher

NoId == 0
DEBUG == 10
INFO == 20
WARNING == 30

ASSUME LogAssumption ==
  /\ OutsideIds \subseteq Nat \ {NoId}
  /\ \E latest \in OutsideIds : \A id \in OutsideIds : latest >= id
  /\ NoId \notin Services /\ NoId \notin Requests
  /\ RequestLevels \subseteq Int

VARIABLES
  level,    \* of the request log
  request,  \* per request, what is known of it while it is there
  answer,   \* per request, the trace ids in its response's headers
  baked,    \* per request, what _log_response_closed has been given
  lines,    \* that were logged
  last_id,  \* of the random ids, all of which differ
  caller    \* per request, the one that made it, if any (history)

log_vars == <<level, request, answer, baked, lines, last_id, caller>>

NoHeaders == [trace |-> NoId, span |-> NoId, parent |-> NoId]

Absent ==
  [stage |-> "absent", headers |-> NoHeaders, quiet |-> FALSE,
   trace |-> NoId, span |-> NoId, service |-> NoId, marked |-> FALSE]

-----------------------------------------------------------------------------
(* The ids of a request: from its headers or new ones, once they are asked *)
(* for.  Pairs of a request and the last id.                               *)

trace_id(q, last) ==
  IF q.trace # NoId THEN <<q, last>>
  ELSE IF q.headers.trace # NoId THEN <<[q EXCEPT !.trace = q.headers.trace], last>>
  ELSE <<[q EXCEPT !.trace = last + 1], last + 1>>

span_id(q, last) ==
  IF q.span # NoId THEN <<q, last>>
  ELSE IF q.headers.span # NoId THEN <<[q EXCEPT !.span = q.headers.span], last>>
  ELSE <<[q EXCEPT !.span = last + 1], last + 1>>

Identified(q, last) ==
  LET traced == trace_id(q, last) IN span_id(traced[1], traced[2])

parent_span_id(q) == q.headers.parent

(* Mutant of get_onwards_request_headers: the parent's parent.             *)
OnwardsFromParent(q, span) ==
  [trace |-> q.trace, span |-> span, parent |-> parent_span_id(q)]

(* Of a request that has its ids.                                          *)
get_onwards_request_headers(q, span) ==
  [trace |-> q.trace, span |-> span, parent |-> q.span]

-----------------------------------------------------------------------------
(* Lines.  The filters prefer what the contexts have to what the record    *)
(* has.                                                                    *)

Filtered(live, given) == IF live # NoId THEN live ELSE given

NothingGiven == [trace |-> NoId, span |-> NoId, parent |-> NoId, service |-> NoId]

(* Of a request, or of none (Absent), with what the record is given.       *)
Line(r, kind, q, given) ==
  [request |-> r, kind |-> kind, trace |-> Filtered(q.trace, given.trace),
   span |-> Filtered(q.span, given.span), service |-> Filtered(q.service, given.service),
   parent |-> Filtered(parent_span_id(q), given.parent)]

Enabled(line_level) == line_level >= level

(* Mutant of LineLevel: that of its path, whatever was answered.           *)
LineLevelOfPath(q, failed) ==
  IF q.quiet THEN DEBUG ELSE IF failed THEN WARNING ELSE INFO

(* quiet: the path is in NOTIFY_LOG_DEBUG_PATH_LIST.                       *)
LineLevel(q, failed) ==
  IF failed THEN WARNING ELSE IF q.quiet THEN DEBUG ELSE INFO

-----------------------------------------------------------------------------
Arrive(r, headers, quiet) ==
  /\ request[r].stage = "absent"
  /\ request' = [request EXCEPT ![r] =
       [Absent EXCEPT !.stage = "arrived", !.headers = headers, !.quiet = quiet]]
  /\ UNCHANGED <<level, answer, baked, lines, last_id, caller>>

(* What is registered to run before before_request may answer itself, or   *)
(* raise: then before_request does not run.                                *)
CutShort(r) ==
  /\ request[r].stage = "arrived"
  /\ request' = [request EXCEPT ![r].stage = "viewed"]
  /\ UNCHANGED <<level, answer, baked, lines, last_id, caller>>

(* before_request notes the time and logs that the request was received,   *)
(* for which the filters ask for its ids.                                  *)
before_request(r) ==
  /\ request[r].stage = "arrived"
  /\ LET begun == [request[r] EXCEPT !.stage = "viewed", !.marked = TRUE]
         known == IF Enabled(DEBUG) THEN Identified(begun, last_id)
                  ELSE <<begun, last_id>>
     IN /\ request' = [request EXCEPT ![r] = known[1]]
        /\ last_id' = known[2]
        /\ lines' = IF Enabled(DEBUG)
                    THEN lines \cup {Line(r, "received", known[1], NothingGiven)}
                    ELSE lines
  /\ UNCHANGED <<level, answer, baked, caller>>

(* A view looks up who is asking.                                          *)
Look(r, service) ==
  /\ request[r].stage = "viewed"
  /\ request' = [request EXCEPT ![r].service = service]
  /\ UNCHANGED <<level, answer, baked, lines, last_id, caller>>

(* A view makes a request of another app, with its onwards headers.        *)
Call(r, s, quiet) ==
  /\ request[r].stage = "viewed" /\ request[s].stage = "absent"
  /\ LET known == Identified(request[r], last_id)
         headers == get_onwards_request_headers(known[1], known[2] + 1)
     IN /\ request' = [request EXCEPT ![r] = known[1], ![s] =
             [Absent EXCEPT !.stage = "arrived", !.headers = headers, !.quiet = quiet]]
        /\ last_id' = known[2] + 1
  /\ caller' = [caller EXCEPT ![s] = r]
  /\ UNCHANGED <<level, answer, baked, lines>>

(* after_request: the line is formatted with the request's time, which is  *)
(* None if before_request did not run; then formatting fails and there is  *)
(* no line.  Of a streamed response another line is to be logged when it   *)
(* is closed, for which the values that the filters and the context would  *)
(* find are kept.  Then ResponseHeaderMiddleware adds the ids; the names   *)
(* that it compares with those that are there are not lower case as they   *)
(* are, so it always does.  `own' are the trace ids a view's response has. *)
after_request(r, failed, streamed, own) ==
  /\ request[r].stage = "viewed"
  /\ LET known == Identified(request[r], last_id)
         q == known[1]
         logged == request[r].marked /\ Enabled(LineLevel(q, failed))
     IN /\ last_id' = known[2]
        /\ request' = [request EXCEPT ![r] =
             IF streamed THEN [Absent EXCEPT !.stage = "streaming"]
             ELSE [Absent EXCEPT !.stage = "gone"]]
        /\ answer' = [answer EXCEPT ![r] = Append(own, q.trace)]
        /\ baked' = [baked EXCEPT ![r] =
             [trace |-> q.trace, span |-> q.span, parent |-> parent_span_id(q),
              service |-> q.service, marked |-> q.marked,
              level |-> LineLevel(q, failed),
              response |-> [failed |-> failed, streamed |-> streamed, quiet |-> q.quiet]]]
        /\ lines' = IF logged THEN lines \cup {Line(r, "took", q, NothingGiven)}
                    ELSE lines
  /\ UNCHANGED <<level, caller>>

NotBaked ==
  [trace |-> NoId, span |-> NoId, parent |-> NoId, service |-> NoId,
   marked |-> FALSE, level |-> DEBUG,
   response |-> [failed |-> FALSE, streamed |-> FALSE, quiet |-> FALSE]]

(* The response is closed, and there are no contexts.                      *)
_log_response_closed(r) ==
  /\ request[r].stage = "streaming"
  /\ request' = [request EXCEPT ![r].stage = "gone"]
  /\ lines' = IF baked[r].marked /\ Enabled(baked[r].level)
              THEN lines \cup {Line(r, "closed", Absent, baked[r])} ELSE lines
  /\ UNCHANGED <<level, answer, baked, last_id, caller>>

AllAre(x) == [r \in Requests |-> x]

LogInit ==
  /\ level \in RequestLevels
  /\ request = AllAre(Absent) /\ answer = AllAre(<<>>) /\ baked = AllAre(NotBaked)
  /\ lines = {} /\ last_id = Max(OutsideIds) /\ caller = AllAre(NoId)

(* When all are over others come: a bound on how many there are.           *)
StartOver ==
  /\ \A r \in Requests : request[r].stage = "gone"
  /\ request' = AllAre(Absent) /\ answer' = AllAre(<<>>) /\ baked' = AllAre(NotBaked)
  /\ lines' = {} /\ last_id' = Max(OutsideIds) /\ caller' = AllAre(NoId)
  /\ UNCHANGED level

HeadersFromOutside ==
  [trace : OutsideIds \cup {NoId}, span : OutsideIds \cup {NoId}, parent : {NoId}]

LogNext ==
  \/ StartOver
  \/ \E r \in Requests :
       \/ \E headers \in HeadersFromOutside, quiet \in BOOLEAN : Arrive(r, headers, quiet)
       \/ CutShort(r)
       \/ before_request(r)
       \/ \E service \in Services : Look(r, service)
       \/ \E s \in Requests, quiet \in BOOLEAN : Call(r, s, quiet)
       \/ \E failed, streamed \in BOOLEAN :
            \/ after_request(r, failed, streamed, <<>>)
            \/ \E s \in Requests : /\ caller[s] = r /\ answer[s] # <<>>
                                    /\ after_request(r, failed, streamed, answer[s])
       \/ _log_response_closed(r)

LogSpec == LogInit /\ [][LogNext]_log_vars

-----------------------------------------------------------------------------
(* Properties.                                                             *)

(* Calls can be followed through the log: all lines of a request have its  *)
(* ids, the one that is logged without its contexts too, and that knows of *)
(* the same service; a request that is made for another has the trace and  *)
(* its lines name as their parent the span in those of the other; no span  *)
(* is two requests', but for what is said outside; and the answer names    *)
(* the trace.                                                              *)
CallsAreFollowed ==
  \A l \in lines :
    /\ answer[l.request] # <<>> => ToSet(answer[l.request]) = {l.trace}
    /\ \A m \in lines :
         IF m.request = l.request
         THEN /\ <<m.trace, m.span, m.parent>> = <<l.trace, l.span, l.parent>>
              /\ {m.kind, l.kind} = {"took", "closed"} => m.service = l.service
         ELSE /\ m.span = l.span => l.span \in OutsideIds
              /\ caller[m.request] = l.request => /\ m.trace = l.trace
                                                 /\ m.parent = l.span

(* An answer that failed is logged whenever warnings are, and others, but  *)
(* on paths of no interest, whenever information is; if it was streamed,   *)
(* again once it is closed.  Not if before_request did not run: its time   *)
(* cannot be formatted.                                                    *)
AnsweredIsLogged ==
  \A r \in Requests :
    LET response == baked[r].response
        wanted == \/ response.failed /\ level <= WARNING
                  \/ ~response.quiet /\ level <= INFO
        logged(kind) == \E l \in lines : l.request = r /\ l.kind = kind
    IN baked[r].marked /\ wanted =>
         /\ logged("took")
         /\ response.streamed /\ request[r].stage = "gone" => logged("closed")
=============================================================================
