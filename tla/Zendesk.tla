------------------------------- MODULE Zendesk -------------------------------
(***************************************************************************)
(* clients/zendesk/zendesk_client.py: tickets are made and updated by      *)
(* requests to a desk that may refuse them, or act and not be heard.       *)
(* There is one client for each of the app's processes, which calls again  *)
(* as it likes when a call has raised, with the files that it has open.    *)
(*                                                                         *)
(* What may be left out is <<>> for None, or <<value>>.                    *)
(***************************************************************************)
EXTENDS Integers, SequencesExt

CONSTANTS
  Clients,
  NotifySupportTickets,  \* what tickets are made from
  Comments,              \* each the sequence of its attachments, files
  Status,                \* what the status of a ticket may be set to
  New,                   \* what it is at first
  DayLength, LocalOffset,  \* of a day, and of the local time from UTC
  MaxCalls, MaxTickets   \* bounds: calls of all clients, tickets on the desk

ASSUME ZendeskAssumption ==
  /\ DayLength \in Nat \ {0} /\ LocalOffset \in Nat /\ MaxCalls \in Nat
  /\ \A comment \in Comments : comment \in Seq(ToSet(comment))

VARIABLES
  tickets,   \* of the desk, by id: its data, status and comments
  uploads,   \* of the desk, by token: the file, what of it, the call
  at_end,    \* files that have been read to their end
  calls      \* those made so far, the ended ones as well

zendesk_vars == <<tickets, uploads, at_end, calls>>

None == <<>>

-----------------------------------------------------------------------------
(* What a ticket is made from.                                             *)

(* The day where the user is.                                              *)
_format_user_created_at_value(created_at) ==
  [n \in DOMAIN created_at |-> (created_at[n] + LocalOffset) \div DayLength]

_get_custom_fields(ticket) ==
  <<[id |-> "organisation type", value |-> ticket.org_type],
    [id |-> "user created at", value |-> _format_user_created_at_value(ticket.user_created_at)]>>
    \o (IF ticket.notify_ticket_type = None THEN <<>>
        ELSE <<[id |-> "responder", value |-> ticket.notify_ticket_type]>>)
    \o ticket.custom_topics

(* Without an email address the ticket comes from Notify.                  *)
request_data(ticket) ==
  [comment |-> [public |-> ticket.requester_sees_message_content,
                html |-> ticket.message_as_html],
   priority |-> IF ticket.p1 THEN "urgent" ELSE "normal",
   tags |-> IF ticket.p1 THEN "TAGS_P1" ELSE "TAGS_P2",
   custom_fields |-> _get_custom_fields(ticket),
   email_ccs |-> ticket.email_ccs,
   requester |-> ticket.user_email]

-----------------------------------------------------------------------------
(* Requests: each is refused or lost on its way, or is acted upon and      *)
(* answered, or is acted upon and the answer is lost.                      *)

Running(n) == n \in DOMAIN calls /\ calls[n].step = "running"

Busy(client) == \E n \in DOMAIN calls : Running(n) /\ calls[n].client = client

MayCall(client) == Len(calls) < MaxCalls /\ ~Busy(client)

NewTicket(ticket) ==
  tickets' = Append(tickets, [data |-> request_data(ticket), status |-> New, comments |-> <<>>])

SendCall(client, ticket, step, id) ==
  calls' = Append(calls, [client |-> client, ticket |-> ticket, step |-> step, id |-> id,
                          comment |-> None, status |-> None, tokens |-> <<>>])

(* send_ticket_to_zendesk: a requester who is suspended has no ticket, and *)
(* that is no error.                                                       *)
SendTicket(client, ticket) ==
  /\ MayCall(client) /\ Len(tickets) < MaxTickets
  /\ \/ NewTicket(ticket) /\ SendCall(client, <<ticket>>, "returned", <<Len(tickets) + 1>>)
     \/ NewTicket(ticket) /\ SendCall(client, <<ticket>>, "raised", None)
     \/ UNCHANGED tickets /\ SendCall(client, <<ticket>>, "raised", None)
     \/ /\ ticket.user_email # None
        /\ UNCHANGED tickets /\ SendCall(client, <<ticket>>, "returned", None)
  /\ UNCHANGED <<uploads, at_end>>

(* update_ticket, up to its first request.                                 *)
UpdateTicket(client, id, comment, status) ==
  /\ MayCall(client)
  /\ calls' = Append(calls, [client |-> client, ticket |-> None, step |-> "running", id |-> <<id>>,
                             comment |-> comment, status |-> status, tokens |-> <<>>])
  /\ UNCHANGED <<tickets, uploads, at_end>>

Attachments(call) == IF call.comment = None THEN <<>> ELSE Head(call.comment)

NextFile(call) == Attachments(call)[Len(call.tokens) + 1]

Proceed(n, call) == calls' = [calls EXCEPT ![n] = call]

Fails(n) == Proceed(n, [calls[n] EXCEPT !.step = "raised"])

(* The desk keeps what is left of the file.                                *)
Keep(n, file) ==
  uploads' = Append(uploads, [file |-> file, whole |-> file \notin at_end, by |-> n])

(* Mutant of NotUploaded: the attachment is left out.                      *)
NotUploadedGoOn(n) == Proceed(n, [calls[n] EXCEPT !.comment = <<Tail(Head(@))>>])

NotUploaded(n) == Fails(n)

(* _upload_attachment; whatever comes of it, the file is read when it is   *)
(* sent.                                                                   *)
UploadAttachment(n) ==
  /\ Running(n)
  /\ Len(calls[n].tokens) < Len(Attachments(calls[n]))
  /\ LET file == NextFile(calls[n])
     IN /\ \/ /\ Keep(n, file)
              /\ Proceed(n, [calls[n] EXCEPT !.tokens = Append(@, Len(uploads) + 1)])
           \/ Keep(n, file) /\ Fails(n)
           \/ UNCHANGED uploads /\ NotUploaded(n)
        /\ at_end' \in {at_end, at_end \cup {file}}
        /\ uploads' # uploads => file \in at_end'
  /\ UNCHANGED tickets

(* Status and comment where they are given.                                *)
Updated(ticket, n) ==
  LET call == calls[n]
      commented == IF call.comment = None THEN ticket
                   ELSE [ticket EXCEPT !.comments = Append(@, [by |-> n, uploads |-> call.tokens])]
  IN IF call.status = None THEN commented ELSE [commented EXCEPT !.status = Head(call.status)]

Act(n) ==
  LET id == Head(calls[n].id)
  IN tickets' = [tickets EXCEPT ![id] = Updated(@, n)]

(* Mutant of NotPut: only the log says that it was refused.                *)
NotPutReturn(n) == Proceed(n, [calls[n] EXCEPT !.step = "returned"])

NotPut(n) == Fails(n)

(* The PUT that ends an update.                                            *)
Put(n) ==
  /\ Running(n)
  /\ Len(calls[n].tokens) = Len(Attachments(calls[n]))
  /\ \/ Act(n) /\ Proceed(n, [calls[n] EXCEPT !.step = "returned"])
     \/ Act(n) /\ Fails(n)
     \/ UNCHANGED tickets /\ NotPut(n)
  /\ UNCHANGED <<uploads, at_end>>

-----------------------------------------------------------------------------
ZendeskInit == tickets = <<>> /\ uploads = <<>> /\ at_end = {} /\ calls = <<>>

Resting == (\A n \in DOMAIN calls : ~Running(n)) /\ UNCHANGED zendesk_vars

ZendeskNext ==
  \/ \E client \in Clients, ticket \in NotifySupportTickets : SendTicket(client, ticket)
  \/ \E client \in Clients, id \in DOMAIN tickets :
       \E comment \in {None} \cup {<<c>> : c \in Comments},
          status \in {None} \cup {<<s>> : s \in Status} :
         UpdateTicket(client, id, comment, status)
  \/ \E n \in DOMAIN calls : UploadAttachment(n) \/ Put(n)
  \/ Resting

ZendeskSpec == ZendeskInit /\ [][ZendeskNext]_zendesk_vars

-----------------------------------------------------------------------------
(* Properties.                                                             *)

Made == {n \in DOMAIN calls : calls[n].ticket # None /\ calls[n].id # None}
Unheard == {n \in DOMAIN calls : calls[n].ticket # None /\ calls[n].step = "raised"}

CommentsBy(n) ==
  {place \in (DOMAIN tickets) \X (1..MaxCalls) :
     LET comments == tickets[place[1]].comments
     IN place[2] \in DOMAIN comments /\ comments[place[2]].by = n}

(* A call that has returned has done what it was asked, once: it has put   *)
(* its comment on its ticket, and set the status, unless a later one that  *)
(* was under way with it or after it set another; and it has made the      *)
(* ticket whose id it returned, or none if it returned none.  One that     *)
(* raised may have done so too, but no more.                               *)
ReturnedMeansDone ==
  /\ Len(tickets) \in Cardinality(Made)..Cardinality(Made) + Cardinality(Unheard)
  /\ \A n \in DOMAIN calls :
       LET call == calls[n]
       IN /\ Cardinality(CommentsBy(n)) <= 1
          /\ call.step = "returned" /\ call.ticket # None /\ call.id # None =>
               tickets[Head(call.id)].data = request_data(Head(call.ticket))
          /\ call.step = "returned" /\ call.comment # None =>
               \E place \in CommentsBy(n) : place[1] = Head(call.id)
          /\ call.step = "returned" /\ call.status # None =>
               \/ tickets[Head(call.id)].status = Head(call.status)
               \/ \E m \in DOMAIN calls :
                    m # n /\ calls[m].id = call.id /\ calls[m].status = <<tickets[Head(call.id)].status>>

(* A comment on a ticket has the attachments that its call was given, all  *)
(* of them in their order, each uploaded for it and for no other; and each *)
(* is the whole file, unless the file was one of those of an earlier       *)
(* attachment, of this call or of one before.                              *)
CommentsCarryTheirFiles ==
  \A id \in DOMAIN tickets : \A m \in DOMAIN tickets[id].comments :
    LET comment == tickets[id].comments[m]
        asked == Head(calls[comment.by].comment)
    IN /\ [k \in DOMAIN comment.uploads |-> uploads[comment.uploads[k]].file] = asked
       /\ \A k \in DOMAIN comment.uploads :
            LET upload == uploads[comment.uploads[k]]
            IN /\ upload.by = comment.by
               /\ \/ upload.whole
                  \/ \E l \in 1..k - 1 : asked[l] = upload.file
                  \/ \E n \in 1..Len(calls) :
                       n # comment.by /\ upload.file \in ToSet(Attachments(calls[n]))
=============================================================================
