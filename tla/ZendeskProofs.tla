----------------------------- MODULE ZendeskProofs -----------------------------
(***************************************************************************)
(* Theorems about Zendesk, for any clients, tickets, comments and files,   *)
(* any number of calls, and any failure of any of them.                    *)
(***************************************************************************)
EXTENDS Zendesk, FiniteSetTheorems, TLAPS

Optional(S) == {None} \cup {<<x>> : x \in S}

Calls ==
  [client : Clients, ticket : Optional(NotifySupportTickets),
   step : {"running", "returned", "raised"}, id : Optional(Nat), comment : Optional(Comments),
   status : Optional(Status), tokens : Seq(Nat)]

Tickets ==
  [data : {request_data(ticket) : ticket \in NotifySupportTickets}, status : Status \cup {New},
   comments : Seq([by : Nat, uploads : Seq(Nat)])]

(* Calls name tickets and uploads that there are; those that are running   *)
(* are updates.                                                            *)
DeskTypeOK ==
  /\ tickets \in Seq(Tickets)
  /\ uploads \in Seq([file : UNION {ToSet(c) : c \in Comments}, whole : BOOLEAN, by : Nat])
  /\ calls \in Seq(Calls) /\ Len(calls) <= MaxCalls
  /\ \A n \in DOMAIN calls :
       /\ calls[n].id # None => Head(calls[n].id) \in DOMAIN tickets
       /\ calls[n].ticket = None => calls[n].id # None
       /\ calls[n].ticket # None =>
            ~Running(n) /\ calls[n].comment = None /\ calls[n].status = None

(* A file was not whole only if it was at its end.                         *)
Taken(n, k) ==
  LET upload == uploads[calls[n].tokens[k]]
      asked == Attachments(calls[n])
  IN /\ calls[n].tokens[k] \in DOMAIN uploads
     /\ upload.file = asked[k] /\ upload.by = n
     /\ \/ upload.whole
        \/ \E l \in 1..k - 1 : asked[l] = upload.file
        \/ \E m \in 1..Len(calls) : m # n /\ upload.file \in ToSet(Attachments(calls[m]))

TokensAreTheFiles ==
  \A n \in DOMAIN calls :
    /\ Len(calls[n].tokens) <= Len(Attachments(calls[n]))
    /\ \A k \in 1..Len(calls[n].tokens) : Taken(n, k)

(* What is at its end is an attachment of a call that has ended or that    *)
(* has gone on to the next.                                                *)
ReadBy(n, file) ==
  \/ ~Running(n) /\ file \in ToSet(Attachments(calls[n]))
  \/ \E l \in 1..Len(calls[n].tokens) : Attachments(calls[n])[l] = file

ReadToTheEnd == \A file \in at_end : \E n \in DOMAIN calls : ReadBy(n, file)

Commented(id, comment) ==
  LET n == comment.by
  IN /\ n \in DOMAIN calls /\ ~Running(n)
     /\ calls[n].comment # None /\ calls[n].id = <<id>>
     /\ comment.uploads = calls[n].tokens
     /\ Len(calls[n].tokens) = Len(Attachments(calls[n]))

CommentsAreOfCalls ==
  \A id \in DOMAIN tickets : \A m \in DOMAIN tickets[id].comments :
    Commented(id, tickets[id].comments[m])

CommentsAreOnce ==
  \A id, jd \in DOMAIN tickets :
    \A m \in DOMAIN tickets[id].comments, l \in DOMAIN tickets[jd].comments :
      tickets[id].comments[m].by = tickets[jd].comments[l].by => id = jd /\ m = l

TicketsAreCounted ==
  Len(tickets) \in Cardinality(Made)..Cardinality(Made) + Cardinality(Unheard)

TicketDone(call) ==
  call.ticket # None /\ call.id # None =>
    tickets[Head(call.id)].data = request_data(Head(call.ticket))

CommentDone(n) ==
  calls[n].comment # None =>
    \E m \in DOMAIN tickets[Head(calls[n].id)].comments :
      tickets[Head(calls[n].id)].comments[m].by = n

StatusDone(n) ==
  LET set == tickets[Head(calls[n].id)].status
  IN calls[n].status # None =>
       \/ calls[n].status = <<set>>
       \/ \E m \in DOMAIN calls : m # n /\ calls[m].id = calls[n].id /\ calls[m].status = <<set>>

Done(n) == TicketDone(calls[n]) /\ CommentDone(n) /\ StatusDone(n)

DoneWhenReturned == \A n \in DOMAIN calls : calls[n].step = "returned" => Done(n)

DeskInv ==
  /\ DeskTypeOK /\ TokensAreTheFiles /\ ReadToTheEnd /\ CommentsAreOfCalls /\ CommentsAreOnce
  /\ TicketsAreCounted /\ DoneWhenReturned

(* Nothing that a call has been given or has done is taken back.           *)
Kept ==
  /\ calls' \in Seq(Calls)
  /\ \A m \in DOMAIN calls :
       /\ m \in DOMAIN calls'
       /\ calls'[m].ticket = calls[m].ticket /\ calls'[m].id = calls[m].id
       /\ calls'[m].comment = calls[m].comment /\ calls'[m].status = calls[m].status
       /\ \A k \in 1..Len(calls[m].tokens) :
            k \in 1..Len(calls'[m].tokens) /\ calls'[m].tokens[k] = calls[m].tokens[k]
       /\ ~Running(m) => calls'[m] = calls[m]
  /\ \A t \in DOMAIN uploads : t \in DOMAIN uploads' /\ uploads'[t] = uploads[t]

LEMMA Sequences ==
  ASSUME NEW S, NEW s \in Seq(S)
  PROVE  /\ Len(s) \in Nat /\ DOMAIN s = 1..Len(s) /\ s = [l \in 1..Len(s) |-> s[l]]
         /\ \A e : \A l \in DOMAIN s : l \in DOMAIN Append(s, e) /\ Append(s, e)[l] = s[l]
OBVIOUS

LEMMA AttachmentsAreFiles ==
  ASSUME NEW call \in Calls
  PROVE  /\ Attachments(call) \in Seq(UNION {ToSet(c) : c \in Comments})
         /\ Attachments(call) # <<>> => call.comment # None
<1>1. CASE call.comment = None
  BY <1>1 DEF Attachments
<1>2. CASE call.comment # None
  <2>1. PICK c \in Comments : call.comment = <<c>>
    BY <1>2 DEF Calls, Optional
  <2>2. Attachments(call) = c
    BY <2>1 DEF Attachments, None
  <2>3. c \in Seq(ToSet(c)) /\ ToSet(c) \subseteq UNION {ToSet(d) : d \in Comments}
    BY ZendeskAssumption
  <2>4. c \in Seq(UNION {ToSet(d) : d \in Comments})
    BY <2>3
  <2> QED BY <1>2, <2>2, <2>4
<1> QED BY <1>1, <1>2

LEMMA SameAttachments ==
  ASSUME Kept, NEW m \in DOMAIN calls
  PROVE  Attachments(calls'[m]) = Attachments(calls[m])
BY DEF Kept, Attachments

LEMMA StillTaken ==
  ASSUME DeskTypeOK, Kept, NEW n \in DOMAIN calls, NEW k \in 1..Len(calls[n].tokens), Taken(n, k)
  PROVE  Taken(n, k)'
<1>1. /\ calls'[n].tokens[k] = calls[n].tokens[k]
      /\ calls[n].tokens[k] \in DOMAIN uploads'
      /\ uploads'[calls[n].tokens[k]] = uploads[calls[n].tokens[k]]
  BY DEF Kept, Taken
<1>2. Attachments(calls'[n]) = Attachments(calls[n])
  BY SameAttachments
<1>3. ASSUME NEW m \in 1..Len(calls)
      PROVE  m \in 1..Len(calls') /\ Attachments(calls'[m]) = Attachments(calls[m])
  <2>1. DOMAIN calls = 1..Len(calls)
    BY DEF DeskTypeOK
  <2>2. DOMAIN calls' = 1..Len(calls')
    BY DEF Kept
  <2> QED BY <2>1, <2>2, SameAttachments DEF Kept
<1> QED BY <1>1, <1>2, <1>3 DEF Taken

LEMMA StillCommented ==
  ASSUME DeskTypeOK, Kept, NEW id, NEW comment, Commented(id, comment)
  PROVE  Commented(id, comment)'
<1>1. /\ comment.by \in DOMAIN calls /\ comment.by \in DOMAIN calls'
      /\ calls'[comment.by] = calls[comment.by] /\ ~Running(comment.by)
  BY DEF Commented, Kept
<1> QED BY <1>1 DEF Commented, Running, Attachments

LEMMA StillRead ==
  ASSUME DeskTypeOK, Kept, NEW n \in DOMAIN calls, NEW file, ReadBy(n, file)
  PROVE  ReadBy(n, file)'
<1>1. Attachments(calls'[n]) = Attachments(calls[n])
  BY SameAttachments
<1>2. CASE ~Running(n) /\ file \in ToSet(Attachments(calls[n]))
  <2>1. n \in DOMAIN calls' /\ calls'[n] = calls[n]
    BY <1>2 DEF Kept
  <2> QED BY <1>1, <1>2, <2>1 DEF ReadBy, Running
<1>3. CASE \E l \in 1..Len(calls[n].tokens) : Attachments(calls[n])[l] = file
  BY <1>1, <1>3 DEF ReadBy, Kept
<1> QED BY <1>2, <1>3 DEF ReadBy

(* A new call has done nothing yet.                                        *)
LEMMA Begun ==
  ASSUME DeskTypeOK, Len(calls) < MaxCalls, NEW call \in Calls, calls' = Append(calls, call),
         UNCHANGED <<uploads, at_end>>, call.tokens = <<>>
  PROVE  /\ Kept
         /\ Len(calls') = Len(calls) + 1 /\ Len(calls') <= MaxCalls
         /\ DOMAIN calls' = DOMAIN calls \cup {Len(calls) + 1}
         /\ calls'[Len(calls) + 1] = call
         /\ \A n \in DOMAIN calls : n # Len(calls) + 1 /\ calls'[n] = calls[n]
         /\ TokensAreTheFiles => TokensAreTheFiles'
         /\ ReadToTheEnd => ReadToTheEnd'
<1>1. calls \in Seq(Calls) /\ DOMAIN calls = 1..Len(calls) /\ Len(calls) \in Nat
  BY DEF DeskTypeOK
<1>2. /\ calls' \in Seq(Calls) /\ Len(calls') = Len(calls) + 1 /\ Len(calls') <= MaxCalls
      /\ DOMAIN calls' = DOMAIN calls \cup {Len(calls) + 1}
      /\ calls'[Len(calls) + 1] = call
      /\ \A n \in DOMAIN calls : n # Len(calls) + 1 /\ calls'[n] = calls[n]
  BY <1>1, ZendeskAssumption
<1>3. Kept
  BY <1>2 DEF Kept
<1>4. ASSUME TokensAreTheFiles PROVE TokensAreTheFiles'
  <2> SUFFICES ASSUME NEW n \in DOMAIN calls'
               PROVE  /\ Len(calls'[n].tokens) <= Len(Attachments(calls'[n]))
                      /\ \A k \in 1..Len(calls'[n].tokens) : Taken(n, k)'
    BY DEF TokensAreTheFiles
  <2>1. CASE n \in DOMAIN calls
    <3>1. calls'[n] = calls[n]
      BY <1>2, <2>1
    <3>2. /\ Len(calls[n].tokens) <= Len(Attachments(calls[n]))
          /\ \A k \in 1..Len(calls[n].tokens) : Taken(n, k)
      BY <1>4, <2>1 DEF TokensAreTheFiles
    <3>3. \A k \in 1..Len(calls[n].tokens) : Taken(n, k)'
      BY <1>3, <2>1, <3>2, StillTaken
    <3> QED BY <3>1, <3>2, <3>3
  <2>2. CASE n = Len(calls) + 1
    <3>1. calls'[n] = call /\ Len(<<>>) = 0 /\ Len(Attachments(call)) \in Nat
      BY <1>2, <2>2, AttachmentsAreFiles
    <3> QED BY <3>1
  <2> QED BY <1>2, <2>1, <2>2
<1>5. ASSUME ReadToTheEnd PROVE ReadToTheEnd'
  BY <1>2, <1>3, <1>5, StillRead DEF ReadToTheEnd
<1> QED BY <1>2, <1>3, <1>4, <1>5


(* The desk's tickets stay as they are, and new ones have no comments.     *)
TicketsKept ==
  /\ tickets' \in Seq(Tickets)
  /\ \A id \in DOMAIN tickets : id \in DOMAIN tickets' /\ tickets'[id] = tickets[id]
  /\ \A id \in DOMAIN tickets' : id \in DOMAIN tickets \/ tickets'[id].comments = <<>>

LEMMA CommentsStay ==
  ASSUME DeskTypeOK, Kept, TicketsKept
  PROVE  /\ CommentsAreOfCalls => CommentsAreOfCalls'
         /\ CommentsAreOnce => CommentsAreOnce'
<1>1. ASSUME NEW id \in DOMAIN tickets', NEW m \in DOMAIN tickets'[id].comments
      PROVE  id \in DOMAIN tickets /\ tickets'[id] = tickets[id]
  <2>1. tickets'[id].comments # <<>>
    BY <1>1
  <2> QED BY <1>1, <2>1 DEF TicketsKept
<1>2. ASSUME CommentsAreOfCalls, NEW id \in DOMAIN tickets', NEW m \in DOMAIN tickets'[id].comments
      PROVE  Commented(id, tickets[id].comments[m])'
  <2>1. Commented(id, tickets[id].comments[m])
    BY <1>1, <1>2 DEF CommentsAreOfCalls
  <2>2. PICK comment : comment = tickets[id].comments[m]
    OBVIOUS
  <2>3. Commented(id, comment)'
    BY <2>1, <2>2, StillCommented
  <2>4. tickets'[id].comments[m] = comment
    BY <1>1, <1>2, <2>2
  <2> QED BY <2>3, <2>4
<1>3. CommentsAreOfCalls => CommentsAreOfCalls'
  BY <1>2 DEF CommentsAreOfCalls
<1>4. CommentsAreOnce => CommentsAreOnce'
  BY <1>1 DEF CommentsAreOnce
<1> QED BY <1>3, <1>4

LEMMA StillDone ==
  ASSUME DeskTypeOK, Kept, TicketsKept, NEW n \in DOMAIN calls, calls[n].step = "returned", Done(n)
  PROVE  calls'[n].step = "returned" /\ Done(n)'
<1>1. calls'[n] = calls[n]
  BY DEF Kept, Running
<1>2. calls[n].id # None =>
        /\ Head(calls[n].id) \in DOMAIN tickets
        /\ tickets'[Head(calls[n].id)] = tickets[Head(calls[n].id)]
  BY DEF DeskTypeOK, TicketsKept
<1>3. calls[n].ticket = None => calls[n].id # None
  BY DEF DeskTypeOK
<1>4. calls[n].ticket # None => calls[n].comment = None /\ calls[n].status = None
  BY DEF DeskTypeOK
<1>5. TicketDone(calls[n])'
  BY <1>1, <1>2 DEF Done, TicketDone
<1>6. CommentDone(n)'
  BY <1>1, <1>2, <1>3, <1>4 DEF Done, CommentDone
<1>7. StatusDone(n)'
  BY <1>1, <1>2, <1>3, <1>4 DEF Done, StatusDone, Kept
<1> QED BY <1>1, <1>5, <1>6, <1>7 DEF Done

LEMMA MadeIsFinite ==
  ASSUME DeskTypeOK
  PROVE  /\ IsFiniteSet(Made) /\ Cardinality(Made) \in Nat
         /\ IsFiniteSet(Unheard) /\ Cardinality(Unheard) \in Nat
<1>1. IsFiniteSet(DOMAIN calls)
  BY FS_Interval DEF DeskTypeOK
<1>2. Made \subseteq DOMAIN calls /\ Unheard \subseteq DOMAIN calls
  BY DEF Made, Unheard
<1> QED BY <1>1, <1>2, FS_Subset, FS_CardinalityType

(* A call for a ticket counts where it ends.                               *)
LEMMA CountedWhenBegun ==
  ASSUME DeskTypeOK, TicketsAreCounted, NEW call, calls' = Append(calls, call),
         DOMAIN calls' = DOMAIN calls \cup {Len(calls) + 1}, calls'[Len(calls) + 1] = call,
         \A n \in DOMAIN calls : n # Len(calls) + 1 /\ calls'[n] = calls[n],
         Len(tickets') \in Nat,
         \/ /\ call.ticket # None /\ call.id # None /\ call.step = "returned"
            /\ Len(tickets') = Len(tickets) + 1
         \/ /\ call.ticket # None /\ call.id = None /\ call.step = "raised"
            /\ Len(tickets') \in {Len(tickets), Len(tickets) + 1}
         \/ /\ call.ticket = None \/ (call.id = None /\ call.step = "returned")
            /\ tickets' = tickets
  PROVE  TicketsAreCounted'
<1> DEFINE new == Len(calls) + 1
<1>1. new \notin DOMAIN calls /\ new \notin Made /\ new \notin Unheard
  BY DEF Made, Unheard
<1>2. Len(tickets) \in Nat /\ DeskTypeOK
  BY DEF DeskTypeOK
<1>3. CASE /\ call.ticket # None /\ call.id # None /\ call.step = "returned"
           /\ Len(tickets') = Len(tickets) + 1
  <2>1. Made' = Made \cup {new} /\ Unheard' = Unheard
    BY <1>3 DEF Made, Unheard
  <2>2. Cardinality(Made') = Cardinality(Made) + 1
    BY <1>1, <2>1, MadeIsFinite, FS_AddElement
  <2> QED BY <1>2, <1>3, <2>1, <2>2, MadeIsFinite DEF TicketsAreCounted
<1>4. CASE /\ call.ticket # None /\ call.id = None /\ call.step = "raised"
           /\ Len(tickets') \in {Len(tickets), Len(tickets) + 1}
  <2>1. Made' = Made /\ Unheard' = Unheard \cup {new}
    BY <1>4 DEF Made, Unheard
  <2>2. Cardinality(Unheard') = Cardinality(Unheard) + 1
    BY <1>1, <2>1, MadeIsFinite, FS_AddElement
  <2> QED BY <1>2, <1>4, <2>1, <2>2, MadeIsFinite DEF TicketsAreCounted
<1>5. CASE /\ call.ticket = None \/ (call.id = None /\ call.step = "returned")
           /\ tickets' = tickets
  <2>1. Made' = Made /\ Unheard' = Unheard
    BY <1>5 DEF Made, Unheard
  <2> QED BY <1>5, <2>1 DEF TicketsAreCounted
<1> QED BY <1>3, <1>4, <1>5

LEMMA OldTicketsKept ==
  ASSUME DeskTypeOK, tickets' = tickets
  PROVE  TicketsKept
BY DEF DeskTypeOK, TicketsKept

LEMMA SendTicketInvariant ==
  ASSUME DeskInv, NEW client \in Clients, NEW ticket \in NotifySupportTickets,
         SendTicket(client, ticket)
  PROVE  DeskInv'
<1> USE DEF None
<1>1. DeskTypeOK /\ Len(calls) < MaxCalls /\ UNCHANGED <<uploads, at_end>>
  BY DEF DeskInv, SendTicket, MayCall
<1>2. PICK step \in {"returned", "raised"}, id \in {<<>>, <<Len(tickets) + 1>>} :
        /\ SendCall(client, <<ticket>>, step, id)
        /\ \/ NewTicket(ticket) /\ step = "returned" /\ id # None
           \/ NewTicket(ticket) /\ step = "raised" /\ id = None
           \/ tickets' = tickets /\ id = None
  BY DEF SendTicket
<1>3. PICK call : call = [client |-> client, ticket |-> <<ticket>>, step |-> step, id |-> id,
                          comment |-> None, status |-> None, tokens |-> <<>>]
  OBVIOUS
<1>4. /\ call.client = client /\ call.ticket = <<ticket>> /\ call.step = step /\ call.id = id
      /\ call.comment = None /\ call.status = None /\ call.tokens = <<>>
  BY <1>3
<1>5. tickets \in Seq(Tickets) /\ Len(tickets) \in Nat
  BY <1>1 DEF DeskTypeOK
<1>6. call \in Calls
  <2>1. id \in Optional(Nat) /\ <<ticket>> \in Optional(NotifySupportTickets)
    BY <1>5 DEF Optional
  <2>2. None \in Optional(Comments) /\ None \in Optional(Status) /\ <<>> \in Seq(Nat)
    BY DEF Optional
  <2> QED BY <1>3, <2>1, <2>2 DEF Calls
<1>7. calls' = Append(calls, call)
  BY <1>2, <1>3 DEF SendCall
<1>8. ASSUME NewTicket(ticket)
      PROVE  /\ tickets' \in Seq(Tickets) /\ Len(tickets') = Len(tickets) + 1
             /\ DOMAIN tickets' = DOMAIN tickets \cup {Len(tickets) + 1}
             /\ \A jd \in DOMAIN tickets : tickets'[jd] = tickets[jd]
             /\ tickets'[Len(tickets) + 1].data = request_data(ticket)
             /\ tickets'[Len(tickets) + 1].comments = <<>>
  <2>1. PICK new : new = [data |-> request_data(ticket), status |-> New, comments |-> <<>>]
    OBVIOUS
  <2>2. new \in Tickets /\ new.data = request_data(ticket) /\ new.comments = <<>>
    BY <2>1 DEF Tickets
  <2>3. tickets' = Append(tickets, new)
    BY <1>8, <2>1 DEF NewTicket
  <2> QED BY <1>5, <2>2, <2>3
<1>9. TicketsKept
  BY <1>1, <1>2, <1>8, OldTicketsKept DEF TicketsKept
<1>10. /\ Kept
       /\ Len(calls') = Len(calls) + 1 /\ Len(calls') <= MaxCalls
       /\ DOMAIN calls' = DOMAIN calls \cup {Len(calls) + 1}
       /\ calls'[Len(calls) + 1] = call
       /\ \A n \in DOMAIN calls : n # Len(calls) + 1 /\ calls'[n] = calls[n]
       /\ TokensAreTheFiles' /\ ReadToTheEnd'
  BY <1>1, <1>4, <1>6, <1>7, Begun DEF DeskInv
<1>11. DeskTypeOK'
  <2>1. tickets' \in Seq(Tickets) /\ calls' \in Seq(Calls)
    BY <1>9, <1>10 DEF TicketsKept, Kept
  <2>2. \A jd \in DOMAIN tickets : jd \in DOMAIN tickets'
    BY <1>9 DEF TicketsKept
  <2>3. id # None => Head(id) \in DOMAIN tickets'
    BY <1>2, <1>8
  <2>4. \A n \in DOMAIN calls :
          /\ calls'[n].id # None => Head(calls'[n].id) \in DOMAIN tickets'
          /\ calls'[n].ticket = None => calls'[n].id # None
          /\ calls'[n].ticket # None =>
               calls'[n].step # "running" /\ calls'[n].comment = None /\ calls'[n].status = None
    BY <1>1, <1>10, <2>2 DEF DeskTypeOK, Running
  <2>5. uploads' \in Seq([file : UNION {ToSet(c) : c \in Comments}, whole : BOOLEAN, by : Nat])
    BY <1>1 DEF DeskTypeOK
  <2>6. call.ticket # None /\ call.step # "running"
    BY <1>2, <1>4
  <2>7. \A n \in DOMAIN calls' :
          /\ calls'[n].id # None => Head(calls'[n].id) \in DOMAIN tickets'
          /\ calls'[n].ticket = None => calls'[n].id # None
          /\ calls'[n].ticket # None =>
               calls'[n].step # "running" /\ calls'[n].comment = None /\ calls'[n].status = None
    BY <1>4, <1>10, <2>3, <2>4, <2>6
  <2> QED BY <1>10, <2>1, <2>5, <2>7 DEF DeskTypeOK, Running
<1>12. CommentsAreOfCalls' /\ CommentsAreOnce'
  BY <1>1, <1>9, <1>10, CommentsStay DEF DeskInv
<1>13. TicketsAreCounted'
  <2>1. \/ /\ call.ticket # None /\ call.id # None /\ call.step = "returned"
           /\ Len(tickets') = Len(tickets) + 1
        \/ /\ call.ticket # None /\ call.id = None /\ call.step = "raised"
           /\ Len(tickets') \in {Len(tickets), Len(tickets) + 1}
        \/ /\ call.ticket = None \/ (call.id = None /\ call.step = "returned")
           /\ tickets' = tickets
    BY <1>2, <1>4, <1>8
  <2>2. Len(tickets') \in Nat
    BY <1>5, <2>1
  <2>3. TicketsAreCounted
    BY DEF DeskInv
  <2> QED BY <1>1, <1>7, <1>10, <2>1, <2>2, <2>3, CountedWhenBegun
<1>14. DoneWhenReturned'
  <2>1. ASSUME NEW n \in DOMAIN calls, calls'[n].step = "returned"
        PROVE  Done(n)'
    BY <1>1, <1>9, <1>10, <2>1, StillDone DEF DeskInv, DoneWhenReturned
  <2>2. ASSUME call.step = "returned", NEW n, n = Len(calls) + 1
        PROVE  Done(n)'
    BY <1>2, <1>4, <1>8, <1>10, <2>2 DEF Done, TicketDone, CommentDone, StatusDone
  <2> QED BY <1>10, <2>1, <2>2 DEF DoneWhenReturned
<1> QED BY <1>10, <1>11, <1>12, <1>13, <1>14 DEF DeskInv

LEMMA UpdateTicketInvariant ==
  ASSUME DeskInv, NEW client \in Clients, NEW id \in DOMAIN tickets,
         NEW comment \in Optional(Comments), NEW status \in Optional(Status),
         UpdateTicket(client, id, comment, status)
  PROVE  DeskInv'
<1>1. /\ DeskTypeOK /\ Len(calls) < MaxCalls /\ tickets' = tickets
      /\ UNCHANGED <<uploads, at_end>>
  BY DEF DeskInv, UpdateTicket, MayCall
<1>2. PICK call : call = [client |-> client, ticket |-> None, step |-> "running", id |-> <<id>>,
                          comment |-> comment, status |-> status, tokens |-> <<>>]
  OBVIOUS
<1>3. /\ call.ticket = None /\ call.step = "running" /\ call.id = <<id>>
      /\ call.tokens = <<>>
  BY <1>2
<1>4. call \in Calls
  <2>1. <<id>> \in Optional(Nat) /\ None \in Optional(NotifySupportTickets) /\ <<>> \in Seq(Nat)
    BY <1>1 DEF Optional, DeskTypeOK
  <2> QED BY <1>2, <2>1 DEF Calls
<1>5. calls' = Append(calls, call)
  BY <1>2 DEF UpdateTicket
<1>6. TicketsKept
  BY <1>1, OldTicketsKept
<1>7. /\ Kept
      /\ Len(calls') = Len(calls) + 1 /\ Len(calls') <= MaxCalls
      /\ DOMAIN calls' = DOMAIN calls \cup {Len(calls) + 1}
      /\ calls'[Len(calls) + 1] = call
      /\ \A n \in DOMAIN calls : n # Len(calls) + 1 /\ calls'[n] = calls[n]
      /\ TokensAreTheFiles' /\ ReadToTheEnd'
  BY <1>1, <1>3, <1>4, <1>5, Begun DEF DeskInv
<1>8. DeskTypeOK'
  <2>1. calls' \in Seq(Calls)
    BY <1>7 DEF Kept
  <2>2. <<id>> # None /\ Head(<<id>>) \in DOMAIN tickets'
    BY <1>1 DEF None
  <2>3. \A n \in DOMAIN calls :
          /\ calls'[n].id # None => Head(calls'[n].id) \in DOMAIN tickets'
          /\ calls'[n].ticket = None => calls'[n].id # None
          /\ calls'[n].ticket # None =>
               calls'[n].step # "running" /\ calls'[n].comment = None /\ calls'[n].status = None
    BY <1>1, <1>7 DEF DeskTypeOK, Running
  <2> QED BY <1>1, <1>3, <1>7, <2>1, <2>2, <2>3 DEF DeskTypeOK, Running
<1>9. CommentsAreOfCalls' /\ CommentsAreOnce'
  BY <1>1, <1>6, <1>7, CommentsStay DEF DeskInv
<1>10. TicketsAreCounted'
  <2>1. Len(tickets') \in Nat /\ TicketsAreCounted
    BY <1>1 DEF DeskInv, DeskTypeOK
  <2> QED BY <1>1, <1>3, <1>5, <1>7, <2>1, CountedWhenBegun
<1>11. DoneWhenReturned'
  <2>1. ASSUME NEW n \in DOMAIN calls, calls'[n].step = "returned"
        PROVE  Done(n)'
    BY <1>1, <1>6, <1>7, <2>1, StillDone DEF DeskInv, DoneWhenReturned
  <2> QED BY <1>3, <1>7, <2>1 DEF DoneWhenReturned
<1> QED BY <1>7, <1>8, <1>9, <1>10, <1>11 DEF DeskInv

LEMMA Proceeded ==
  ASSUME DeskTypeOK, NEW n \in DOMAIN calls, Running(n), NEW call \in Calls, Proceed(n, call),
         call.ticket = calls[n].ticket, call.id = calls[n].id, call.comment = calls[n].comment,
         call.status = calls[n].status,
         \A k \in 1..Len(calls[n].tokens) :
           k \in 1..Len(call.tokens) /\ call.tokens[k] = calls[n].tokens[k],
         \A t \in DOMAIN uploads : t \in DOMAIN uploads' /\ uploads'[t] = uploads[t]
  PROVE  /\ Kept
         /\ DOMAIN calls' = DOMAIN calls /\ Len(calls') = Len(calls)
         /\ calls'[n] = call
         /\ \A m \in DOMAIN calls : m # n => calls'[m] = calls[m]
         /\ Made' = Made /\ Unheard' = Unheard
<1>1. calls \in Seq(Calls)
  BY DEF DeskTypeOK
<1>2. /\ calls' \in Seq(Calls) /\ DOMAIN calls' = DOMAIN calls /\ Len(calls') = Len(calls)
      /\ calls'[n] = call /\ \A m \in DOMAIN calls : m # n => calls'[m] = calls[m]
  BY <1>1 DEF Proceed
<1>3. Kept
  <2> SUFFICES ASSUME NEW m \in DOMAIN calls
               PROVE  /\ m \in DOMAIN calls'
                      /\ calls'[m].ticket = calls[m].ticket /\ calls'[m].id = calls[m].id
                      /\ calls'[m].comment = calls[m].comment
                      /\ calls'[m].status = calls[m].status
                      /\ \A k \in 1..Len(calls[m].tokens) :
                           /\ k \in 1..Len(calls'[m].tokens)
                           /\ calls'[m].tokens[k] = calls[m].tokens[k]
                      /\ ~Running(m) => calls'[m] = calls[m]
    BY <1>2 DEF Kept
  <2>1. CASE m = n
    BY <1>2, <2>1
  <2>2. CASE m # n
    <3>1. calls'[m] = calls[m]
      BY <1>2, <2>2
    <3> QED BY <1>2, <3>1
  <2> QED BY <2>1, <2>2
<1>4. Made' = Made /\ Unheard' = Unheard
  <2>1. calls[n].ticket = None /\ call.ticket = None
    BY DEF DeskTypeOK
  <2>2. \A m \in DOMAIN calls :
          /\ m \in Made' <=> m \in Made
          /\ m \in Unheard' <=> m \in Unheard
    BY <1>2, <2>1 DEF Made, Unheard
  <2> QED BY <1>2, <2>2 DEF Made, Unheard
<1> QED BY <1>2, <1>3, <1>4

(* The types hold after a step that keeps which calls and tickets there are. *)
LEMMA TypesProceed ==
  ASSUME DeskTypeOK, Kept, DOMAIN calls' = DOMAIN calls, Len(calls') = Len(calls),
         DOMAIN tickets' = DOMAIN tickets, tickets' \in Seq(Tickets),
         uploads' \in Seq([file : UNION {ToSet(c) : c \in Comments}, whole : BOOLEAN, by : Nat])
  PROVE  DeskTypeOK'
<1>1. \A n \in DOMAIN calls :
        /\ calls'[n].id # None => Head(calls'[n].id) \in DOMAIN tickets
        /\ calls'[n].ticket = None => calls'[n].id # None
        /\ calls'[n].ticket # None =>
             calls'[n].step # "running" /\ calls'[n].comment = None /\ calls'[n].status = None
  BY DEF Kept, DeskTypeOK, Running
<1>2. calls' \in Seq(Calls) /\ Len(calls') <= MaxCalls
  BY DEF Kept, DeskTypeOK
<1> QED BY <1>1, <1>2 DEF DeskTypeOK, Running

LEMMA UploadAttachmentInvariant ==
  ASSUME DeskInv, NEW n \in DOMAIN calls, UploadAttachment(n)
  PROVE  DeskInv'
<1> DEFINE Uploads == [file : UNION {ToSet(c) : c \in Comments}, whole : BOOLEAN, by : Nat]
<1>1. /\ DeskTypeOK /\ Running(n) /\ tickets' = tickets
      /\ Len(calls[n].tokens) < Len(Attachments(calls[n]))
  BY DEF DeskInv, UploadAttachment
<1>2. PICK file : file = NextFile(calls[n])
  OBVIOUS
<1>3. /\ \/ Keep(n, file) /\ Proceed(n, [calls[n] EXCEPT !.tokens = Append(@, Len(uploads) + 1)])
         \/ Keep(n, file) /\ Fails(n)
         \/ uploads' = uploads /\ Fails(n)
      /\ at_end' \in {at_end, at_end \cup {file}}
      /\ uploads' # uploads => file \in at_end'
  BY <1>2 DEF UploadAttachment, NotUploaded
<1>4. calls \in Seq(Calls) /\ calls[n] \in Calls /\ n \in Nat /\ uploads \in Seq(Uploads)
      /\ Len(uploads) \in Nat
  BY <1>1 DEF DeskTypeOK
<1>5. calls[n].tokens \in Seq(Nat) /\ Len(calls[n].tokens) \in Nat
  BY <1>4 DEF Calls
<1>6. Attachments(calls[n]) \in Seq(UNION {ToSet(c) : c \in Comments})
  BY <1>4, AttachmentsAreFiles
<1>7. /\ file = Attachments(calls[n])[Len(calls[n].tokens) + 1]
      /\ Len(calls[n].tokens) + 1 \in DOMAIN Attachments(calls[n])
      /\ file \in UNION {ToSet(c) : c \in Comments}
      /\ file \in ToSet(Attachments(calls[n]))
  <2>1. file = Attachments(calls[n])[Len(calls[n].tokens) + 1]
    BY <1>2 DEF NextFile
  <2>2. Len(calls[n].tokens) + 1 \in DOMAIN Attachments(calls[n])
    BY <1>1, <1>5, <1>6
  <2> QED BY <1>6, <2>1, <2>2 DEF ToSet
<1>8. ASSUME Keep(n, file)
      PROVE  /\ uploads' \in Seq(Uploads) /\ uploads' # uploads
             /\ DOMAIN uploads' = DOMAIN uploads \cup {Len(uploads) + 1}
             /\ \A t \in DOMAIN uploads : uploads'[t] = uploads[t]
             /\ uploads'[Len(uploads) + 1] = [file |-> file, whole |-> file \notin at_end, by |-> n]
  <2>1. PICK upload : upload = [file |-> file, whole |-> file \notin at_end, by |-> n]
    OBVIOUS
  <2>2. upload \in Uploads
    BY <1>4, <1>7, <2>1
  <2>3. uploads' = Append(uploads, upload)
    BY <1>8, <2>1 DEF Keep
  <2> HIDE DEF Uploads
  <2> QED BY <1>4, <2>1, <2>2, <2>3
<1>9. uploads' \in Seq(Uploads) /\ \A t \in DOMAIN uploads : t \in DOMAIN uploads' /\ uploads'[t] = uploads[t]
  BY <1>3, <1>4, <1>8
<1>10. PICK call \in Calls :
         /\ Proceed(n, call)
         /\ call.ticket = calls[n].ticket /\ call.id = calls[n].id
         /\ call.comment = calls[n].comment /\ call.status = calls[n].status
         /\ \/ /\ Keep(n, file)
               /\ call.step = "running" /\ call.tokens = Append(calls[n].tokens, Len(uploads) + 1)
            \/ call.step = "raised" /\ call.tokens = calls[n].tokens
  <2>1. CASE /\ Keep(n, file)
             /\ Proceed(n, [calls[n] EXCEPT !.tokens = Append(@, Len(uploads) + 1)])
    <3>1. Append(calls[n].tokens, Len(uploads) + 1) \in Seq(Nat)
      BY <1>4, <1>5
    <3>2. [calls[n] EXCEPT !.tokens = Append(@, Len(uploads) + 1)] \in Calls
      BY <1>4, <3>1 DEF Calls
    <3> QED BY <1>1, <1>4, <2>1, <3>2 DEF Calls, Running
  <2>2. CASE Fails(n)
    <3>1. [calls[n] EXCEPT !.step = "raised"] \in Calls
      BY <1>4 DEF Calls
    <3> QED BY <1>4, <2>2, <3>1 DEF Calls, Fails
  <2> QED BY <1>3, <2>1, <2>2
<1>11. \A k \in 1..Len(calls[n].tokens) : k \in 1..Len(call.tokens) /\ call.tokens[k] = calls[n].tokens[k]
  <2>1. PICK tokens \in Seq(Nat) : tokens = calls[n].tokens
    BY <1>5
  <2>2. \A e : \A k \in DOMAIN tokens : k \in DOMAIN Append(tokens, e) /\ Append(tokens, e)[k] = tokens[k]
    BY Sequences
  <2>3. DOMAIN tokens = 1..Len(tokens) /\ Len(call.tokens) \in Nat
         /\ DOMAIN call.tokens = 1..Len(call.tokens)
    <3>1. call.tokens \in Seq(Nat)
      BY <1>10 DEF Calls
    <3> QED BY <3>1, Sequences
  <2>4. call.tokens = tokens \/ call.tokens = Append(tokens, Len(uploads) + 1)
    BY <1>10, <2>1
  <2> QED BY <2>1, <2>2, <2>3, <2>4
<1>12. /\ Kept
       /\ DOMAIN calls' = DOMAIN calls /\ Len(calls') = Len(calls)
       /\ calls'[n] = call
       /\ \A m \in DOMAIN calls : m # n => calls'[m] = calls[m]
       /\ Made' = Made /\ Unheard' = Unheard
  <2> HIDE DEF Uploads
  <2> QED BY <1>1, <1>9, <1>10, <1>11, Proceeded
<1>13. TicketsKept
  BY <1>1, OldTicketsKept
<1>14. DeskTypeOK'
  <2>1. tickets' \in Seq(Tickets)
    BY <1>13 DEF TicketsKept
  <2> QED BY <1>1, <1>9, <1>12, <2>1, TypesProceed
<1>15. Attachments(calls'[n]) = Attachments(calls[n])
  BY <1>12, SameAttachments
<1>16. TokensAreTheFiles'
  <2>1. ASSUME NEW m \in DOMAIN calls
        PROVE  /\ Len(calls[m].tokens) <= Len(Attachments(calls[m]))
               /\ \A k \in 1..Len(calls[m].tokens) : Taken(m, k)'
    <3>1. /\ Len(calls[m].tokens) <= Len(Attachments(calls[m]))
          /\ \A k \in 1..Len(calls[m].tokens) : Taken(m, k)
      BY DEF DeskInv, TokensAreTheFiles
    <3> QED BY <1>1, <1>12, <3>1, StillTaken
  <2>2. ASSUME NEW k, k = Len(calls[n].tokens) + 1, Keep(n, file),
               call.tokens = Append(calls[n].tokens, Len(uploads) + 1)
        PROVE  Taken(n, k)'
    <3>1. calls'[n].tokens[k] = Len(uploads) + 1 /\ Len(uploads) + 1 \in DOMAIN uploads'
      BY <1>5, <1>8, <1>12, <2>2
    <3>2. /\ uploads'[Len(uploads) + 1].file = file /\ uploads'[Len(uploads) + 1].by = n
          /\ uploads'[Len(uploads) + 1].whole = (file \notin at_end)
      BY <1>8, <2>2
    <3>3. ASSUME file \in at_end
          PROVE  \/ \E l \in 1..k - 1 : Attachments(calls[n])[l] = file
                 \/ \E m \in 1..Len(calls') : m # n /\ file \in ToSet(Attachments(calls'[m]))
      <4>1. PICK m \in DOMAIN calls : ReadBy(m, file)
        BY <3>3 DEF DeskInv, ReadToTheEnd
      <4>2. CASE m = n
        <5>1. PICK l \in 1..Len(calls[n].tokens) : Attachments(calls[n])[l] = file
          BY <1>1, <4>1, <4>2 DEF ReadBy
        <5> QED BY <1>5, <2>2, <5>1
      <4>3. CASE m # n
        <5>1. Attachments(calls'[m]) = Attachments(calls[m]) /\ m \in 1..Len(calls')
          BY <1>12, <1>14, SameAttachments DEF DeskTypeOK
        <5>2. calls[m] \in Calls /\ Attachments(calls[m]) \in Seq(UNION {ToSet(c) : c \in Comments})
          BY <1>4, AttachmentsAreFiles
        <5>3. calls[m].tokens \in Seq(Nat) /\ Len(calls[m].tokens) <= Len(Attachments(calls[m]))
          BY <2>1, <5>2 DEF Calls
        <5>4. \A l \in 1..Len(calls[m].tokens) :
                Attachments(calls[m])[l] \in ToSet(Attachments(calls[m]))
          BY <5>2, <5>3 DEF ToSet
        <5> QED BY <4>1, <4>3, <5>1, <5>4 DEF ReadBy
      <4> QED BY <4>2, <4>3
    <3>4. file = Attachments(calls'[n])[k]
      BY <1>7, <1>15, <2>2
    <3> QED BY <1>15, <3>1, <3>2, <3>3, <3>4 DEF Taken
  <2>3. ASSUME NEW k \in 1..Len(call.tokens) PROVE Taken(n, k)'
    <3>1. CASE call.tokens = calls[n].tokens
      BY <2>1, <3>1
    <3>2. CASE Keep(n, file) /\ call.tokens = Append(calls[n].tokens, Len(uploads) + 1)
      <4>1. k \in 1..Len(calls[n].tokens) \/ k = Len(calls[n].tokens) + 1
        BY <1>5, <3>2
      <4> QED BY <2>1, <2>2, <3>2, <4>1
    <3> QED BY <1>10, <3>1, <3>2
  <2>4. Len(call.tokens) <= Len(Attachments(calls[n]))
    <3>1. Len(Attachments(calls[n])) \in Nat
      BY <1>6
    <3> QED BY <1>1, <1>5, <1>10, <3>1
  <2>5. ASSUME NEW m \in DOMAIN calls'
        PROVE  /\ Len(calls'[m].tokens) <= Len(Attachments(calls'[m]))
               /\ \A k \in 1..Len(calls'[m].tokens) : Taken(m, k)'
    <3>1. CASE m = n
      BY <1>12, <1>15, <2>3, <2>4, <3>1
    <3>2. CASE m # n
      BY <1>12, <2>1, <3>2
    <3> QED BY <3>1, <3>2
  <2> QED BY <2>5 DEF TokensAreTheFiles
<1>17. ReadToTheEnd'
  <2>1. ReadBy(n, file)'
    <3>1. CASE call.step = "raised"
      BY <1>7, <1>12, <1>15, <3>1 DEF ReadBy, Running
    <3>2. CASE call.tokens = Append(calls[n].tokens, Len(uploads) + 1)
      <4>1. Len(calls[n].tokens) + 1 \in 1..Len(calls'[n].tokens)
        BY <1>5, <1>12, <3>2
      <4> QED BY <1>7, <1>15, <4>1 DEF ReadBy
    <3> QED BY <1>10, <3>1, <3>2
  <2>2. \A other \in at_end : \E m \in DOMAIN calls : ReadBy(m, other)'
    BY <1>1, <1>12, StillRead DEF DeskInv, ReadToTheEnd
  <2> QED BY <1>3, <1>12, <2>1, <2>2 DEF ReadToTheEnd
<1>18. CommentsAreOfCalls' /\ CommentsAreOnce'
  BY <1>1, <1>12, <1>13, CommentsStay DEF DeskInv
<1>19. TicketsAreCounted'
  BY <1>1, <1>12 DEF DeskInv, TicketsAreCounted
<1>20. DoneWhenReturned'
  <2>1. call.step # "returned"
    BY <1>10
  <2>2. ASSUME NEW m \in DOMAIN calls, calls'[m].step = "returned" PROVE Done(m)'
    <3>1. m # n /\ calls[m].step = "returned"
      BY <1>12, <2>1, <2>2
    <3> QED BY <1>1, <1>12, <1>13, <2>2, <3>1, StillDone DEF DeskInv, DoneWhenReturned
  <2> QED BY <1>12, <2>2 DEF DoneWhenReturned
<1> QED BY <1>14, <1>16, <1>17, <1>18, <1>19, <1>20 DEF DeskInv

(* What acting upon an update leaves of the tickets.                       *)
LEMMA Acted ==
  ASSUME DeskTypeOK, NEW n \in DOMAIN calls, Act(n), NEW id \in DOMAIN tickets,
         calls[n].id = <<id>>
  PROVE  /\ tickets' \in Seq(Tickets) /\ DOMAIN tickets' = DOMAIN tickets
         /\ Len(tickets') = Len(tickets)
         /\ \A jd \in DOMAIN tickets : jd # id => tickets'[jd] = tickets[jd]
         /\ tickets'[id].data = tickets[id].data
         /\ IF calls[n].comment = None THEN tickets'[id].comments = tickets[id].comments
            ELSE tickets'[id].comments =
                   Append(tickets[id].comments, [by |-> n, uploads |-> calls[n].tokens])
         /\ IF calls[n].status = None THEN tickets'[id].status = tickets[id].status
            ELSE calls[n].status = <<tickets'[id].status>>
<1>1. calls[n] \in Calls /\ n \in Nat /\ tickets \in Seq(Tickets) /\ tickets[id] \in Tickets
  BY DEF DeskTypeOK
<1>2. /\ calls[n].tokens \in Seq(Nat)
      /\ tickets[id].comments \in Seq([by : Nat, uploads : Seq(Nat)])
      /\ tickets[id].status \in Status \cup {New}
      /\ tickets[id].data \in {request_data(ticket) : ticket \in NotifySupportTickets}
  BY <1>1 DEF Calls, Tickets
<1>3. calls[n].status # None =>
        Head(calls[n].status) \in Status /\ calls[n].status = <<Head(calls[n].status)>>
  BY <1>1 DEF Calls, Optional
<1>4. PICK new : new = [by |-> n, uploads |-> calls[n].tokens]
  OBVIOUS
<1>5. new \in [by : Nat, uploads : Seq(Nat)]
  BY <1>1, <1>2, <1>4
<1>6. PICK comments \in Seq([by : Nat, uploads : Seq(Nat)]) :
        comments = IF calls[n].comment = None THEN tickets[id].comments
                   ELSE Append(tickets[id].comments, new)
  <2>1. Append(tickets[id].comments, new) \in Seq([by : Nat, uploads : Seq(Nat)])
    BY <1>2, <1>5
  <2> QED BY <1>2, <2>1
<1>7. PICK commented :
        commented = IF calls[n].comment = None THEN tickets[id]
                    ELSE [tickets[id] EXCEPT !.comments = Append(@, new)]
  OBVIOUS
<1>8. /\ commented \in Tickets /\ commented.comments = comments
      /\ commented.data = tickets[id].data /\ commented.status = tickets[id].status
  BY <1>1, <1>2, <1>6, <1>7 DEF Tickets
<1>9. PICK ticket : ticket = Updated(tickets[id], n)
  OBVIOUS
<1>10. ticket = IF calls[n].status = None THEN commented
                ELSE [commented EXCEPT !.status = Head(calls[n].status)]
  BY <1>4, <1>7, <1>9 DEF Updated
<1>11. /\ ticket \in Tickets /\ ticket.comments = comments /\ ticket.data = tickets[id].data
       /\ ticket.status = IF calls[n].status = None THEN tickets[id].status
                          ELSE Head(calls[n].status)
  BY <1>3, <1>8, <1>10 DEF Tickets
<1>12. tickets' = [tickets EXCEPT ![id] = ticket]
  BY <1>9 DEF Act
<1>13. /\ tickets' \in Seq(Tickets) /\ DOMAIN tickets' = DOMAIN tickets
       /\ Len(tickets') = Len(tickets) /\ tickets'[id] = ticket
       /\ \A jd \in DOMAIN tickets : jd # id => tickets'[jd] = tickets[jd]
  BY <1>1, <1>11, <1>12
<1> QED BY <1>3, <1>4, <1>6, <1>11, <1>13

LEMMA ActedComments ==
  ASSUME DeskInv, Kept, DOMAIN calls' = DOMAIN calls, NEW n \in DOMAIN calls, Running(n),
         ~Running(n)', calls'[n].tokens = calls[n].tokens,
         Len(calls[n].tokens) = Len(Attachments(calls[n])), Act(n), NEW id \in DOMAIN tickets,
         calls[n].id = <<id>>
  PROVE  CommentsAreOfCalls' /\ CommentsAreOnce'
<1>1. DeskTypeOK
  BY DEF DeskInv
<1>2. /\ tickets' \in Seq(Tickets) /\ DOMAIN tickets' = DOMAIN tickets
      /\ \A jd \in DOMAIN tickets : jd # id => tickets'[jd] = tickets[jd]
      /\ IF calls[n].comment = None THEN tickets'[id].comments = tickets[id].comments
         ELSE tickets'[id].comments =
                Append(tickets[id].comments, [by |-> n, uploads |-> calls[n].tokens])
  BY <1>1, Acted
<1>3. PICK new : new = [by |-> n, uploads |-> calls[n].tokens]
  OBVIOUS
<1>4. PICK next : next = Len(tickets[id].comments) + 1
  OBVIOUS
<1>5. tickets[id].comments \in Seq([by : Nat, uploads : Seq(Nat)])
  <2>1. tickets[id] \in Tickets
    BY <1>1 DEF DeskTypeOK
  <2> QED BY <2>1 DEF Tickets
<1>6. ASSUME NEW jd \in DOMAIN tickets', NEW m \in DOMAIN tickets'[jd].comments
      PROVE  \/ /\ jd \in DOMAIN tickets /\ m \in DOMAIN tickets[jd].comments
                /\ tickets'[jd].comments[m] = tickets[jd].comments[m]
             \/ /\ jd = id /\ m = next /\ tickets'[jd].comments[m] = new
                /\ calls[n].comment # None
  <2>1. CASE jd # id
    BY <1>2, <1>6, <2>1
  <2>2. CASE jd = id /\ calls[n].comment = None
    BY <1>2, <1>6, <2>2
  <2>3. CASE jd = id /\ calls[n].comment # None
    <3>1. tickets'[id].comments = Append(tickets[id].comments, new)
      BY <1>2, <1>3, <2>3
    <3>2. m \in 1..Len(tickets[id].comments) \/ m = next
      BY <1>4, <1>5, <1>6, <2>3, <3>1
    <3> QED BY <1>2, <1>4, <1>5, <1>6, <2>3, <3>1, <3>2
  <2> QED BY <2>1, <2>2, <2>3
<1>7. ASSUME calls[n].comment # None PROVE Commented(id, new)'
  <2>1. /\ n \in DOMAIN calls' /\ calls'[n].comment # None /\ calls'[n].id = <<id>>
        /\ Attachments(calls'[n]) = Attachments(calls[n])
    BY <1>7, SameAttachments DEF Kept
  <2>2. new.by = n /\ new.uploads = calls[n].tokens
    BY <1>3
  <2> QED BY <2>1, <2>2 DEF Commented
<1>8. ASSUME NEW jd \in DOMAIN tickets, NEW m \in DOMAIN tickets[jd].comments
      PROVE  /\ tickets[jd].comments[m].by # n
             /\ \A comment : comment = tickets[jd].comments[m] => Commented(jd, comment)'
  <2>1. Commented(jd, tickets[jd].comments[m])
    BY DEF DeskInv, CommentsAreOfCalls
  <2>2. ASSUME NEW comment, comment = tickets[jd].comments[m] PROVE Commented(jd, comment)'
    BY <1>1, <2>1, <2>2, StillCommented
  <2>3. tickets[jd].comments[m].by # n
    BY <2>1 DEF Commented
  <2> QED BY <2>2, <2>3
<1>9. CommentsAreOfCalls'
  <2> SUFFICES ASSUME NEW jd \in DOMAIN tickets', NEW m \in DOMAIN tickets'[jd].comments
               PROVE  Commented(jd, tickets[jd].comments[m])'
    BY DEF CommentsAreOfCalls
  <2>1. PICK comment : comment = tickets'[jd].comments[m]
    OBVIOUS
  <2>2. Commented(jd, comment)'
    BY <1>6, <1>7, <1>8, <2>1
  <2> QED BY <2>1, <2>2
<1>10. CommentsAreOnce'
  <2> SUFFICES ASSUME NEW jd \in DOMAIN tickets', NEW kd \in DOMAIN tickets',
                      NEW m \in DOMAIN tickets'[jd].comments,
                      NEW l \in DOMAIN tickets'[kd].comments,
                      tickets'[jd].comments[m].by = tickets'[kd].comments[l].by
               PROVE  jd = kd /\ m = l
    BY DEF CommentsAreOnce
  <2>1. new.by = n
    BY <1>3
  <2>2. CASE /\ jd \in DOMAIN tickets /\ m \in DOMAIN tickets[jd].comments
             /\ tickets'[jd].comments[m] = tickets[jd].comments[m]
    <3>1. tickets[jd].comments[m].by # n
      BY <1>8, <2>2
    <3>2. /\ kd \in DOMAIN tickets /\ l \in DOMAIN tickets[kd].comments
          /\ tickets'[kd].comments[l] = tickets[kd].comments[l]
      BY <1>6, <2>1, <2>2, <3>1
    <3> QED BY <2>2, <3>2 DEF DeskInv, CommentsAreOnce
  <2>3. CASE jd = id /\ m = next /\ tickets'[jd].comments[m] = new
    BY <1>6, <1>8, <2>1, <2>3
  <2> QED BY <1>6, <2>2, <2>3
<1> QED BY <1>9, <1>10

LEMMA PutInvariant ==
  ASSUME DeskInv, NEW n \in DOMAIN calls, Put(n)
  PROVE  DeskInv'
<1>1. /\ DeskTypeOK /\ Running(n) /\ uploads' = uploads /\ at_end' = at_end
      /\ Len(calls[n].tokens) = Len(Attachments(calls[n]))
  BY DEF DeskInv, Put
<1>2. calls[n] \in Calls /\ n \in Nat
  BY <1>1 DEF DeskTypeOK
<1>3. PICK call \in Calls :
        /\ Proceed(n, call)
        /\ call.ticket = calls[n].ticket /\ call.id = calls[n].id
        /\ call.comment = calls[n].comment /\ call.status = calls[n].status
        /\ call.tokens = calls[n].tokens
        /\ \/ Act(n) /\ call.step \in {"returned", "raised"}
           \/ tickets' = tickets /\ call.step = "raised"
  <2>1. PICK step \in {"returned", "raised"} :
          /\ Proceed(n, [calls[n] EXCEPT !.step = step])
          /\ Act(n) \/ (tickets' = tickets /\ step = "raised")
    BY DEF Put, Fails, NotPut
  <2>2. [calls[n] EXCEPT !.step = step] \in Calls
    BY <1>2 DEF Calls
  <2> QED BY <1>2, <2>1, <2>2 DEF Calls
<1>4. /\ Kept
      /\ DOMAIN calls' = DOMAIN calls /\ Len(calls') = Len(calls)
      /\ calls'[n] = call
      /\ \A m \in DOMAIN calls : m # n => calls'[m] = calls[m]
      /\ Made' = Made /\ Unheard' = Unheard
  <2>1. \A k \in 1..Len(calls[n].tokens) :
          k \in 1..Len(call.tokens) /\ call.tokens[k] = calls[n].tokens[k]
    BY <1>3
  <2>2. \A t \in DOMAIN uploads : t \in DOMAIN uploads' /\ uploads'[t] = uploads[t]
    BY <1>1
  <2> QED BY <1>1, <1>3, <2>1, <2>2, Proceeded
<1>5. PICK id \in DOMAIN tickets : calls[n].id = <<id>>
  <2>1. calls[n].id # None /\ Head(calls[n].id) \in DOMAIN tickets
    BY <1>1 DEF DeskTypeOK
  <2> QED BY <1>2, <2>1 DEF Calls, Optional
<1>6. /\ tickets' \in Seq(Tickets) /\ DOMAIN tickets' = DOMAIN tickets
      /\ Len(tickets') = Len(tickets)
  BY <1>1, <1>3, <1>5, Acted DEF DeskTypeOK
<1>7. DeskTypeOK'
  BY <1>1, <1>4, <1>6, TypesProceed DEF DeskTypeOK
<1>8. TokensAreTheFiles'
  <2> SUFFICES ASSUME NEW m \in DOMAIN calls
               PROVE  /\ Len(calls'[m].tokens) <= Len(Attachments(calls'[m]))
                      /\ \A k \in 1..Len(calls'[m].tokens) : Taken(m, k)'
    BY <1>4 DEF TokensAreTheFiles
  <2>1. calls'[m].tokens = calls[m].tokens
    BY <1>3, <1>4
  <2>2. Attachments(calls'[m]) = Attachments(calls[m])
    BY <1>4, SameAttachments
  <2>3. /\ Len(calls[m].tokens) <= Len(Attachments(calls[m]))
        /\ \A k \in 1..Len(calls[m].tokens) : Taken(m, k)
    BY DEF DeskInv, TokensAreTheFiles
  <2>4. \A k \in 1..Len(calls[m].tokens) : Taken(m, k)'
    BY <1>1, <1>4, <2>3, StillTaken
  <2> QED BY <2>1, <2>2, <2>3, <2>4
<1>9. ReadToTheEnd'
  BY <1>1, <1>4, StillRead DEF DeskInv, ReadToTheEnd
<1>10. CommentsAreOfCalls' /\ CommentsAreOnce'
  <2>1. CASE Act(n)
    BY <1>1, <1>3, <1>4, <1>5, <2>1, ActedComments DEF Running
  <2>2. CASE tickets' = tickets
    BY <1>1, <1>4, <2>2, OldTicketsKept, CommentsStay DEF DeskInv
  <2> QED BY <1>3, <2>1, <2>2
<1>11. TicketsAreCounted'
  BY <1>4, <1>6 DEF DeskInv, TicketsAreCounted
<1>12. DoneWhenReturned'
  <2> SUFFICES ASSUME NEW m \in DOMAIN calls, calls'[m].step = "returned" PROVE Done(m)'
    BY <1>4 DEF DoneWhenReturned
  <2>1. CASE ~Act(n)
    <3>1. m # n /\ calls[m].step = "returned" /\ tickets' = tickets
      BY <1>3, <1>4, <2>1
    <3> QED BY <1>1, <1>4, <3>1, OldTicketsKept, StillDone DEF DeskInv, DoneWhenReturned
  <2>2. CASE Act(n)
    <3>1. /\ \A jd \in DOMAIN tickets : jd # id => tickets'[jd] = tickets[jd]
          /\ tickets'[id].data = tickets[id].data
          /\ IF calls[n].comment = None THEN tickets'[id].comments = tickets[id].comments
             ELSE tickets'[id].comments =
                    Append(tickets[id].comments, [by |-> n, uploads |-> calls[n].tokens])
          /\ IF calls[n].status = None THEN tickets'[id].status = tickets[id].status
             ELSE calls[n].status = <<tickets'[id].status>>
      BY <1>1, <1>5, <2>2, Acted
    <3>2. tickets[id].comments \in Seq([by : Nat, uploads : Seq(Nat)])
      <4>1. tickets[id] \in Tickets
        BY <1>1 DEF DeskTypeOK
      <4> QED BY <4>1 DEF Tickets
    <3>3. ASSUME NEW l \in DOMAIN tickets[id].comments
          PROVE  l \in DOMAIN tickets'[id].comments /\ tickets'[id].comments[l] = tickets[id].comments[l]
      <4>1. PICK new : new = [by |-> n, uploads |-> calls[n].tokens]
        OBVIOUS
      <4>2. IF calls[n].comment = None THEN tickets'[id].comments = tickets[id].comments
            ELSE tickets'[id].comments = Append(tickets[id].comments, new)
        BY <3>1, <4>1
      <4>3. PICK comments : comments = tickets[id].comments
        OBVIOUS
      <4>4. l \in DOMAIN Append(comments, new) /\ Append(comments, new)[l] = comments[l]
        BY <3>2, <4>3, Sequences
      <4> QED BY <4>2, <4>3, <4>4
    <3>4. CASE m = n
      <4>1. calls'[n].ticket = None /\ calls'[n].id = <<id>> /\ Head(calls'[n].id) = id
        BY <1>1, <1>3, <1>4, <1>5 DEF DeskTypeOK
      <4>2. TicketDone(calls[n])'
        BY <4>1 DEF TicketDone
      <4>3. CommentDone(n)'
        <5>1. CASE calls'[n].comment # None
          <6>1. PICK new : new = [by |-> n, uploads |-> calls[n].tokens]
            OBVIOUS
          <6>2. new.by = n
            BY <6>1
          <6>3. tickets'[id].comments = Append(tickets[id].comments, new)
            BY <1>3, <1>4, <3>1, <5>1, <6>1
          <6>4. /\ Len(tickets[id].comments) + 1 \in DOMAIN tickets'[id].comments
                /\ tickets'[id].comments[Len(tickets[id].comments) + 1] = new
            BY <3>2, <6>3
          <6> QED BY <4>1, <6>2, <6>4 DEF CommentDone
        <5> QED BY <5>1 DEF CommentDone
      <4>4. StatusDone(n)'
        BY <1>3, <1>4, <3>1, <4>1 DEF StatusDone
      <4> QED BY <3>4, <4>2, <4>3, <4>4 DEF Done
    <3>5. CASE m # n
      <4>1. calls'[m] = calls[m] /\ Done(m)
        BY <1>4, <3>5 DEF DeskInv, DoneWhenReturned
      <4>2. calls[m].id # None => Head(calls[m].id) \in DOMAIN tickets
        BY <1>1 DEF DeskTypeOK
      <4>3. /\ calls[m].ticket = None => calls[m].id # None
            /\ calls[m].ticket # None => calls[m].comment = None /\ calls[m].status = None
        BY <1>1 DEF DeskTypeOK
      <4>4. TicketDone(calls[m])'
        BY <3>1, <4>1, <4>2 DEF Done, TicketDone
      <4>5. CommentDone(m)'
        BY <3>1, <3>3, <4>1, <4>2, <4>3 DEF Done, CommentDone
      <4>6. StatusDone(m)'
        <5>1. CASE calls[m].id = <<id>> /\ calls[n].status # None
          <6>1. Head(calls[m].id) = id /\ calls'[n].id = calls'[m].id
            BY <1>3, <1>4, <1>5, <4>1, <5>1
          <6>2. calls'[n].status = <<tickets'[id].status>>
            BY <1>3, <1>4, <3>1, <5>1
          <6> QED BY <1>4, <3>5, <4>1, <6>1, <6>2 DEF StatusDone
        <5>2. CASE calls[m].id # <<id>> \/ calls[n].status = None
          <6>1. calls[m].status # None =>
                  tickets'[Head(calls[m].id)].status = tickets[Head(calls[m].id)].status
            <7>1. calls[m] \in Calls
              BY <1>1 DEF DeskTypeOK
            <7>2. calls[m].id # None => calls[m].id = <<Head(calls[m].id)>>
              BY <7>1 DEF Calls, Optional
            <7> QED BY <3>1, <4>2, <4>3, <5>2, <7>2
          <6>2. \A l \in DOMAIN calls : calls'[l].id = calls[l].id /\ calls'[l].status = calls[l].status
            BY <1>4 DEF Kept
          <6> QED BY <1>4, <4>1, <6>1, <6>2 DEF Done, StatusDone
        <5> QED BY <5>1, <5>2
      <4> QED BY <4>4, <4>5, <4>6 DEF Done
    <3> QED BY <3>4, <3>5
  <2> QED BY <2>1, <2>2
<1> QED BY <1>7, <1>8, <1>9, <1>10, <1>11, <1>12 DEF DeskInv

LEMMA DeskInitInvariant == ZendeskInit => DeskInv
<1> SUFFICES ASSUME ZendeskInit PROVE DeskInv
  OBVIOUS
<1>1. tickets = <<>> /\ uploads = <<>> /\ calls = <<>> /\ at_end = {}
  BY DEF ZendeskInit
<1>2. DeskTypeOK
  BY <1>1, ZendeskAssumption DEF DeskTypeOK
<1>3. Made = {} /\ Unheard = {}
  BY <1>1 DEF Made, Unheard
<1>4. TicketsAreCounted
  BY <1>1, <1>3, FS_EmptySet DEF TicketsAreCounted
<1> QED BY <1>1, <1>2, <1>4 DEF DeskInv, TokensAreTheFiles, ReadToTheEnd, CommentsAreOfCalls,
         CommentsAreOnce, DoneWhenReturned

LEMMA DeskRests ==
  ASSUME DeskInv, UNCHANGED zendesk_vars
  PROVE  DeskInv'
<1>1. tickets' = tickets /\ uploads' = uploads /\ calls' = calls /\ at_end' = at_end
  BY DEF zendesk_vars
<1>2. DeskTypeOK' /\ TicketsAreCounted'
  BY <1>1 DEF DeskInv, DeskTypeOK, TicketsAreCounted, Made, Unheard, Running
<1>3. TokensAreTheFiles' /\ ReadToTheEnd'
  BY <1>1 DEF DeskInv, TokensAreTheFiles, Taken, ReadToTheEnd, ReadBy, Running
<1>4. CommentsAreOfCalls' /\ CommentsAreOnce'
  BY <1>1 DEF DeskInv, CommentsAreOfCalls, Commented, Running, CommentsAreOnce
<1>5. DoneWhenReturned'
  BY <1>1 DEF DeskInv, DoneWhenReturned, Done, TicketDone, CommentDone, StatusDone
<1> QED BY <1>2, <1>3, <1>4, <1>5 DEF DeskInv

LEMMA DeskStepInvariant == DeskInv /\ [ZendeskNext]_zendesk_vars => DeskInv'
<1> SUFFICES ASSUME DeskInv, [ZendeskNext]_zendesk_vars PROVE DeskInv'
  OBVIOUS
<1>1. CASE UNCHANGED zendesk_vars
  BY <1>1, DeskRests
<1>2. CASE \E client \in Clients, ticket \in NotifySupportTickets : SendTicket(client, ticket)
  BY <1>2, SendTicketInvariant
<1>3. CASE \E client \in Clients, id \in DOMAIN tickets :
             \E comment \in {None} \cup {<<c>> : c \in Comments},
                status \in {None} \cup {<<s>> : s \in Status} :
               UpdateTicket(client, id, comment, status)
  BY <1>3, UpdateTicketInvariant DEF Optional
<1>4. CASE \E n \in DOMAIN calls : UploadAttachment(n) \/ Put(n)
  BY <1>4, UploadAttachmentInvariant, PutInvariant
<1> QED BY <1>1, <1>2, <1>3, <1>4 DEF ZendeskNext, Resting

THEOREM DeskInductive == ZendeskSpec => []DeskInv
BY DeskInitInvariant, DeskStepInvariant, PTL DEF ZendeskSpec

(* Calls, tickets and uploads have the types stated, and calls only name   *)
(* tickets that there are.                                                 *)
THEOREM DeskTypes == ZendeskSpec => []DeskTypeOK
<1>1. DeskInv => DeskTypeOK
  BY DEF DeskInv
<1> QED BY <1>1, DeskInductive, PTL

Carries(comment, asked) ==
  /\ [k \in DOMAIN comment.uploads |-> uploads[comment.uploads[k]].file] = asked
  /\ \A k \in DOMAIN comment.uploads :
       LET upload == uploads[comment.uploads[k]]
       IN /\ upload.by = comment.by
          /\ \/ upload.whole
             \/ \E l \in 1..k - 1 : asked[l] = upload.file
             \/ \E n \in 1..Len(calls) :
                  n # comment.by /\ upload.file \in ToSet(Attachments(calls[n]))

(* A comment carries all attachments of its call in their order, whole     *)
(* unless the file had been read before.                                   *)
THEOREM CommentsAlwaysCarryTheirFiles == ZendeskSpec => []CommentsCarryTheirFiles
<1>1. DeskInv => CommentsCarryTheirFiles
  <2> SUFFICES ASSUME DeskInv, NEW id \in DOMAIN tickets, NEW m \in DOMAIN tickets[id].comments
               PROVE  Carries(tickets[id].comments[m],
                              Head(calls[tickets[id].comments[m].by].comment))
    BY Zenon DEF CommentsCarryTheirFiles, Carries
  <2>0. PICK comment, asked : /\ comment = tickets[id].comments[m]
                              /\ asked = Head(calls[comment.by].comment)
    OBVIOUS
  <2>1. Commented(id, comment)
    BY <2>0 DEF DeskInv, CommentsAreOfCalls
  <2>2. PICK n \in DOMAIN calls : n = comment.by
    BY <2>1 DEF Commented
  <2>3. /\ calls[n].comment # None /\ comment.uploads = calls[n].tokens
        /\ Len(calls[n].tokens) = Len(Attachments(calls[n]))
    BY <2>1, <2>2 DEF Commented
  <2>4. asked = Attachments(calls[n])
    BY <2>0, <2>2, <2>3 DEF Attachments
  <2>5. calls[n] \in Calls
    BY DEF DeskInv, DeskTypeOK
  <2>6. asked \in Seq(UNION {ToSet(c) : c \in Comments}) /\ calls[n].tokens \in Seq(Nat)
    BY <2>4, <2>5, AttachmentsAreFiles DEF Calls
  <2>7. DOMAIN comment.uploads = 1..Len(asked) /\ DOMAIN asked = 1..Len(asked)
    BY <2>3, <2>4, <2>6
  <2>8. \A k \in 1..Len(asked) : Taken(n, k)
    BY <2>3, <2>4 DEF DeskInv, TokensAreTheFiles
  <2>9. \A k \in 1..Len(asked) : uploads[comment.uploads[k]].file = asked[k]
    BY <2>3, <2>4, <2>8 DEF Taken
  <2>10. [k \in DOMAIN comment.uploads |-> uploads[comment.uploads[k]].file] = asked
    <3>1. PICK g : g = [k \in 1..Len(asked) |-> uploads[comment.uploads[k]].file]
      OBVIOUS
    <3>2. [k \in DOMAIN comment.uploads |-> uploads[comment.uploads[k]].file] = g
      BY <2>7, <3>1
    <3>3. g = [k \in 1..Len(asked) |-> asked[k]]
      BY <2>9, <3>1
    <3>4. asked = [k \in 1..Len(asked) |-> asked[k]]
      BY <2>6, Sequences
    <3> QED BY <3>2, <3>3, <3>4
  <2>11. ASSUME NEW k \in DOMAIN comment.uploads, NEW upload, upload = uploads[comment.uploads[k]]
         PROVE  /\ upload.by = comment.by
                /\ \/ upload.whole
                   \/ \E l \in 1..k - 1 : asked[l] = upload.file
                   \/ \E c \in 1..Len(calls) :
                        c # comment.by /\ upload.file \in ToSet(Attachments(calls[c]))
    BY <2>2, <2>3, <2>4, <2>7, <2>8, <2>11 DEF Taken
  <2>12. Carries(comment, asked)
    BY <2>10, <2>11, Zenon DEF Carries
  <2> QED BY <2>0, <2>12
<1> QED BY <1>1, DeskInductive, PTL

(* The comments of a ticket are of different calls, so they are no more    *)
(* than the calls are.                                                     *)
LEMMA CommentsAreFewerThanCalls ==
  ASSUME DeskInv, NEW id \in DOMAIN tickets
  PROVE  DOMAIN tickets[id].comments \subseteq 1..MaxCalls
<1>1. tickets[id].comments \in Seq([by : Nat, uploads : Seq(Nat)])
  <2>1. tickets[id] \in Tickets
    BY DEF DeskInv, DeskTypeOK
  <2> QED BY <2>1 DEF Tickets
<1>2. DOMAIN calls = 1..Len(calls) /\ Len(calls) \in Nat /\ Len(calls) <= MaxCalls
  BY DEF DeskInv, DeskTypeOK
<1>3. PICK last \in Nat : last = Len(tickets[id].comments) /\ DOMAIN tickets[id].comments = 1..last
  <2>1. PICK comments \in Seq([by : Nat, uploads : Seq(Nat)]) : comments = tickets[id].comments
    BY <1>1
  <2>2. Len(comments) \in Nat /\ DOMAIN comments = 1..Len(comments)
    BY Sequences
  <2> QED BY <2>1, <2>2
<1>4. PICK f : f = [m \in 1..last |-> tickets[id].comments[m].by]
  OBVIOUS
<1>5. \A m \in 1..last : f[m] \in 1..Len(calls)
  <2>1. \A m \in 1..last : Commented(id, tickets[id].comments[m])
    BY <1>3 DEF DeskInv, CommentsAreOfCalls
  <2> QED BY <1>2, <1>4, <2>1 DEF Commented
<1>6. \A m, l \in 1..last : f[m] = f[l] => m = l
  BY <1>3, <1>4 DEF DeskInv, CommentsAreOnce
<1>7. f \in Injection(1..last, 1..Len(calls))
  BY <1>4, <1>5, <1>6 DEF Injection, IsInjective
<1>8. Cardinality(1..last) <= Cardinality(1..Len(calls))
  BY <1>2, <1>7, FS_Injection, FS_Interval
<1>9. \A k \in Nat : Cardinality(1..k) = k
  <2> SUFFICES ASSUME NEW k \in Nat PROVE Cardinality(1..k) = k
    OBVIOUS
  <2>1. Cardinality(1..k) = IF 1 > k THEN 0 ELSE k - 1 + 1
    BY FS_Interval
  <2> QED BY <2>1
<1> QED BY <1>2, <1>3, <1>8, <1>9, ZendeskAssumption

(* A call that has returned has done what it was asked for, once.          *)
THEOREM ReturnedAlwaysMeansDone == ZendeskSpec => []ReturnedMeansDone
<1>1. ASSUME DeskInv, NEW n \in DOMAIN calls
      PROVE  Cardinality(CommentsBy(n)) <= 1
  <2>1. ASSUME NEW p \in CommentsBy(n), NEW q \in CommentsBy(n) PROVE p = q
    BY <1>1 DEF CommentsBy, DeskInv, CommentsAreOnce
  <2>2. CASE CommentsBy(n) = {}
    BY <2>2, FS_EmptySet
  <2>3. CASE CommentsBy(n) # {}
    <3>1. PICK p : CommentsBy(n) = {p}
      BY <2>1, <2>3
    <3> QED BY <3>1, FS_Singleton
  <2> QED BY <2>2, <2>3
<1>2. ASSUME DeskInv, NEW n \in DOMAIN calls, calls[n].step = "returned",
             calls[n].comment # None
      PROVE  \E place \in CommentsBy(n) : place[1] = Head(calls[n].id)
  <2>1. Head(calls[n].id) \in DOMAIN tickets
    BY <1>2 DEF DeskInv, DeskTypeOK
  <2>2. PICK m \in DOMAIN tickets[Head(calls[n].id)].comments :
          tickets[Head(calls[n].id)].comments[m].by = n
    BY <1>2 DEF DeskInv, DoneWhenReturned, Done, CommentDone
  <2>3. m \in 1..MaxCalls
    BY <1>2, <2>1, CommentsAreFewerThanCalls
  <2>4. <<Head(calls[n].id), m>> \in CommentsBy(n)
    BY <2>1, <2>2, <2>3 DEF CommentsBy
  <2> QED BY <2>4
<1>3. DeskInv => ReturnedMeansDone
  <2> SUFFICES ASSUME DeskInv PROVE ReturnedMeansDone
    OBVIOUS
  <2>1. Len(tickets) \in Cardinality(Made)..Cardinality(Made) + Cardinality(Unheard)
    BY DEF DeskInv, TicketsAreCounted
  <2>2. ASSUME NEW n \in DOMAIN calls, calls[n].step = "returned", calls[n].status # None
        PROVE  \/ tickets[Head(calls[n].id)].status = Head(calls[n].status)
               \/ \E m \in DOMAIN calls :
                    /\ m # n /\ calls[m].id = calls[n].id
                    /\ calls[m].status = <<tickets[Head(calls[n].id)].status>>
    BY <2>2 DEF DeskInv, DoneWhenReturned, Done, StatusDone
  <2>3. ASSUME NEW n \in DOMAIN calls, calls[n].step = "returned", calls[n].ticket # None,
               calls[n].id # None
        PROVE  tickets[Head(calls[n].id)].data = request_data(Head(calls[n].ticket))
    BY <2>3 DEF DeskInv, DoneWhenReturned, Done, TicketDone
  <2> QED BY <1>1, <1>2, <2>1, <2>2, <2>3 DEF ReturnedMeansDone
<1> QED BY <1>3, DeskInductive, PTL
=============================================================================
