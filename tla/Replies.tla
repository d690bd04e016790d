------------------------------ MODULE Replies -------------------------------
(***************************************************************************)
(* Replies to pages: the notifier records what it has sent in the messages *)
(* table, and the Twilio webhook reads that table to tell which incident   *)
(* an incoming WhatsApp message is about.                                  *)
(*                                                                         *)
(*   cloud/api/twilio_webhook.py      match, open the window, read, write  *)
(*   cloud/notifier_worker/relay.py   as much as Delivery promises         *)
(*   cloud/ingest_worker, cloud/escalation_worker   who is paged: anybody  *)
(*                                                                         *)
(* A person answers a page that reached the phone; which one, the webhook  *)
(* is not told, and takes the newest by created_at.  That column is the    *)
(* time at which the settle that inserts the message began, so messages do *)
(* not appear in its order.  Twilio delivering one message again is        *)
(* another Arrive of the same content, since the webhook compares no       *)
(* MessageSid.                                                             *)
(***************************************************************************)
EXTENDS Delivery, Naturals, Sequences

CONSTANTS
  Incidents,   \* incidents that page somebody
  Phones,      \* the phones of those who may be on call
  Handlers,    \* webhook requests that may be in flight together
  NoRow,       \* "none": no message, no phone
  MaxSettles,  \* bound on the settles that begin
  MaxReplies,  \* bound on the replies that arrive
  MaxDeaths    \* bound on the requests that fail

ASSUME RepliesAssumption ==
  /\ NoRow \notin Rows \cup Phones \cup Incidents
  /\ MaxSettles \in Nat
  /\ MaxReplies \in Nat
  /\ MaxDeaths \in Nat

VARIABLES
  \* the incident and the phone of an outbox row, once there is one
  page,
  \* the rows of the settles in the order they began, and those of the settles (by
  \* position, which is created_at) that have put an 'out' message into the table
  begun, messages,
  \* incidents.status, the three active ones being one here
  incident,
  \* the ACK and RESOLVED audit events that the webhook has written
  closes,
  \* webhook requests; the replies and the failed requests so far
  handler, replies, deaths

incidentVars == <<incident, closes>>
requestVars  == <<handler, replies, deaths>>
messageVars  == <<deliveryVars, page, begun, messages>>
vars         == <<messageVars, incidentVars, requestVars>>

Nobody   == [incident |-> NoRow, phone |-> NoRow]
Pages    == [incident : Incidents, phone : Phones]
Keywords == {"ACK", "RESOLVED", "OTHER"}
States   == {"ACTIVE", "ACK", "RESOLVED", "CRITICAL_UNRESOLVED"}

Idle == [pc |-> "idle", phone |-> NoRow, keyword |-> "OTHER",
         match |-> NoRow, seen |-> "ACTIVE"]

Init ==
  /\ DeliveryInit
  /\ page = [o \in Rows |-> Nobody]
  /\ begun = <<>>
  /\ messages = {}
  /\ incident = [i \in Incidents |-> "ACTIVE"]
  /\ closes = [i \in Incidents |-> <<>>]
  /\ handler = [h \in Handlers |-> Idle]
  /\ replies = 0
  /\ deaths = 0

-----------------------------------------------------------------------------
\* An active incident pages whoever is on call.
Page(o) ==
  /\ Queue(o)
  /\ \E p \in Pages : /\ incident[p.incident] = "ACTIVE"
                      /\ page' = [page EXCEPT ![o] = p]
  /\ UNCHANGED <<begun, messages, incidentVars, requestVars>>

\* The page reaches the phone, or is given up.
Send(o) ==
  /\ Reach(o) \/ GiveUp(o)
  /\ UNCHANGED <<page, begun, messages, incidentVars, requestVars>>

\* A relay that has sent the page begins to settle it; so may another, later, whose
\* claim has replaced the first one's.
BeginSettle(o) ==
  /\ stage[o] = "OPEN" /\ reached[o]
  /\ Len(begun) < MaxSettles
  /\ begun' = Append(begun, o)
  /\ UNCHANGED <<deliveryVars, page, messages, incidentVars, requestVars>>

\* Mutant: a late settle inserts its message again.
SettleAgain(n) ==
  /\ stage[begun[n]] \in {"OPEN", "RECORDED"}
  /\ stage' = [stage EXCEPT ![begun[n]] = "RECORDED"]
  /\ messages' = messages \cup {n}
  /\ UNCHANGED <<reached, page, begun, incidentVars, requestVars>>

\* The first that commits records the row, and with it the message; the others find
\* the row settled and leave it.
Settle(n) ==
  /\ Record(begun[n])
  /\ messages' = messages \cup {n}
  /\ UNCHANGED <<page, begun, incidentVars, requestVars>>

\* The API and the escalation worker: whatever was read, a close may be written
\* over another, and an active incident may reach the end of its ladder.
Elsewhere(i) ==
  /\ \E to \in States \ {"ACTIVE"} :
       /\ to = "CRITICAL_UNRESOLVED" => incident[i] = "ACTIVE"
       /\ incident' = [incident EXCEPT ![i] = to]
  /\ UNCHANGED <<messageVars, closes, requestVars>>

-----------------------------------------------------------------------------
Becomes(h, q) == handler' = [handler EXCEPT ![h] = q]

\* Somebody who has got a page answers it.
Arrive(h, o, keyword) ==
  /\ handler[h].pc = "idle"
  /\ replies < MaxReplies
  /\ reached[o]
  /\ Becomes(h, [handler[h] EXCEPT !.pc = "match", !.phone = page[o].phone,
                   !.keyword = keyword])
  /\ replies' = replies + 1
  /\ UNCHANGED <<messageVars, incidentVars, deaths>>

\* Mutant: the newest message to anybody.
SentToAnybody(phone) == messages

\* The messages the sender may be answering, by position.
SentTo(phone) == {n \in messages : page[begun[n]].phone = phone}

\* ORDER BY created_at DESC LIMIT 1.
NewestSentTo(phone) ==
  LET sent == SentTo(phone)
  IN  IF sent = {} THEN NoRow
      ELSE begun[CHOOSE n \in sent : \A k \in sent : k <= n]

Match(h) ==
  /\ handler[h].pc = "match"
  /\ Becomes(h, [handler[h] EXCEPT !.pc = "window", !.match = NewestSentTo(handler[h].phone)])
  /\ UNCHANGED <<messageVars, incidentVars, replies, deaths>>

\* An open transaction that has upserted the sender's whatsapp_sessions row.
HoldsWindow(g, phone) == handler[g].pc \in {"read", "write"} /\ handler[g].phone = phone

\* Mutant: the upsert at the end of the transaction, which holds nobody back.
OpenWindowUnlocked(h) ==
  /\ handler[h].pc = "window"
  /\ Becomes(h, [handler[h] EXCEPT !.pc = IF handler[h].match = NoRow THEN "write" ELSE "read"])
  /\ UNCHANGED <<messageVars, incidentVars, replies, deaths>>

\* ON CONFLICT DO UPDATE waits for whoever has written the same phone's row and
\* not committed yet.
OpenWindow(h) ==
  /\ handler[h].pc = "window"
  /\ \A g \in Handlers : ~HoldsWindow(g, handler[h].phone)
  /\ Becomes(h, [handler[h] EXCEPT !.pc = IF handler[h].match = NoRow THEN "write" ELSE "read"])
  /\ UNCHANGED <<messageVars, incidentVars, replies, deaths>>

\* The plain SELECT of the incident.
ReadIncident(h) ==
  /\ handler[h].pc = "read"
  /\ Becomes(h, [handler[h] EXCEPT !.pc = "write",
                   !.seen = incident[page[handler[h].match].incident]])
  /\ UNCHANGED <<messageVars, incidentVars, replies, deaths>>

\* What the keyword does to an incident in the state that was read.
ClosesFrom(keyword, seen) ==
  \/ keyword = "ACK" /\ seen = "ACTIVE"
  \/ keyword = "RESOLVED" /\ seen \in {"ACTIVE", "ACK"}

\* The commit: the inbound message and REPLY_RECEIVED, or unmatched_inbound, and
\* the close if there is one.
Commit(h) ==
  LET q == handler[h] i == page[q.match].incident IN
  /\ q.pc = "write"
  /\ IF q.match # NoRow /\ ClosesFrom(q.keyword, q.seen)
       THEN /\ incident' = [incident EXCEPT ![i] = q.keyword]
            /\ closes' = [closes EXCEPT ![i] =
                 Append(@, [phone |-> q.phone, type |-> q.keyword])]
       ELSE UNCHANGED <<incident, closes>>
  /\ Becomes(h, Idle)
  /\ UNCHANGED <<messageVars, replies, deaths>>

\* The API process dies, or the database refuses: the transaction is rolled back.
HandlerDies(h) ==
  /\ deaths < MaxDeaths
  /\ handler[h].pc # "idle"
  /\ Becomes(h, Idle)
  /\ deaths' = deaths + 1
  /\ UNCHANGED <<messageVars, incidentVars, replies>>

TwilioInbound(h) ==
  \/ \E o \in Rows, k \in Keywords : Arrive(h, o, k)
  \/ Match(h) \/ OpenWindow(h) \/ ReadIncident(h) \/ Commit(h)

Next ==
  \/ \E o \in Rows : Page(o) \/ Send(o) \/ BeginSettle(o)
  \/ \E n \in DOMAIN begun : Settle(n)
  \/ \E i \in Incidents : Elsewhere(i)
  \/ \E h \in Handlers : TwilioInbound(h) \/ HandlerDies(h)

Spec == Init /\ [][Next]_vars
-----------------------------------------------------------------------------
(***************************************************************************)
(* Properties.                                                             *)
(***************************************************************************)
RequestStates ==
  [pc : {"idle", "match", "window", "read", "write"}, phone : Phones \cup {NoRow},
   keyword : Keywords, match : Rows \cup {NoRow}, seen : States]

CloseEvents == [phone : Phones, type : {"ACK", "RESOLVED"}]

\* Only committed rows have an addressee, the messages table has each recorded
\* row once, however many relays settle it, and variables hold values of their types.
TypeOK ==
  /\ stage \in [Rows -> Stages]
  /\ reached \in [Rows -> BOOLEAN]
  /\ page \in [Rows -> Pages \cup {Nobody}]
  /\ \A o \in Rows : page[o] = Nobody <=> stage[o] = "ABSENT"
  /\ begun \in Seq(Rows)
  /\ messages \subseteq {n \in DOMAIN begun : stage[begun[n]] = "RECORDED"}
  /\ \A m, n \in messages : begun[m] = begun[n] => m = n
  /\ incident \in [Incidents -> States]
  /\ closes \in [Incidents -> Seq(CloseEvents)]
  /\ handler \in [Handlers -> RequestStates]
  /\ replies \in 0..MaxReplies
  /\ deaths \in 0..MaxDeaths

\* One phone never acknowledges an incident that it has closed before, not even
\* by messages that arrive at the same time or twice: the upsert of the sender's
\* session makes its requests take turns, and the incident is read after it.
PhonesTakeTurns ==
  \A i \in Incidents : \A m, n \in DOMAIN closes[i] :
    m < n /\ closes[i][m].phone = closes[i][n].phone => closes[i][n].type = "RESOLVED"

\* Whoever closes an incident by a reply has really been sent a page about it.
ClosedByThePaged ==
  \A i \in Incidents : \A n \in DOMAIN closes[i] :
    \E o \in Rows : page[o] = [incident |-> i, phone |-> closes[i][n].phone] /\ reached[o]

-----------------------------------------------------------------------------
(***************************************************************************)
(* The inductive invariant of the proofs.                                  *)
(***************************************************************************)
\* A recorded row was sent; only a queued one is ever sent.
RecordsAreTrue ==
  \A o \in Rows :
    /\ stage[o] = "RECORDED" => reached[o]
    /\ reached[o] => stage[o] # "ABSENT"

\* The match of a request, if it has one, is a recorded page to the phone that sent it.
AnswersPage(q) ==
  /\ q.pc # "idle" => q.phone \in Phones
  /\ q.pc \in {"idle", "match"} => q.match = NoRow
  /\ q.pc = "read" => q.match # NoRow
  /\ q.match # NoRow => stage[q.match] = "RECORDED" /\ page[q.match].phone = q.phone

RequestsAnswerPages == \A h \in Handlers : AnswersPage(handler[h])

\* One request of a phone at a time is past its upsert.
OneWindowPerPhone ==
  \A g, h \in Handlers :
    handler[g].pc \in {"read", "write"} /\ HoldsWindow(h, handler[g].phone) => g = h

\* An incident that a reply has closed is never active again, and the request about
\* to write knows of every close by its own phone.
ClosesAreSeen ==
  /\ \A i \in Incidents : closes[i] # <<>> => incident[i] # "ACTIVE"
  /\ \A h \in Handlers : LET q == handler[h] i == page[q.match].incident IN
       q.pc = "write" /\ q.match # NoRow /\ q.seen = "ACTIVE" =>
         \A n \in DOMAIN closes[i] : closes[i][n].phone # q.phone

IInv ==
  /\ TypeOK
  /\ RecordsAreTrue
  /\ RequestsAnswerPages
  /\ OneWindowPerPhone
  /\ ClosesAreSeen
  /\ PhonesTakeTurns
  /\ ClosedByThePaged
=============================================================================
