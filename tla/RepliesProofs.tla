--------------------------- MODULE RepliesProofs ----------------------------
(***************************************************************************)
(* What the Twilio webhook guarantees for any number of pages, phones and  *)
(* concurrent requests, and whatever the order in which messages appear:   *)
(* only who was paged closes an incident, and requests of one phone take   *)
(* turns.                                                                  *)
(***************************************************************************)
EXTENDS Replies, SequenceTheorems, WellFoundedInduction, TLAPS

USE RepliesAssumption

-----------------------------------------------------------------------------
(***************************************************************************)
(* The newest message of a phone.                                          *)
(***************************************************************************)

\* A non-empty set of naturals has a smallest element.
LEMMA SmallestExists ==
  ASSUME NEW T \in SUBSET Nat, T # {}
  PROVE  \E x \in T : \A y \in T : x <= y
<1>1. PICK x \in T : \A y \in T : <<y, x>> \notin OpToRel(<, Nat)
  BY NatLessThanWellFounded, WFMin
<1>2. \A y \in T : ~(y < x)
  BY <1>1 DEF OpToRel
<1> QED
  BY <1>2

\* A non-empty set of positions of a sequence has a last one.
LEMMA LastExists ==
  ASSUME NEW N \in Nat, NEW T \in SUBSET (1..N), T # {}
  PROVE  \E x \in T : \A y \in T : y <= x
<1> DEFINE U == {N - y : y \in T}
<1>1. U \in SUBSET Nat /\ U # {}
  <2>1. \A y \in T : N - y \in Nat
    OBVIOUS
  <2> QED
    BY <2>1
<1>2. PICK u \in U : \A v \in U : u <= v
  BY <1>1, SmallestExists
<1>3. PICK x \in T : u = N - x
  BY <1>2
<1>4. ASSUME NEW y \in T PROVE y <= x
  <2>1. N - x <= N - y
    BY <1>2, <1>3
  <2> QED
    BY <2>1
<1> QED
  BY <1>4

\* What Append does to a sequence.
LEMMA AppendFacts ==
  ASSUME NEW S, NEW s \in Seq(S), NEW e \in S
  PROVE  LET t == Append(s, e) IN
         /\ t \in Seq(S) /\ Len(s) \in Nat
         /\ DOMAIN s = 1..Len(s)
         /\ DOMAIN t = 1..(Len(s) + 1)
         /\ \A n \in 1..Len(s) : t[n] = s[n]
         /\ t[Len(s) + 1] = e
BY AppendProperties

\* ORDER BY created_at DESC LIMIT 1 finds the latest message to the phone, if any.
LEMMA NewestFacts ==
  ASSUME TypeOK, NEW phone, SentTo(phone) # {}
  PROVE  \E n \in SentTo(phone) :
           /\ NewestSentTo(phone) = begun[n]
           /\ begun[n] \in Rows /\ stage[begun[n]] = "RECORDED"
           /\ page[begun[n]].phone = phone
<1>1. /\ DOMAIN begun = 1..Len(begun) /\ Len(begun) \in Nat
      /\ \A n \in messages : n \in DOMAIN begun /\ begun[n] \in Rows
                             /\ stage[begun[n]] = "RECORDED"
  BY DEF TypeOK
<1>2. SentTo(phone) \in SUBSET (1..Len(begun))
  BY <1>1 DEF SentTo
<1>3. \E x \in SentTo(phone) : \A y \in SentTo(phone) : y <= x
  BY <1>1, <1>2, LastExists
<1> DEFINE n == CHOOSE x \in SentTo(phone) : \A y \in SentTo(phone) : y <= x
<1>4. n \in SentTo(phone)
  BY <1>3
<1>5. n \in messages /\ page[begun[n]].phone = phone
  BY <1>4 DEF SentTo
<1>6. NewestSentTo(phone) = begun[n]
  BY DEF NewestSentTo
<1> QED
  BY <1>1, <1>4, <1>5, <1>6

-----------------------------------------------------------------------------
(***************************************************************************)
(* Types.                                                                  *)
(***************************************************************************)

\* Nobody is not a page.
LEMMA NobodyIsNoPage == Nobody \notin Pages
BY DEF Nobody, Pages

\* A row with an addressee is a page.
LEMMA PageFacts ==
  ASSUME TypeOK, NEW o \in Rows, stage[o] # "ABSENT"
  PROVE  page[o] \in Pages /\ page[o].phone \in Phones /\ page[o].incident \in Incidents
<1>1. page[o] \in Pages
  BY DEF TypeOK
<1> QED
  BY <1>1 DEF Pages

\* One request moves on, the others stay as they are.
LEMMA BecomesFacts ==
  ASSUME TypeOK, NEW h \in Handlers, NEW q \in RequestStates, Becomes(h, q)
  PROVE  /\ handler' \in [Handlers -> RequestStates]
         /\ handler'[h] = q
         /\ \A g \in Handlers \ {h} : handler'[g] = handler[g]
BY DEF Becomes, TypeOK

LEMMA IdleType == Idle \in RequestStates /\ Idle.pc = "idle" /\ Idle.match = NoRow
BY DEF Idle, RequestStates, Keywords, States

\* The state that a request's step leads to.
LEMMA ArriveFacts ==
  ASSUME TypeOK, RecordsAreTrue, NEW h \in Handlers, NEW o \in Rows, NEW k \in Keywords,
         Arrive(h, o, k)
  PROVE  \E q \in RequestStates :
           /\ Becomes(h, q) /\ q.pc = "match" /\ q.phone \in Phones
           /\ q.match = handler[h].match
<1> DEFINE q == [handler[h] EXCEPT !.pc = "match", !.phone = page[o].phone,
                   !.keyword = k]
<1>1. handler[h] \in RequestStates
  BY DEF TypeOK
<1>2. page[o].phone \in Phones
  BY PageFacts DEF Arrive, RecordsAreTrue
<1>3. q \in RequestStates
  BY <1>1, <1>2 DEF RequestStates
<1>4. q.pc = "match" /\ q.phone = page[o].phone /\ q.match = handler[h].match
  BY <1>1 DEF RequestStates
<1> QED
  BY <1>2, <1>3, <1>4 DEF Arrive

LEMMA MatchFacts ==
  ASSUME TypeOK, NEW h \in Handlers, Match(h)
  PROVE  \E q \in RequestStates :
           /\ Becomes(h, q) /\ q.pc = "window"
           /\ q.phone = handler[h].phone /\ q.match = NewestSentTo(q.phone)
<1> DEFINE q == [handler[h] EXCEPT !.pc = "window",
                   !.match = NewestSentTo(handler[h].phone)]
<1>1. handler[h] \in RequestStates
  BY DEF TypeOK
<1>2. NewestSentTo(handler[h].phone) \in Rows \cup {NoRow}
  BY NewestFacts DEF NewestSentTo
<1>3. q \in RequestStates
  BY <1>1, <1>2 DEF RequestStates
<1>4. /\ q.pc = "window" /\ q.phone = handler[h].phone
      /\ q.match = NewestSentTo(q.phone)
  BY <1>1 DEF RequestStates
<1> QED
  BY <1>3, <1>4 DEF Match

LEMMA OpenWindowFacts ==
  ASSUME TypeOK, NEW h \in Handlers, OpenWindow(h)
  PROVE  \E q \in RequestStates :
           /\ Becomes(h, q)
           /\ q.pc = IF q.match = NoRow THEN "write" ELSE "read"
           /\ q.phone = handler[h].phone /\ q.match = handler[h].match
<1> DEFINE q == [handler[h] EXCEPT !.pc = IF handler[h].match = NoRow THEN "write" ELSE "read"]
<1>1. handler[h] \in RequestStates
  BY DEF TypeOK
<1>2. q \in RequestStates
  BY <1>1 DEF RequestStates
<1>3. /\ q.pc = IF q.match = NoRow THEN "write" ELSE "read"
      /\ q.phone = handler[h].phone /\ q.match = handler[h].match
  BY <1>1 DEF RequestStates
<1> QED
  BY <1>2, <1>3 DEF OpenWindow

LEMMA ReadIncidentFacts ==
  ASSUME TypeOK, RequestsAnswerPages, NEW h \in Handlers, ReadIncident(h)
  PROVE  \E q \in RequestStates :
           /\ Becomes(h, q) /\ q.pc = "write"
           /\ q.phone = handler[h].phone /\ q.match = handler[h].match
           /\ q.seen = incident[page[q.match].incident]
<1> DEFINE q == [handler[h] EXCEPT !.pc = "write",
                   !.seen = incident[page[handler[h].match].incident]]
<1>1. handler[h] \in RequestStates
  BY DEF TypeOK
<1>2. handler[h].match \in Rows /\ stage[handler[h].match] = "RECORDED"
  BY <1>1 DEF ReadIncident, RequestsAnswerPages, AnswersPage, RequestStates
<1>3. incident[page[handler[h].match].incident] \in States
  BY <1>2, PageFacts DEF TypeOK
<1>4. q \in RequestStates
  BY <1>1, <1>3 DEF RequestStates
<1>5. /\ q.pc = "write"
      /\ q.phone = handler[h].phone /\ q.match = handler[h].match
      /\ q.seen = incident[page[q.match].incident]
  BY <1>1 DEF RequestStates
<1> QED
  BY <1>4, <1>5 DEF ReadIncident

\* The steps that are about pages and messages.
PagesMove ==
  \/ \E o \in Rows : Page(o) \/ Send(o) \/ BeginSettle(o)
  \/ \E n \in DOMAIN begun : Settle(n)

LEMMA NextParts ==
  Next <=> \/ PagesMove
           \/ \E i \in Incidents : Elsewhere(i)
           \/ \E h \in Handlers : TwilioInbound(h) \/ HandlerDies(h)
BY DEF Next, PagesMove

\* A request's step, or an incident that changes elsewhere, leaves messages alone.
LEMMA RequestsOnlyRead ==
  ASSUME NEW h \in Handlers, TwilioInbound(h) \/ HandlerDies(h)
  PROVE  UNCHANGED messageVars
BY DEF TwilioInbound, HandlerDies, Arrive, Match, OpenWindow, ReadIncident, Commit

\* What is queued keeps its addressee, and what is sent or recorded remains so.
LEMMA PagesStay ==
  ASSUME TypeOK, [Next]_vars
  PROVE  \A o \in Rows :
           /\ stage[o] # "ABSENT" => stage'[o] # "ABSENT" /\ page'[o] = page[o]
           /\ stage[o] = "RECORDED" => stage'[o] = "RECORDED"
           /\ reached[o] => reached'[o]
<1> DEFINE Stay ==
             \A o \in Rows :
               /\ stage[o] # "ABSENT" => stage'[o] # "ABSENT" /\ page'[o] = page[o]
               /\ stage[o] = "RECORDED" => stage'[o] = "RECORDED"
               /\ reached[o] => reached'[o]
<1>1. /\ stage \in [Rows -> Stages] /\ reached \in [Rows -> BOOLEAN]
      /\ page \in [Rows -> Pages \cup {Nobody}]
  BY DEF TypeOK
<1>2. ASSUME NEW o \in Rows, Page(o) PROVE Stay
  BY <1>1, <1>2 DEF Page, Queue
<1>3. ASSUME NEW o \in Rows, Send(o) PROVE Stay
  BY <1>1, <1>3 DEF Send, Reach, GiveUp
<1>4. ASSUME NEW n \in DOMAIN begun, Settle(n) PROVE Stay
  BY <1>1, <1>4 DEF Settle, Record
<1>5. UNCHANGED <<deliveryVars, page>> => Stay
  BY DEF deliveryVars
<1>6. ASSUME NEW o \in Rows, BeginSettle(o) PROVE UNCHANGED <<deliveryVars, page>>
  BY <1>6 DEF BeginSettle
<1>7. ASSUME NEW i \in Incidents, Elsewhere(i) PROVE UNCHANGED messageVars
  BY <1>7 DEF Elsewhere
<1>8. UNCHANGED vars => UNCHANGED messageVars
  BY DEF vars
<1>9. UNCHANGED messageVars => UNCHANGED <<deliveryVars, page>>
  BY DEF messageVars
<1> QED
  BY <1>2, <1>3, <1>4, <1>5, <1>6, <1>7, <1>8, <1>9, RequestsOnlyRead DEF Next

LEMMA TypeInit == Init => TypeOK
<1> SUFFICES ASSUME Init PROVE TypeOK
  OBVIOUS
<1>1. handler \in [Handlers -> RequestStates]
  BY IdleType DEF Init
<1>2. \A o \in Rows : page[o] = Nobody /\ stage[o] = "ABSENT"
  BY DEF Init, DeliveryInit
<1>3. begun \in Seq(Rows) /\ messages = {}
  BY EmptySeq DEF Init
<1>4. closes \in [Incidents -> Seq(CloseEvents)]
  BY EmptySeq DEF Init
<1> QED
  BY <1>1, <1>2, <1>3, <1>4 DEF Init, DeliveryInit, TypeOK, Stages, States

\* The part of the type invariant that is about pages and messages.
MessagesOK ==
  /\ stage \in [Rows -> Stages]
  /\ reached \in [Rows -> BOOLEAN]
  /\ page \in [Rows -> Pages \cup {Nobody}]
  /\ \A o \in Rows : page[o] = Nobody <=> stage[o] = "ABSENT"
  /\ begun \in Seq(Rows)
  /\ messages \subseteq {n \in DOMAIN begun : stage[begun[n]] = "RECORDED"}
  /\ \A m, n \in messages : begun[m] = begun[n] => m = n

LEMMA MessagesStep == TypeOK /\ [Next]_vars => MessagesOK'
<1> SUFFICES ASSUME TypeOK, [Next]_vars PROVE MessagesOK'
  OBVIOUS
<1>1. /\ MessagesOK
      /\ DOMAIN begun = 1..Len(begun) /\ Len(begun) \in Nat
      /\ \A n \in DOMAIN begun : begun[n] \in Rows
  BY DEF TypeOK, MessagesOK
<1>2. ASSUME NEW o \in Rows, Page(o) PROVE MessagesOK'
  <2>1. PICK p \in Pages : page' = [page EXCEPT ![o] = p]
    BY <1>2 DEF Page
  <2>2. stage[o] = "ABSENT" /\ stage' = [stage EXCEPT ![o] = "OPEN"]
        /\ UNCHANGED <<reached, begun, messages>>
    BY <1>2 DEF Page, Queue
  <2>3. \A r \in Rows : stage[r] = "RECORDED" => stage'[r] = "RECORDED"
    BY <1>1, <2>2 DEF MessagesOK
  <2>4. \A r \in Rows : page'[r] = Nobody <=> stage'[r] = "ABSENT"
    BY <1>1, <2>1, <2>2, NobodyIsNoPage DEF MessagesOK
  <2>5. stage' \in [Rows -> Stages] /\ page' \in [Rows -> Pages \cup {Nobody}]
    BY <1>1, <2>1, <2>2 DEF MessagesOK, Stages
  <2>6. messages' \subseteq {n \in DOMAIN begun' : stage'[begun'[n]] = "RECORDED"}
    BY <1>1, <2>2, <2>3 DEF MessagesOK
  <2> QED
    BY <1>1, <2>2, <2>4, <2>5, <2>6 DEF MessagesOK
<1>3. ASSUME NEW o \in Rows, Send(o) PROVE MessagesOK'
  <2>1. /\ stage' \in [Rows -> Stages] /\ reached' \in [Rows -> BOOLEAN]
        /\ \A r \in Rows : /\ stage'[r] = "RECORDED" <=> stage[r] = "RECORDED"
                           /\ stage'[r] = "ABSENT" <=> stage[r] = "ABSENT"
        /\ UNCHANGED <<page, begun, messages>>
    <3>1. Reach(o) => stage' = stage /\ reached' \in [Rows -> BOOLEAN]
      BY <1>1 DEF Reach, MessagesOK
    <3>2. GiveUp(o) => /\ stage[o] = "OPEN" /\ stage' = [stage EXCEPT ![o] = "GIVEN_UP"]
                       /\ reached' = reached
      BY DEF GiveUp
    <3> QED
      BY <1>1, <1>3, <3>1, <3>2 DEF Send, MessagesOK, Stages
  <2>2. messages' \subseteq {n \in DOMAIN begun' : stage'[begun'[n]] = "RECORDED"}
    BY <1>1, <2>1 DEF MessagesOK
  <2> QED
    BY <1>1, <2>1, <2>2 DEF MessagesOK
<1>4. ASSUME NEW n \in DOMAIN begun, Settle(n) PROVE MessagesOK'
  <2> DEFINE o == begun[n]
  <2>1. /\ o \in Rows /\ stage[o] = "OPEN" /\ stage' = [stage EXCEPT ![o] = "RECORDED"]
        /\ messages' = messages \cup {n}
        /\ UNCHANGED <<page, begun, reached>>
    BY <1>1, <1>4 DEF Settle, Record
  <2>2. \A m \in messages : begun[m] # o
    BY <1>1, <2>1 DEF MessagesOK
  <2>3. \A l, m \in messages' : begun'[l] = begun'[m] => l = m
    BY <1>1, <2>1, <2>2 DEF MessagesOK
  <2>4. messages' \subseteq {m \in DOMAIN begun' : stage'[begun'[m]] = "RECORDED"}
    BY <1>1, <2>1 DEF MessagesOK
  <2>5. \A r \in Rows : page'[r] = Nobody <=> stage'[r] = "ABSENT"
    BY <1>1, <2>1 DEF MessagesOK
  <2>6. stage' \in [Rows -> Stages]
    BY <1>1, <2>1 DEF MessagesOK, Stages
  <2> QED
    BY <1>1, <2>1, <2>3, <2>4, <2>5, <2>6 DEF MessagesOK
<1>8. ASSUME NEW o \in Rows, BeginSettle(o) PROVE MessagesOK'
  <2>1. /\ begun' = Append(begun, o)
        /\ UNCHANGED <<stage, reached, page, messages>>
    BY <1>8 DEF BeginSettle, deliveryVars
  <2>2. /\ begun' \in Seq(Rows)
        /\ \A n \in DOMAIN begun : n \in DOMAIN begun' /\ begun'[n] = begun[n]
    BY <1>1, <2>1, AppendFacts DEF MessagesOK
  <2>3. \A n \in messages : n \in DOMAIN begun
    BY <1>1 DEF MessagesOK
  <2> QED
    BY <1>1, <2>1, <2>2, <2>3 DEF MessagesOK
<1>5. UNCHANGED messageVars => MessagesOK'
  BY <1>1 DEF messageVars, deliveryVars, MessagesOK
<1>6. ASSUME NEW i \in Incidents, Elsewhere(i) PROVE UNCHANGED messageVars
  BY <1>6 DEF Elsewhere
<1>7. UNCHANGED vars => UNCHANGED messageVars
  BY DEF vars
<1> QED
  BY <1>2, <1>3, <1>4, <1>5, <1>6, <1>7, <1>8, RequestsOnlyRead DEF Next

\* A request that closes an incident has a page about it to its own phone.
LEMMA CommitFacts ==
  ASSUME TypeOK, RecordsAreTrue, RequestsAnswerPages, NEW h \in Handlers, Commit(h)
  PROVE  LET q == handler[h] IN
         \/ UNCHANGED incidentVars
         \/ \E i \in Incidents :
              /\ q.pc = "write" /\ q.match \in Rows /\ q.phone \in Phones
              /\ page[q.match] = [incident |-> i, phone |-> q.phone] /\ reached[q.match]
              /\ q.keyword \in {"ACK", "RESOLVED"}
              /\ q.keyword = "ACK" => q.seen = "ACTIVE"
              /\ incident' = [incident EXCEPT ![i] = q.keyword]
              /\ closes' = [closes EXCEPT ![i] =
                   Append(closes[i], [phone |-> q.phone, type |-> q.keyword])]
<1> DEFINE q == handler[h]
           i == page[q.match].incident
<1>1. q \in RequestStates
  BY DEF TypeOK
<1>2. CASE q.match # NoRow /\ ClosesFrom(q.keyword, q.seen)
  <2>1. q.match \in Rows /\ stage[q.match] = "RECORDED" /\ page[q.match].phone = q.phone
    BY <1>1, <1>2 DEF RequestsAnswerPages, AnswersPage, RequestStates
  <2>2. reached[q.match] /\ i \in Incidents /\ q.phone \in Phones
    BY <2>1, PageFacts DEF RecordsAreTrue
  <2>3. page[q.match] = [incident |-> i, phone |-> q.phone]
    BY <2>1, PageFacts DEF Pages
  <2>4. /\ q.keyword \in {"ACK", "RESOLVED"}
        /\ q.keyword = "ACK" => q.seen = "ACTIVE"
    BY <1>2 DEF ClosesFrom
  <2>5. /\ q.pc = "write"
        /\ incident' = [incident EXCEPT ![i] = q.keyword]
        /\ closes' = [closes EXCEPT ![i] =
             Append(closes[i], [phone |-> q.phone, type |-> q.keyword])]
    BY <1>2 DEF Commit
  <2> QED
    BY <2>1, <2>2, <2>3, <2>4, <2>5
<1>3. CASE ~(q.match # NoRow /\ ClosesFrom(q.keyword, q.seen))
  BY <1>3 DEF Commit, incidentVars
<1> QED
  BY <1>2, <1>3

\* The requests themselves.
LEMMA RequestsStep ==
  TypeOK /\ RecordsAreTrue /\ RequestsAnswerPages /\ [Next]_vars =>
    handler' \in [Handlers -> RequestStates]
<1> SUFFICES ASSUME TypeOK, RecordsAreTrue, RequestsAnswerPages, [Next]_vars
             PROVE  handler' \in [Handlers -> RequestStates]
  OBVIOUS
<1>1. ASSUME NEW h \in Handlers, TwilioInbound(h) \/ HandlerDies(h)
      PROVE  handler' \in [Handlers -> RequestStates]
  <2>1. ASSUME NEW o \in Rows, NEW k \in Keywords, Arrive(h, o, k)
        PROVE  handler' \in [Handlers -> RequestStates]
    BY <2>1, ArriveFacts, BecomesFacts
  <2>2. CASE Match(h)
    BY <2>2, MatchFacts, BecomesFacts
  <2>3. CASE OpenWindow(h)
    BY <2>3, OpenWindowFacts, BecomesFacts
  <2>4. CASE ReadIncident(h)
    BY <2>4, ReadIncidentFacts, BecomesFacts
  <2>5. CASE Commit(h) \/ HandlerDies(h)
    BY <2>5, IdleType, BecomesFacts DEF Commit, HandlerDies
  <2> QED
    BY <1>1, <2>1, <2>2, <2>3, <2>4, <2>5 DEF TwilioInbound
<1>2. ASSUME PagesMove PROVE UNCHANGED handler
  BY <1>2 DEF PagesMove, Page, Send, BeginSettle, Settle, requestVars
<1>3. ASSUME NEW i \in Incidents, Elsewhere(i) PROVE UNCHANGED handler
  BY <1>3 DEF Elsewhere, requestVars
<1>4. UNCHANGED vars => UNCHANGED handler
  BY DEF vars, requestVars
<1>5. UNCHANGED handler => handler' \in [Handlers -> RequestStates]
  BY DEF TypeOK
<1> QED
  BY <1>1, <1>2, <1>3, <1>4, <1>5, NextParts

\* Incidents and the closes that replies have made.
LEMMA IncidentsStep ==
  TypeOK /\ RecordsAreTrue /\ RequestsAnswerPages /\ [Next]_vars =>
    /\ incident' \in [Incidents -> States]
    /\ closes' \in [Incidents -> Seq(CloseEvents)]
<1> SUFFICES ASSUME TypeOK, RecordsAreTrue, RequestsAnswerPages, [Next]_vars
             PROVE  /\ incident' \in [Incidents -> States]
                    /\ closes' \in [Incidents -> Seq(CloseEvents)]
  OBVIOUS
<1>1. incident \in [Incidents -> States] /\ closes \in [Incidents -> Seq(CloseEvents)]
  BY DEF TypeOK
<1>2. ASSUME NEW h \in Handlers, Commit(h)
      PROVE  /\ incident' \in [Incidents -> States]
             /\ closes' \in [Incidents -> Seq(CloseEvents)]
  <2> DEFINE q == handler[h]
  <2>1. CASE UNCHANGED incidentVars
    BY <1>1, <2>1 DEF incidentVars
  <2>2. CASE ~UNCHANGED incidentVars
    <3>1. PICK i \in Incidents :
            /\ q.phone \in Phones /\ q.keyword \in {"ACK", "RESOLVED"}
            /\ incident' = [incident EXCEPT ![i] = q.keyword]
            /\ closes' = [closes EXCEPT ![i] =
                 Append(closes[i], [phone |-> q.phone, type |-> q.keyword])]
      BY <1>2, <2>2, CommitFacts
    <3>2. [phone |-> q.phone, type |-> q.keyword] \in CloseEvents
      BY <3>1 DEF CloseEvents
    <3>3. Append(closes[i], [phone |-> q.phone, type |-> q.keyword]) \in Seq(CloseEvents)
      BY <1>1, <3>2, AppendFacts
    <3> QED
      BY <1>1, <3>1, <3>3 DEF States
  <2> QED
    BY <2>1, <2>2
<1>3. ASSUME NEW h \in Handlers, TwilioInbound(h) \/ HandlerDies(h), ~Commit(h)
      PROVE  UNCHANGED incidentVars
  BY <1>3 DEF TwilioInbound, HandlerDies, Arrive, Match, OpenWindow, ReadIncident
<1>4. ASSUME PagesMove PROVE UNCHANGED incidentVars
  BY <1>4 DEF PagesMove, Page, Send, BeginSettle, Settle
<1>5. ASSUME NEW i \in Incidents, Elsewhere(i)
      PROVE  incident' \in [Incidents -> States] /\ UNCHANGED closes
  BY <1>1, <1>5 DEF Elsewhere
<1>6. UNCHANGED vars => UNCHANGED incidentVars
  BY DEF vars
<1> QED
  BY <1>1, <1>2, <1>3, <1>4, <1>5, <1>6, NextParts DEF incidentVars

LEMMA TypeStep ==
  TypeOK /\ RecordsAreTrue /\ RequestsAnswerPages /\ [Next]_vars => TypeOK'
<1> SUFFICES ASSUME TypeOK, RecordsAreTrue, RequestsAnswerPages, [Next]_vars PROVE TypeOK'
  OBVIOUS
<1>1. replies' \in 0..MaxReplies /\ deaths' \in 0..MaxDeaths
  <2>1. replies \in 0..MaxReplies /\ deaths \in 0..MaxDeaths
    BY DEF TypeOK
  <2>2. ASSUME NEW h \in Handlers, TwilioInbound(h) \/ HandlerDies(h)
        PROVE  replies' \in 0..MaxReplies /\ deaths' \in 0..MaxDeaths
    <3>1. ASSUME NEW o \in Rows, NEW k \in Keywords, Arrive(h, o, k)
          PROVE  replies < MaxReplies /\ replies' = replies + 1 /\ deaths' = deaths
      BY <3>1 DEF Arrive
    <3>2. CASE Match(h) \/ OpenWindow(h) \/ ReadIncident(h) \/ Commit(h)
      BY <2>1, <3>2 DEF Match, OpenWindow, ReadIncident, Commit
    <3>3. HandlerDies(h) => deaths < MaxDeaths /\ deaths' = deaths + 1 /\ replies' = replies
      BY DEF HandlerDies
    <3> QED
      BY <2>1, <2>2, <3>1, <3>2, <3>3 DEF TwilioInbound
  <2>3. ASSUME PagesMove PROVE UNCHANGED requestVars
    BY <2>3 DEF PagesMove, Page, Send, BeginSettle, Settle
  <2> QED
    BY <2>1, <2>2, <2>3, NextParts DEF Elsewhere, vars, requestVars
<1> QED
  BY <1>1, MessagesStep, RequestsStep, IncidentsStep DEF TypeOK, MessagesOK

-----------------------------------------------------------------------------
(***************************************************************************)
(* Pages, their messages, and the requests that are matched to them.       *)
(***************************************************************************)

LEMMA RecordsStep == TypeOK /\ RecordsAreTrue /\ [Next]_vars => RecordsAreTrue'
<1> SUFFICES ASSUME TypeOK, RecordsAreTrue, [Next]_vars, NEW o \in Rows
             PROVE  /\ stage'[o] = "RECORDED" => reached'[o]
                    /\ reached'[o] => stage'[o] # "ABSENT"
  BY DEF RecordsAreTrue
<1>1. stage \in [Rows -> Stages] /\ reached \in [Rows -> BOOLEAN]
  BY DEF TypeOK
<1>2. /\ stage[o] = "RECORDED" => reached[o]
      /\ reached[o] => stage[o] # "ABSENT"
  BY DEF RecordsAreTrue
<1>3. CASE (stage'[o] = "RECORDED" => stage[o] = "RECORDED") /\ (reached'[o] => reached[o])
  BY <1>2, <1>3, PagesStay
<1>4. ASSUME NEW r \in Rows, Page(r)
      PROVE  (stage'[o] = "RECORDED" => stage[o] = "RECORDED") /\ UNCHANGED reached
  BY <1>1, <1>4 DEF Page, Queue
<1>5. ASSUME NEW r \in Rows, Send(r)
      PROVE  /\ stage'[o] = "RECORDED" => stage[o] = "RECORDED"
             /\ reached'[o] => stage'[o] # "ABSENT"
  BY <1>1, <1>2, <1>5 DEF Send, Reach, GiveUp
<1>6. ASSUME NEW n \in DOMAIN begun, Settle(n)
      PROVE  /\ stage'[o] = "RECORDED" => reached'[o]
             /\ reached'[o] => stage'[o] # "ABSENT"
  BY <1>1, <1>2, <1>6 DEF Settle, Record
<1>7. ASSUME NEW r \in Rows, BeginSettle(r) PROVE UNCHANGED deliveryVars
  BY <1>7 DEF BeginSettle
<1>8. ASSUME NEW i \in Incidents, Elsewhere(i) PROVE UNCHANGED messageVars
  BY <1>8 DEF Elsewhere
<1>9. UNCHANGED vars => UNCHANGED messageVars
  BY DEF vars
<1>10. /\ UNCHANGED messageVars => UNCHANGED deliveryVars
       /\ UNCHANGED deliveryVars =>
            (stage'[o] = "RECORDED" => stage[o] = "RECORDED") /\ UNCHANGED reached
  BY DEF messageVars, deliveryVars
<1> QED
  BY <1>2, <1>3, <1>4, <1>5, <1>6, <1>7, <1>8, <1>9, <1>10, PagesStay, RequestsOnlyRead DEF Next

\* What a request relies on stays true whatever happens to pages.
LEMMA AnswersPageStays ==
  ASSUME TypeOK, RecordsAreTrue, [Next]_vars, NEW q \in RequestStates, AnswersPage(q)
  PROVE  AnswersPage(q)'
<1>1. q.match # NoRow => q.match \in Rows /\ stage[q.match] # "ABSENT"
  BY DEF AnswersPage, RequestStates
<1> QED
  BY <1>1, PagesStay DEF AnswersPage

\* What a step may make of a request.
LEMMA RequestMoves ==
  ASSUME TypeOK, RecordsAreTrue, RequestsAnswerPages, [Next]_vars,
         NEW g \in Handlers, handler'[g] # handler[g]
  PROVE  LET p == handler[g] IN
         \E q \in RequestStates :
           /\ handler'[g] = q
           /\ \A h \in Handlers \ {g} : handler'[h] = handler[h]
           /\ UNCHANGED messageVars
           /\ \/ /\ q = Idle
                 /\ Commit(g) \/ HandlerDies(g)
              \/ /\ p.pc = "idle" /\ q.pc = "match" /\ q.match = p.match
                 /\ q.phone \in Phones
                 /\ UNCHANGED incidentVars
              \/ /\ p.pc = "match" /\ q.pc = "window"
                 /\ q.phone = p.phone /\ q.match = NewestSentTo(q.phone)
                 /\ UNCHANGED incidentVars
              \/ /\ p.pc = "window" /\ q.pc = IF q.match = NoRow THEN "write" ELSE "read"
                 /\ \A h \in Handlers : ~HoldsWindow(h, p.phone)
                 /\ q.phone = p.phone /\ q.match = p.match
                 /\ UNCHANGED incidentVars
              \/ /\ p.pc = "read" /\ q.pc = "write"
                 /\ q.phone = p.phone /\ q.match = p.match
                 /\ q.seen = incident[page[q.match].incident]
                 /\ UNCHANGED incidentVars
<1>1. PICK h \in Handlers : TwilioInbound(h) \/ HandlerDies(h)
  <2>1. ASSUME PagesMove PROVE UNCHANGED handler
    BY <2>1 DEF PagesMove, Page, Send, BeginSettle, Settle, requestVars
  <2>2. ASSUME NEW i \in Incidents, Elsewhere(i) PROVE UNCHANGED handler
    BY <2>2 DEF Elsewhere, requestVars
  <2>3. UNCHANGED vars => UNCHANGED handler
    BY DEF vars, requestVars
  <2> QED
    BY <2>1, <2>2, <2>3, NextParts
<1>2. \A q \in RequestStates : Becomes(h, q) =>
        g = h /\ handler'[g] = q /\ \A k \in Handlers \ {g} : handler'[k] = handler[k]
  BY BecomesFacts
<1>3. UNCHANGED messageVars
  BY <1>1, RequestsOnlyRead
<1>4. ASSUME NEW o \in Rows, NEW k \in Keywords, Arrive(h, o, k)
      PROVE  UNCHANGED incidentVars /\ handler[h].pc = "idle"
  BY <1>4 DEF Arrive
<1>5. CASE \E o \in Rows, k \in Keywords : Arrive(h, o, k)
  BY <1>2, <1>3, <1>4, <1>5, ArriveFacts
<1>6. CASE Match(h)
  <2>1. handler[h].pc = "match" /\ UNCHANGED incidentVars
    BY <1>6 DEF Match
  <2> QED
    BY <1>2, <1>3, <1>6, <2>1, MatchFacts
<1>7. CASE OpenWindow(h)
  <2>1. /\ handler[h].pc = "window" /\ UNCHANGED incidentVars
        /\ \A k \in Handlers : ~HoldsWindow(k, handler[h].phone)
    BY <1>7 DEF OpenWindow
  <2> QED
    BY <1>2, <1>3, <1>7, <2>1, OpenWindowFacts
<1>8. CASE ReadIncident(h)
  <2>1. handler[h].pc = "read" /\ UNCHANGED incidentVars
    BY <1>8 DEF ReadIncident
  <2> QED
    BY <1>2, <1>3, <1>8, <2>1, ReadIncidentFacts
<1>9. CASE Commit(h) \/ HandlerDies(h)
  <2>1. Becomes(h, Idle)
    BY <1>9 DEF Commit, HandlerDies
  <2> QED
    BY <1>2, <1>3, <1>9, <2>1, IdleType
<1> QED
  BY <1>1, <1>5, <1>6, <1>7, <1>8, <1>9 DEF TwilioInbound

LEMMA RequestsAnswerStep ==
  TypeOK /\ RecordsAreTrue /\ RequestsAnswerPages /\ [Next]_vars => RequestsAnswerPages'
<1> SUFFICES ASSUME TypeOK, RecordsAreTrue, RequestsAnswerPages, [Next]_vars,
                    NEW g \in Handlers
             PROVE  AnswersPage(handler[g])'
  BY DEF RequestsAnswerPages, AnswersPage
<1>1. handler[g] \in RequestStates /\ AnswersPage(handler[g])
  BY DEF RequestsAnswerPages, AnswersPage, TypeOK
<1>2. ASSUME NEW q \in RequestStates, AnswersPage(q), handler'[g] = q
      PROVE  AnswersPage(handler[g])'
  BY <1>2, AnswersPageStays DEF AnswersPage
<1>3. CASE handler'[g] = handler[g]
  BY <1>1, <1>2, <1>3
<1>4. CASE handler'[g] # handler[g]
  <2> DEFINE p == handler[g]
  <2>1. PICK q \in RequestStates :
          /\ handler'[g] = q
          /\ \/ q = Idle
             \/ /\ p.pc = "idle" /\ q.pc = "match" /\ q.match = p.match
                /\ q.phone \in Phones
             \/ /\ p.pc = "match" /\ q.pc = "window"
                /\ q.phone = p.phone /\ q.match = NewestSentTo(q.phone)
             \/ /\ p.pc = "window" /\ q.pc = IF q.match = NoRow THEN "write" ELSE "read"
                /\ q.phone = p.phone /\ q.match = p.match
             \/ /\ p.pc = "read" /\ q.pc = "write"
                /\ q.phone = p.phone /\ q.match = p.match
    BY <1>4, RequestMoves
  <2>2. CASE q = Idle
    BY <1>2, <2>1, <2>2, IdleType DEF AnswersPage
  <2>3. CASE p.pc = "idle" /\ q.pc = "match"
    <3>1. q.match = p.match /\ q.phone \in Phones
      BY <2>1, <2>3, IdleType
    <3>2. AnswersPage(q)
      BY <1>1, <2>3, <3>1 DEF AnswersPage
    <3> QED
      BY <1>2, <2>1, <3>2
  <2>4. CASE p.pc = "match" /\ q.pc = "window"
    <3>1. q.phone = p.phone /\ q.match = NewestSentTo(q.phone)
      BY <2>1, <2>4, IdleType
    <3>2. q.match # NoRow => stage[q.match] = "RECORDED" /\ page[q.match].phone = q.phone
      BY <3>1, NewestFacts DEF NewestSentTo
    <3>3. AnswersPage(q)
      BY <1>1, <2>4, <3>1, <3>2 DEF AnswersPage
    <3> QED
      BY <1>2, <2>1, <3>3
  <2>5. CASE p.pc \in {"window", "read"} /\ q.pc \in {"read", "write"}
    <3>1. /\ q.phone = p.phone /\ q.match = p.match
          /\ q.pc = "read" => q.match # NoRow
      BY <2>1, <2>5, IdleType
    <3>2. AnswersPage(q)
      BY <1>1, <2>5, <3>1 DEF AnswersPage
    <3> QED
      BY <1>2, <2>1, <3>2
  <2> QED
    BY <2>1, <2>2, <2>3, <2>4, <2>5
<1> QED
  BY <1>3, <1>4

-----------------------------------------------------------------------------
(***************************************************************************)
(* Requests of one phone take turns.                                       *)
(***************************************************************************)

LEMMA OneWindowStep ==
  TypeOK /\ RecordsAreTrue /\ RequestsAnswerPages /\ OneWindowPerPhone /\ [Next]_vars =>
    OneWindowPerPhone'
<1> SUFFICES ASSUME TypeOK, RecordsAreTrue, RequestsAnswerPages, OneWindowPerPhone, [Next]_vars
             PROVE  OneWindowPerPhone'
  OBVIOUS
<1> DEFINE Inside(q) == q.pc \in {"read", "write"}
<1>1. \A g, h \in Handlers :
        Inside(handler[g]) /\ Inside(handler[h]) /\ handler[g].phone = handler[h].phone => g = h
  BY DEF OneWindowPerPhone, HoldsWindow
<1>2. ASSUME NEW g \in Handlers, NEW h \in Handlers, g # h, handler'[g] # handler[g],
             Inside(handler'[g]), Inside(handler'[h]), handler'[g].phone = handler'[h].phone
      PROVE  FALSE
  <2> DEFINE p == handler[g]
  <2>1. PICK q \in RequestStates :
          /\ handler'[g] = q /\ handler'[h] = handler[h]
          /\ \/ q = Idle
             \/ q.pc \in {"match", "window"}
             \/ (\A k \in Handlers : ~HoldsWindow(k, p.phone)) /\ q.phone = p.phone
             \/ p.pc = "read" /\ q.phone = p.phone
    BY <1>2, RequestMoves
  <2>2. handler[h].phone = q.phone /\ Inside(handler[h]) /\ Inside(q)
    BY <1>2, <2>1
  <2>3. q # Idle /\ q.pc \notin {"match", "window"}
    BY <2>2, IdleType
  <2>4. CASE (\A k \in Handlers : ~HoldsWindow(k, p.phone)) /\ q.phone = p.phone
    BY <2>2, <2>4 DEF HoldsWindow
  <2>5. CASE p.pc = "read" /\ q.phone = p.phone
    BY <1>1, <1>2, <2>2, <2>5
  <2> QED
    BY <2>1, <2>3, <2>4, <2>5
<1>3. ASSUME NEW g \in Handlers, NEW h \in Handlers,
             Inside(handler'[g]), Inside(handler'[h]), handler'[g].phone = handler'[h].phone
      PROVE  g = h
  BY <1>1, <1>2, <1>3
<1> QED
  BY <1>3 DEF OneWindowPerPhone, HoldsWindow

\* The closes that replies have made change only by the commit of a request.
LEMMA ClosesMove ==
  ASSUME TypeOK, RecordsAreTrue, RequestsAnswerPages, [Next]_vars
  PROVE  \/ UNCHANGED closes
         \/ \E h \in Handlers, i \in Incidents :
              LET q == handler[h] e == [phone |-> q.phone, type |-> q.keyword] IN
              /\ handler'[h] = Idle
              /\ q.pc = "write" /\ q.match \in Rows
              /\ page[q.match] = [incident |-> i, phone |-> q.phone] /\ reached[q.match]
              /\ e \in CloseEvents
              /\ q.keyword = "ACK" => q.seen = "ACTIVE"
              /\ incident' = [incident EXCEPT ![i] = q.keyword]
              /\ closes' = [closes EXCEPT ![i] = Append(closes[i], e)]
              /\ closes[i] \in Seq(CloseEvents)
<1>1. ASSUME NEW h \in Handlers, Commit(h), ~UNCHANGED closes
      PROVE  \E i \in Incidents :
               LET q == handler[h] e == [phone |-> q.phone, type |-> q.keyword] IN
               /\ handler'[h] = Idle
               /\ q.pc = "write" /\ q.match \in Rows
               /\ page[q.match] = [incident |-> i, phone |-> q.phone] /\ reached[q.match]
               /\ e \in CloseEvents
               /\ q.keyword = "ACK" => q.seen = "ACTIVE"
               /\ incident' = [incident EXCEPT ![i] = q.keyword]
               /\ closes' = [closes EXCEPT ![i] = Append(closes[i], e)]
               /\ closes[i] \in Seq(CloseEvents)
  <2> DEFINE q == handler[h]
             e == [phone |-> q.phone, type |-> q.keyword]
  <2>1. ~UNCHANGED incidentVars
    BY <1>1 DEF incidentVars
  <2>2. PICK i \in Incidents :
          /\ q.pc = "write" /\ q.match \in Rows /\ q.phone \in Phones
          /\ page[q.match] = [incident |-> i, phone |-> q.phone] /\ reached[q.match]
          /\ q.keyword \in {"ACK", "RESOLVED"}
          /\ q.keyword = "ACK" => q.seen = "ACTIVE"
          /\ incident' = [incident EXCEPT ![i] = q.keyword]
          /\ closes' = [closes EXCEPT ![i] = Append(closes[i], e)]
    BY <1>1, <2>1, CommitFacts
  <2>3. e \in CloseEvents
    BY <2>2 DEF CloseEvents
  <2>4. handler'[h] = Idle
    BY <1>1, IdleType, BecomesFacts DEF Commit
  <2>5. closes[i] \in Seq(CloseEvents)
    BY DEF TypeOK
  <2> QED
    BY <2>2, <2>3, <2>4, <2>5
<1>2. ASSUME NEW h \in Handlers, TwilioInbound(h) \/ HandlerDies(h), ~Commit(h)
      PROVE  UNCHANGED closes
  BY <1>2 DEF TwilioInbound, HandlerDies, Arrive, Match, OpenWindow, ReadIncident, incidentVars
<1>3. ASSUME PagesMove PROVE UNCHANGED closes
  BY <1>3 DEF PagesMove, Page, Send, BeginSettle, Settle, incidentVars
<1>4. ASSUME NEW i \in Incidents, Elsewhere(i) PROVE UNCHANGED closes
  BY <1>4 DEF Elsewhere
<1>5. UNCHANGED vars => UNCHANGED closes
  BY DEF vars, incidentVars
<1> QED
  BY <1>1, <1>2, <1>3, <1>4, <1>5, NextParts

\* An incident that a reply has closed stays out of the active state.
LEMMA ClosedStaysClosed ==
  ASSUME IInv, [Next]_vars, NEW i \in Incidents, closes'[i] # <<>>
  PROVE  incident'[i] # "ACTIVE"
<1>1. /\ TypeOK /\ RecordsAreTrue /\ RequestsAnswerPages
      /\ incident \in [Incidents -> States] /\ closes \in [Incidents -> Seq(CloseEvents)]
      /\ closes[i] # <<>> => incident[i] # "ACTIVE"
  BY DEF IInv, TypeOK, ClosesAreSeen
<1>2. CASE UNCHANGED closes
  <2>1. ASSUME NEW j \in Incidents, Elsewhere(j) PROVE incident'[i] # "ACTIVE"
    BY <1>1, <1>2, <2>1 DEF Elsewhere
  <2>2. ASSUME NEW h \in Handlers, TwilioInbound(h) \/ HandlerDies(h)
        PROVE  incident'[i] # "ACTIVE"
    <3>1. CASE Commit(h)
      <4>1. CASE UNCHANGED incidentVars
        BY <1>1, <1>2, <4>1 DEF incidentVars
      <4>2. CASE ~UNCHANGED incidentVars
        <5>1. PICK j \in Incidents :
                /\ handler[h].keyword \in {"ACK", "RESOLVED"}
                /\ incident' = [incident EXCEPT ![j] = handler[h].keyword]
          BY ZenonT(30), <1>1, <3>1, <4>2, CommitFacts
        <5> QED
          BY <1>1, <1>2, <5>1
      <4> QED
        BY <4>1, <4>2
    <3>2. CASE ~Commit(h)
      BY <1>1, <1>2, <2>2, <3>2
      DEF TwilioInbound, HandlerDies, Arrive, Match, OpenWindow, ReadIncident, incidentVars
    <3> QED
      BY <3>1, <3>2
  <2>3. ASSUME PagesMove PROVE UNCHANGED incidentVars
    BY <2>3 DEF PagesMove, Page, Send, BeginSettle, Settle
  <2>4. UNCHANGED vars => UNCHANGED incidentVars
    BY DEF vars
  <2> QED
    BY <1>1, <1>2, <2>1, <2>2, <2>3, <2>4, NextParts DEF incidentVars
<1>3. CASE ~UNCHANGED closes
  <2>1. PICK h \in Handlers, j \in Incidents :
          LET q == handler[h] e == [phone |-> q.phone, type |-> q.keyword] IN
          /\ e \in CloseEvents
          /\ incident' = [incident EXCEPT ![j] = q.keyword]
          /\ closes' = [closes EXCEPT ![j] = Append(closes[j], e)]
    BY <1>1, <1>3, ClosesMove
  <2>2. handler[h].keyword # "ACTIVE"
    BY <2>1 DEF CloseEvents
  <2> QED
    BY <1>1, <2>1, <2>2
<1> QED
  BY <1>2, <1>3

\* No request about to close an active incident overlooks a close by its phone.
LEMMA ClosesSeenStep == IInv /\ [Next]_vars => ClosesAreSeen'
<1> SUFFICES ASSUME IInv, [Next]_vars, NEW h \in Handlers,
                    handler'[h].pc = "write", handler'[h].match # NoRow,
                    handler'[h].seen = "ACTIVE",
                    NEW n \in DOMAIN (closes'[page'[handler'[h].match].incident])
             PROVE  closes'[page'[handler'[h].match].incident][n].phone # handler'[h].phone
  BY ClosedStaysClosed DEF ClosesAreSeen
<1> DEFINE q == handler'[h]
           i == page[q.match].incident
<1>1. /\ TypeOK /\ RecordsAreTrue /\ RequestsAnswerPages /\ RequestsAnswerPages'
      /\ handler \in [Handlers -> RequestStates] /\ handler' \in [Handlers -> RequestStates]
      /\ closes \in [Incidents -> Seq(CloseEvents)]
  BY RequestsAnswerStep, RequestsStep DEF IInv, TypeOK
<1>2. CASE q = handler[h]
  <2>1. q.match \in Rows /\ stage[q.match] = "RECORDED"
    BY <1>1, <1>2 DEF RequestsAnswerPages, AnswersPage, RequestStates
  <2>2. page'[q.match] = page[q.match] /\ i \in Incidents
    BY <1>1, <2>1, PagesStay, PageFacts
  <2>3. \A m \in DOMAIN closes[i] : closes[i][m].phone # q.phone
    BY <1>2 DEF IInv, ClosesAreSeen
  <2>4. CASE closes'[i] = closes[i]
    BY <2>2, <2>3, <2>4
  <2>5. CASE closes'[i] # closes[i]
    <3>1. PICK g \in Handlers, j \in Incidents :
            LET e == [phone |-> handler[g].phone, type |-> handler[g].keyword] IN
            /\ handler'[g] = Idle /\ handler[g].pc = "write"
            /\ e \in CloseEvents
            /\ closes' = [closes EXCEPT ![j] = Append(closes[j], e)]
            /\ closes[j] \in Seq(CloseEvents)
      BY <1>1, <2>5, ClosesMove
    <3>2. j = i
      BY <1>1, <2>2, <2>5, <3>1
    <3>3. g # h
      BY <3>1, IdleType
    <3>4. handler[g].phone # q.phone
      BY <1>2, <3>1, <3>3 DEF IInv, OneWindowPerPhone, HoldsWindow
    <3> DEFINE e == [phone |-> handler[g].phone, type |-> handler[g].keyword]
    <3>5. /\ closes'[i] = Append(closes[i], e) /\ closes[i] \in Seq(CloseEvents)
          /\ e \in CloseEvents /\ e.phone = handler[g].phone
      BY <1>1, <2>2, <3>1, <3>2
    <3> HIDE DEF e
    <3>6. \A m \in DOMAIN closes'[i] :
            (m \in DOMAIN closes[i] /\ closes'[i][m] = closes[i][m]) \/ closes'[i][m] = e
      BY SMTT(20), <3>5, AppendFacts
    <3> QED
      BY <2>2, <2>3, <3>4, <3>5, <3>6
  <2> QED
    BY <2>4, <2>5
<1>3. CASE q # handler[h]
  <2>1. /\ q = Idle \/ q.pc \in {"match", "window", "read"} \/ q.match = NoRow
           \/ /\ q.match = handler[h].match /\ handler[h].pc = "read"
              /\ q.seen = incident[i] /\ UNCHANGED incidentVars
        /\ UNCHANGED messageVars
    BY <1>1, <1>3, RequestMoves
  <2>2. /\ q.match = handler[h].match /\ handler[h].pc = "read"
        /\ incident[i] = "ACTIVE" /\ UNCHANGED <<closes, page>>
    BY <2>1, IdleType DEF incidentVars, messageVars
  <2>3. i \in Incidents
    <3>1. q.match \in Rows /\ stage[q.match] = "RECORDED"
      BY <1>1, <2>2 DEF RequestsAnswerPages, AnswersPage, RequestStates
    <3> QED
      BY <1>1, <3>1, PageFacts
  <2>4. closes[i] = <<>>
    BY <2>2, <2>3 DEF IInv, ClosesAreSeen
  <2> QED
    BY <2>2, <2>4
<1> QED
  BY <1>2, <1>3

LEMMA TurnsStep == IInv /\ [Next]_vars => PhonesTakeTurns'
<1> SUFFICES ASSUME IInv, [Next]_vars, NEW i \in Incidents,
                    NEW m \in DOMAIN closes'[i], NEW n \in DOMAIN closes'[i],
                    m < n, closes'[i][m].phone = closes'[i][n].phone
             PROVE  closes'[i][n].type = "RESOLVED"
  BY DEF PhonesTakeTurns
<1>1. /\ TypeOK /\ RecordsAreTrue /\ RequestsAnswerPages
      /\ handler \in [Handlers -> RequestStates]
      /\ closes \in [Incidents -> Seq(CloseEvents)]
  BY DEF IInv, TypeOK
<1>2. \A k, l \in DOMAIN closes[i] :
        k < l /\ closes[i][k].phone = closes[i][l].phone => closes[i][l].type = "RESOLVED"
  BY DEF IInv, PhonesTakeTurns
<1>3. CASE closes'[i] = closes[i]
  BY <1>2, <1>3
<1>4. CASE closes'[i] # closes[i]
  <2>1. PICK h \in Handlers, j \in Incidents :
          LET q == handler[h] e == [phone |-> q.phone, type |-> q.keyword] IN
          /\ q.pc = "write" /\ q.match \in Rows
          /\ page[q.match] = [incident |-> j, phone |-> q.phone]
          /\ e \in CloseEvents
          /\ q.keyword = "ACK" => q.seen = "ACTIVE"
          /\ closes' = [closes EXCEPT ![j] = Append(closes[j], e)]
    BY <1>1, <1>4, ClosesMove
  <2> DEFINE q == handler[h]
             e == [phone |-> q.phone, type |-> q.keyword]
             N == Len(closes[i])
  <2>2. j = i
    BY <1>1, <1>4, <2>1
  <2>3. /\ N \in Nat /\ DOMAIN closes[i] = 1..N /\ DOMAIN closes'[i] = 1..(N + 1)
        /\ \A k \in 1..N : closes'[i][k] = closes[i][k]
        /\ closes'[i][N + 1] = e
    BY <1>1, <2>1, <2>2, AppendFacts
  <2>4. CASE n \in 1..N
    BY <1>2, <2>3, <2>4
  <2>5. CASE n = N + 1 /\ q.keyword = "ACK"
    <3>1. page[q.match].incident = i /\ q.match # NoRow /\ q.seen = "ACTIVE"
      BY <2>1, <2>2, <2>5
    <3>2. \A k \in DOMAIN closes[i] : closes[i][k].phone # q.phone
      BY <2>1, <3>1 DEF IInv, ClosesAreSeen
    <3>3. m \in 1..N
      BY <2>3, <2>5
    <3> QED
      BY <2>3, <2>5, <3>2, <3>3
  <2>6. CASE n = N + 1 /\ q.keyword # "ACK"
    BY <2>1, <2>3, <2>6 DEF CloseEvents
  <2> QED
    BY <2>3, <2>4, <2>5, <2>6
<1> QED
  BY <1>3, <1>4

LEMMA PagedStep == IInv /\ [Next]_vars => ClosedByThePaged'
<1> SUFFICES ASSUME IInv, [Next]_vars, NEW i \in Incidents, NEW n \in DOMAIN closes'[i]
             PROVE  \E o \in Rows :
                      /\ page'[o] = [incident |-> i, phone |-> closes'[i][n].phone]
                      /\ reached'[o]
  BY DEF ClosedByThePaged
<1>1. /\ TypeOK /\ RecordsAreTrue /\ RequestsAnswerPages
      /\ closes \in [Incidents -> Seq(CloseEvents)]
  BY DEF IInv, TypeOK
<1>2. ASSUME NEW o \in Rows, reached[o]
      PROVE  page'[o] = page[o] /\ reached'[o]
  BY <1>1, <1>2, PagesStay DEF RecordsAreTrue
<1>3. ASSUME n \in DOMAIN closes[i], closes'[i][n] = closes[i][n]
      PROVE  \E o \in Rows :
               /\ page'[o] = [incident |-> i, phone |-> closes'[i][n].phone]
               /\ reached'[o]
  <2>1. PICK o \in Rows : page[o] = [incident |-> i, phone |-> closes[i][n].phone] /\ reached[o]
    BY <1>3 DEF IInv, ClosedByThePaged
  <2> QED
    BY <1>2, <1>3, <2>1
<1>4. CASE closes'[i] = closes[i]
  BY <1>3, <1>4
<1>5. CASE closes'[i] # closes[i]
  <2>1. PICK h \in Handlers, j \in Incidents :
          LET q == handler[h] e == [phone |-> q.phone, type |-> q.keyword] IN
          /\ q.match \in Rows
          /\ page[q.match] = [incident |-> j, phone |-> q.phone] /\ reached[q.match]
          /\ e \in CloseEvents
          /\ closes' = [closes EXCEPT ![j] = Append(closes[j], e)]
    BY <1>1, <1>5, ClosesMove
  <2> DEFINE q == handler[h]
             e == [phone |-> q.phone, type |-> q.keyword]
             N == Len(closes[i])
  <2>2. j = i
    BY <1>1, <1>5, <2>1
  <2>3. /\ N \in Nat /\ DOMAIN closes[i] = 1..N /\ DOMAIN closes'[i] = 1..(N + 1)
        /\ \A k \in 1..N : closes'[i][k] = closes[i][k]
        /\ closes'[i][N + 1] = e
    BY <1>1, <2>1, <2>2, AppendFacts
  <2>4. CASE n \in 1..N
    BY <1>3, <2>3, <2>4
  <2>5. CASE n = N + 1
    BY <1>2, <2>1, <2>2, <2>3, <2>5
  <2> QED
    BY <2>3, <2>4, <2>5
<1> QED
  BY <1>4, <1>5

-----------------------------------------------------------------------------
(***************************************************************************)
(* The theorems.                                                           *)
(***************************************************************************)

LEMMA InvInit == Init => IInv
<1> SUFFICES ASSUME Init PROVE IInv
  OBVIOUS
<1>1. TypeOK
  BY TypeInit
<1>2. \A h \in Handlers : handler[h] = Idle
  BY DEF Init
<1>3. \A i \in Incidents : closes[i] = <<>> /\ DOMAIN closes[i] = {}
  BY DEF Init
<1>4. RequestsAnswerPages /\ OneWindowPerPhone
  BY <1>2, IdleType DEF RequestsAnswerPages, AnswersPage, OneWindowPerPhone, HoldsWindow
<1>5. ClosesAreSeen
  BY <1>2, <1>3, IdleType DEF ClosesAreSeen
<1>6. PhonesTakeTurns /\ ClosedByThePaged
  BY <1>3 DEF PhonesTakeTurns, ClosedByThePaged
<1>7. RecordsAreTrue
  BY DEF Init, DeliveryInit, RecordsAreTrue
<1> QED
  BY <1>1, <1>4, <1>5, <1>6, <1>7 DEF IInv

\* The invariant that ties requests to pages, messages and closes.
THEOREM InductiveInvariant == Spec => []IInv
<1>1. IInv /\ [Next]_vars => IInv'
  BY TypeStep, RecordsStep, RequestsAnswerStep, OneWindowStep, ClosesSeenStep, TurnsStep,
     PagedStep DEF IInv
<1> QED
  BY <1>1, InvInit, PTL DEF Spec

\* Variables keep their types, and the messages table has each recorded row once.
THEOREM TypeCorrect == Spec => []TypeOK
<1>1. IInv => TypeOK
  BY DEF IInv
<1> QED
  BY <1>1, InductiveInvariant, PTL

\* For any number of concurrent and repeated replies, a phone never acknowledges an
\* incident that it has closed before.
THEOREM TurnsAreTaken == Spec => []PhonesTakeTurns
<1>1. IInv => PhonesTakeTurns
  BY DEF IInv
<1> QED
  BY <1>1, InductiveInvariant, PTL

\* Whoever closes an incident by a reply was sent a page about it.
THEOREM ClosersWerePaged == Spec => []ClosedByThePaged
<1>1. IInv => ClosedByThePaged
  BY DEF IInv
<1> QED
  BY <1>1, InductiveInvariant, PTL
=============================================================================
