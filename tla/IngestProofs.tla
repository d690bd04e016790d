---------------------------- MODULE IngestProofs ----------------------------
(***************************************************************************)
(* What the ingest workers guarantee for any events, dedup keys and        *)
(* consumers, and any number of crashes and rebalances: one open incident  *)
(* per key, one incident per event, and no offset committed past an event  *)
(* that has neither an incident of its key nor a place in the dead letters.*)
(***************************************************************************)
EXTENDS Ingest, TLAPS

USE IngestAssumption

-----------------------------------------------------------------------------
\* A consumer that takes a step within handle_message keeps its event.
LEMMA StaysInHand ==
  ASSUME TypeOK, NEW c \in Consumers, NEW s \in Steps \ {"poll"}, pc[c] # "poll",
         pc' = [pc EXCEPT ![c] = s], UNCHANGED event
  PROVE  /\ pc' \in [Consumers -> Steps]
         /\ event' \in [Consumers -> Events \cup {NoEvent}]
         /\ \A d \in Consumers : event'[d] = NoEvent <=> pc'[d] = "poll"
BY DEF TypeOK

\* One that is done with its event, or dead, has none.
LEMMA LetsGo ==
  ASSUME TypeOK, NEW c \in Consumers,
         pc' = [pc EXCEPT ![c] = "poll"], event' = [event EXCEPT ![c] = NoEvent]
  PROVE  /\ pc' \in [Consumers -> Steps]
         /\ event' \in [Consumers -> Events \cup {NoEvent}]
         /\ \A d \in Consumers : event'[d] = NoEvent <=> pc'[d] = "poll"
BY DEF TypeOK, Steps

LEMMA TypeInit == Init => TypeOK
BY DEF Init, TypeOK, Steps

LEMMA TypeStep == TypeOK /\ [Next]_vars => TypeOK'
<1> SUFFICES ASSUME TypeOK, [Next]_vars PROVE TypeOK'
  OBVIOUS
<1> USE DEF group, database
<1>1. ASSUME NEW e \in Events, Publish(e) PROVE TypeOK'
  <2>1. log' \in Seq(Events) /\ Len(log') = Len(log) + 1
    BY <1>1 DEF Publish, TypeOK
  <2> QED
    BY <1>1, <2>1 DEF Publish, TypeOK
<1>2. ASSUME NEW k \in Keys, Close(k) PROVE TypeOK'
  BY <1>2 DEF Close, TypeOK
<1>3. ASSUME NEW c \in Consumers, Assign(c) PROVE TypeOK'
  BY <1>3 DEF Assign, TypeOK
<1>4. ASSUME NEW c \in Consumers, Rebalance(c) PROVE TypeOK'
  BY <1>4 DEF Rebalance, TypeOK
<1>5. ASSUME NEW c \in Consumers, Fail(c) PROVE TypeOK'
  <2>1. faults' \in 0..MaxFaults /\ owner' \in Consumers \cup {Nobody}
    BY <1>5 DEF Fail, Leave, TypeOK
  <2>2. /\ pc' = [pc EXCEPT ![c] = "poll"] /\ event' = [event EXCEPT ![c] = NoEvent]
        /\ UNCHANGED <<log, committed, database, pos>>
    BY <1>5 DEF Fail, Leave
  <2> QED
    BY <2>1, <2>2, LetsGo DEF TypeOK
<1>6. ASSUME NEW c \in Consumers, Poll(c) PROVE TypeOK'
  <2>1. log[pos[c] + 1] \in Events
    BY <1>6 DEF Poll, TypeOK
  <2> QED
    <3>1. /\ event' = [event EXCEPT ![c] = log[pos[c] + 1]]
          /\ \E s \in {"dlq", "seen"} : pc' = [pc EXCEPT ![c] = s]
          /\ pos' = [pos EXCEPT ![c] = pos[c] + 1] /\ pos[c] < Len(log)
          /\ UNCHANGED <<group, database, faults>>
      BY <1>6 DEF Poll
    <3> QED
      BY SMTT(20), <2>1, <3>1 DEF TypeOK, Steps
<1>7. ASSUME NEW c \in Consumers, SendToDlq(c) PROVE TypeOK'
  BY <1>7, StaysInHand DEF SendToDlq, Answer, TypeOK, Steps
<1>8. ASSUME NEW c \in Consumers, CheckSeen(c) PROVE TypeOK'
  <2>1. PICK s \in Steps \ {"poll"} : pc' = [pc EXCEPT ![c] = s] /\ UNCHANGED event
    BY <1>8 DEF CheckSeen, Answer, Goto, Steps
  <2>2. /\ pc[c] # "poll"
        /\ UNCHANGED <<group, database, pos, faults>>
    BY <1>8 DEF CheckSeen, Answer
  <2> QED
    BY <2>1, <2>2, StaysInHand DEF TypeOK
<1>9. ASSUME NEW c \in Consumers, CheckOpen(c) PROVE TypeOK'
  <2>1. CASE Leave(c)
    BY <1>9, <2>1, LetsGo DEF CheckOpen, Answer, Leave, TypeOK
  <2>2. CASE ~Leave(c)
    <3>1. PICK s \in Steps \ {"poll"} : pc' = [pc EXCEPT ![c] = s] /\ UNCHANGED event
      BY <1>9, <2>2 DEF CheckOpen, Answer, Goto, Steps
    <3>2. /\ pc[c] # "poll"
          /\ UNCHANGED <<group, database, pos, faults>>
      BY <1>9, <2>2 DEF CheckOpen, Answer
    <3> QED
      BY <3>1, <3>2, StaysInHand DEF TypeOK
  <2> QED
    BY <2>1, <2>2
<1>10. ASSUME NEW c \in Consumers, InsertIncident(c) PROVE TypeOK'
  BY <1>10, StaysInHand DEF InsertIncident, Goto, TypeOK, Steps
<1>11. ASSUME NEW c \in Consumers, InsertAudit(c) PROVE TypeOK'
  BY <1>11, StaysInHand DEF InsertAudit, Goto, TypeOK, Steps
<1>12. ASSUME NEW c \in Consumers, CommitIncident(c) PROVE TypeOK'
  BY <1>12, StaysInHand DEF CommitIncident, Answer, TypeOK, Steps
<1>13. ASSUME NEW c \in Consumers, CommitOffset(c) PROVE TypeOK'
  <2>1. committed' \in 0..Len(log) /\ UNCHANGED log
    BY <1>13 DEF CommitOffset, TypeOK
  <2> QED
    BY <1>13, <2>1, LetsGo DEF CommitOffset, TypeOK
<1>14. CASE UNCHANGED vars
  BY <1>14 DEF vars, TypeOK
<1> QED
  BY <1>1, <1>2, <1>3, <1>4, <1>5, <1>6, <1>7, <1>8, <1>9, <1>10, <1>11, <1>12, <1>13,
     <1>14 DEF Next, Handle

\* Every variable keeps its type, offsets stay within the log, and a consumer has an
\* event in hand exactly while it handles one.
THEOREM TypeCorrect == Spec => []TypeOK
<1> QED
  BY TypeInit, TypeStep, PTL DEF Spec

-----------------------------------------------------------------------------
(***************************************************************************)
(* What any step leaves as it is: the log below its end, and what covers   *)
(* an event.                                                               *)
(***************************************************************************)
LEMMA LogGrows ==
  ASSUME TypeOK, [Next]_vars
  PROVE  /\ Len(log) <= Len(log')
         /\ \A n \in 1..Len(log) : log'[n] = log[n] /\ log[n] \in Events
<1>1. \A n \in 1..Len(log) : log[n] \in Events
  BY DEF TypeOK
<1>2. ASSUME NEW e \in Events, Publish(e)
      PROVE  Len(log) <= Len(log') /\ \A n \in 1..Len(log) : log'[n] = log[n]
  BY <1>2 DEF Publish, TypeOK
<1>3. CASE UNCHANGED log
  BY <1>1, <1>3 DEF TypeOK
<1>4. ASSUME NEW c \in Consumers, Handle(c) PROVE UNCHANGED log
  BY <1>4 DEF Handle, Poll, SendToDlq, CheckSeen, CheckOpen, InsertIncident, InsertAudit,
       CommitIncident, CommitOffset, group
<1>5. ASSUME NEW c \in Consumers, Assign(c) \/ Rebalance(c) \/ Fail(c) PROVE UNCHANGED log
  BY <1>5 DEF Assign, Rebalance, Fail
<1>6. ASSUME NEW k \in Keys, Close(k) PROVE UNCHANGED log
  BY <1>6 DEF Close, group
<1>7. UNCHANGED vars => UNCHANGED log
  BY DEF vars, group
<1> QED
  BY <1>1, <1>2, <1>3, <1>4, <1>5, <1>6, <1>7 DEF Next

LEMMA RecordsGrow ==
  ASSUME TypeOK, [Next]_vars
  PROVE  /\ \A e \in Events : /\ created[e] \in Nat /\ created'[e] \in Nat
                              /\ created'[e] >= created[e]
         /\ dlq \subseteq dlq'
<1>1. \A e \in Events : created[e] \in Nat /\ created'[e] \in Nat
  BY TypeStep DEF TypeOK
<1>2. UNCHANGED <<created, dlq>> => \A e \in Events : created'[e] >= created[e]
  BY <1>1
<1>3. ASSUME NEW c \in Consumers, SendToDlq(c) PROVE UNCHANGED created /\ dlq \subseteq dlq'
  BY <1>3 DEF SendToDlq
<1>4. ASSUME NEW c \in Consumers, CommitIncident(c)
      PROVE  UNCHANGED dlq /\ \A e \in Events : created'[e] >= created[e]
  BY <1>1, <1>4 DEF CommitIncident, TypeOK
<1>5. ASSUME NEW c \in Consumers, Handle(c), ~SendToDlq(c), ~CommitIncident(c)
      PROVE  UNCHANGED <<created, dlq>>
  BY <1>5 DEF Handle, Poll, CheckSeen, CheckOpen, InsertIncident, InsertAudit, CommitOffset,
       database
<1>6. ASSUME NEW c \in Consumers, Assign(c) \/ Rebalance(c) \/ Fail(c)
      PROVE  UNCHANGED <<created, dlq>>
  BY <1>6 DEF Assign, Rebalance, Fail, database
<1>7. ASSUME NEW e \in Events, Publish(e) PROVE UNCHANGED <<created, dlq>>
  BY <1>7 DEF Publish, database
<1>8. ASSUME NEW k \in Keys, Close(k) PROVE UNCHANGED <<created, dlq>>
  BY <1>8 DEF Close
<1>9. UNCHANGED vars => UNCHANGED <<created, dlq>>
  BY DEF vars, database
<1> QED
  BY <1>1, <1>2, <1>3, <1>4, <1>5, <1>6, <1>7, <1>8, <1>9 DEF Next

LEMMA CoveredStays ==
  ASSUME TypeOK, [Next]_vars, NEW e \in Events, Covered(e)
  PROVE  Covered(e)'
<1>1. CASE e \in Malformed
  BY <1>1, RecordsGrow DEF Covered
<1>2. CASE e \notin Malformed
  <2>1. PICK f \in Events : Key[f] = Key[e] /\ created[f] > 0
    BY <1>2 DEF Covered
  <2>2. created'[f] > 0
    BY <2>1, RecordsGrow
  <2> QED
    BY <1>2, <2>1, <2>2 DEF Covered
<1> QED
  BY <1>1, <1>2

-----------------------------------------------------------------------------
\* The committed offset is the owner's position, which is past covered events only.
LEMMA NothingIsLostStep ==
  ASSUME IInv, [Next]_vars PROVE NothingIsLost'
<1> USE DEF IInv
<1>1. CASE UNCHANGED committed
  <2>1. \A n \in 1..committed : n \in 1..Len(log) /\ log[n] \in Events /\ log'[n] = log[n]
    BY LogGrows DEF TypeOK
  <2>2. \A n \in 1..committed : Covered(log[n])'
    BY <2>1, CoveredStays DEF NothingIsLost
  <2> QED
    BY <1>1, <2>2 DEF NothingIsLost
<1>2. ASSUME NEW c \in Consumers, CommitOffset(c), owner = c PROVE NothingIsLost'
  <2>1. committed' = pos[c] /\ pc[c] = "offset" /\ UNCHANGED <<log, created, dlq>>
    BY <1>2 DEF CommitOffset, database
  <2>2. \A n \in 1..pos[c] : Covered(log[n])
    BY <1>2, <2>1 DEF PositionsAreCovered
  <2>3. \A n \in 1..pos[c] : log[n] \in Events
    BY LogGrows DEF TypeOK
  <2>4. \A n \in 1..pos[c] : Covered(log[n])'
    BY <2>1, <2>2, <2>3, CoveredStays
  <2> QED
    BY <2>1, <2>4 DEF NothingIsLost
<1>3. ASSUME NEW c \in Consumers, Handle(c), ~(CommitOffset(c) /\ owner = c)
      PROVE  UNCHANGED committed
  BY <1>3 DEF Handle, Poll, SendToDlq, CheckSeen, CheckOpen, InsertIncident, InsertAudit,
       CommitIncident, CommitOffset, group
<1>4. ASSUME NEW c \in Consumers, Assign(c) \/ Rebalance(c) \/ Fail(c)
      PROVE  UNCHANGED committed
  BY <1>4 DEF Assign, Rebalance, Fail
<1>5. ASSUME NEW e \in Events, Publish(e) PROVE UNCHANGED committed
  BY <1>5 DEF Publish
<1>6. ASSUME NEW k \in Keys, Close(k) PROVE UNCHANGED committed
  BY <1>6 DEF Close, group
<1>7. UNCHANGED vars => UNCHANGED committed
  BY DEF vars, group
<1> QED
  BY <1>1, <1>2, <1>3, <1>4, <1>5, <1>6, <1>7 DEF Next

-----------------------------------------------------------------------------
(***************************************************************************)
(* Keys are held from the insert to the commit.                            *)
(***************************************************************************)
\* Where nobody's step is after an insert, and no record or open incident is new, the
\* holders of keys are at most those there were.
LEMMA HoldersFewer ==
  ASSUME IInv, NEW c \in Consumers, NEW s \in Steps \ {"audit", "save"},
         pc' = [pc EXCEPT ![c] = s],
         \A d \in Consumers \ {c} : event'[d] = event[d],
         \A k \in Keys : open'[k] <= open[k], open' \in [Keys -> Nat], UNCHANGED created
  PROVE  KeysAreHeld' /\ OneOpenPerKey' /\ OncePerEvent'
<1> USE DEF IInv
<1>1. \A d \in Consumers : \A k \in Keys : Holds(d, k)' => Holds(d, k) /\ pc'[d] = pc[d]
      /\ event'[d] = event[d]
  BY DEF TypeOK, Holds
<1>2. OneOpenPerKey'
  BY DEF OneOpenPerKey, TypeOK
<1>3. OncePerEvent'
  BY DEF OncePerEvent
<1>4. KeysAreHeld'
  <2> SUFFICES ASSUME NEW d \in Consumers, NEW k \in Keys, Holds(d, k)'
               PROVE  /\ open'[k] = 0
                      /\ pc'[d] = "save" => created'[event'[d]] = 0
                      /\ \A b \in Consumers : Holds(b, k)' => b = d
    BY DEF KeysAreHeld
  <2>1. Holds(d, k) /\ pc'[d] = pc[d] /\ event'[d] = event[d]
    BY <1>1
  <2>2. open[k] = 0
    BY <2>1 DEF KeysAreHeld
  <2>3. open'[k] = 0
    BY <2>2 DEF TypeOK
  <2> QED
    BY <1>1, <2>1, <2>3 DEF KeysAreHeld
<1> QED
  BY <1>2, <1>3, <1>4

\* The same when no consumer's step changes.
LEMMA HoldersSame ==
  ASSUME IInv, UNCHANGED <<pc, event, created>>,
         \A k \in Keys : open'[k] <= open[k], open' \in [Keys -> Nat]
  PROVE  KeysAreHeld' /\ OneOpenPerKey' /\ OncePerEvent'
BY DEF IInv, TypeOK, KeysAreHeld, OneOpenPerKey, OncePerEvent, Holds

LEMMA KeysStep ==
  ASSUME IInv, [Next]_vars PROVE KeysAreHeld' /\ OneOpenPerKey' /\ OncePerEvent'
<1> USE DEF IInv, database
<1>0. \A k \in Keys : open[k] \in Nat /\ open[k] <= open[k]
  BY DEF TypeOK
<1>1. ASSUME NEW e \in Events, Publish(e) PROVE KeysAreHeld' /\ OneOpenPerKey' /\ OncePerEvent'
  BY <1>0, <1>1, HoldersSame DEF Publish, TypeOK
<1>2. ASSUME NEW k \in Keys, Close(k) PROVE KeysAreHeld' /\ OneOpenPerKey' /\ OncePerEvent'
  BY <1>0, <1>2, HoldersSame DEF Close, TypeOK
<1>3. ASSUME NEW c \in Consumers, Assign(c) \/ Rebalance(c)
      PROVE  KeysAreHeld' /\ OneOpenPerKey' /\ OncePerEvent'
  BY <1>0, <1>3, HoldersSame DEF Assign, Rebalance, TypeOK
<1>4. ASSUME NEW c \in Consumers, UNCHANGED <<created, open>>,
             NEW s \in Steps \ {"audit", "save"}, pc' = [pc EXCEPT ![c] = s],
             \A d \in Consumers \ {c} : event'[d] = event[d]
      PROVE  KeysAreHeld' /\ OneOpenPerKey' /\ OncePerEvent'
  BY <1>0, <1>4, HoldersFewer DEF TypeOK
<1>5. ASSUME NEW c \in Consumers,
             \/ Fail(c) \/ Poll(c) \/ SendToDlq(c) \/ CheckSeen(c) \/ CheckOpen(c)
             \/ CommitOffset(c)
      PROVE  KeysAreHeld' /\ OneOpenPerKey' /\ OncePerEvent'
  <2>1. UNCHANGED <<created, open>>
    BY <1>5 DEF Fail, Poll, SendToDlq, CheckSeen, CheckOpen, CommitOffset
  <2>2. \E s \in Steps \ {"audit", "save"} : pc' = [pc EXCEPT ![c] = s]
    BY <1>5 DEF Fail, Poll, SendToDlq, CheckSeen, CheckOpen, CommitOffset, Leave, Answer,
         Goto, Steps
  <2>3. \A d \in Consumers \ {c} : event'[d] = event[d]
    BY <1>5 DEF Fail, Poll, SendToDlq, CheckSeen, CheckOpen, CommitOffset, Leave, Answer,
         Goto, TypeOK
  <2> QED
    BY <1>4, <2>1, <2>2, <2>3
<1>6. ASSUME NEW c \in Consumers, InsertIncident(c)
      PROVE  KeysAreHeld' /\ OneOpenPerKey' /\ OncePerEvent'
  <2> DEFINE k == Key[event[c]]
  <2>1. /\ pc[c] = "insert" /\ \A d \in Consumers : ~Holds(d, k)
        /\ UNCHANGED <<event, created, open>>
    BY <1>6 DEF InsertIncident, Goto
  <2>2. event[c] \in Events /\ k \in Keys
    BY <2>1 DEF TypeOK
  <2>3. CASE open[k] > 0
    <3>1. pc' = [pc EXCEPT ![c] = "seenAgain"]
      BY <1>6, <2>3 DEF InsertIncident, Goto
    <3> QED
      BY <1>4, <2>1, <3>1 DEF Steps
  <2>4. CASE ~(open[k] > 0)
    <3>1. pc' = [pc EXCEPT ![c] = "audit"]
      BY <1>6, <2>4 DEF InsertIncident, Goto
    <3>2. open[k] = 0
      BY <1>0, <2>2, <2>4
    <3>3. \A d \in Consumers, j \in Keys :
            Holds(d, j)' <=> Holds(d, j) \/ (d = c /\ j = k)
      BY <2>1, <2>2, <3>1 DEF Holds, TypeOK
    <3>4. \A d \in Consumers : pc'[d] = "save" => pc[d] = "save"
      BY <3>1 DEF TypeOK
    <3>5. KeysAreHeld'
      BY <2>1, <2>2, <3>2, <3>3, <3>4 DEF KeysAreHeld, Holds
    <3> QED
      BY <2>1, <3>5 DEF OneOpenPerKey, OncePerEvent
  <2> QED
    BY <2>3, <2>4
<1>7. ASSUME NEW c \in Consumers, InsertAudit(c)
      PROVE  KeysAreHeld' /\ OneOpenPerKey' /\ OncePerEvent'
  <2>1. pc[c] = "audit" /\ UNCHANGED <<event, created, open>>
    BY <1>7 DEF InsertAudit, Goto
  <2>2. event[c] \in Events /\ created[event[c]] \in Nat
    BY <2>1 DEF TypeOK
  <2>3. CASE created[event[c]] > 0
    <3>1. pc' = [pc EXCEPT ![c] = "seenAgain"]
      BY <1>7, <2>3 DEF InsertAudit, Goto
    <3> QED
      BY <1>4, <2>1, <3>1 DEF Steps
  <2>4. CASE created[event[c]] = 0
    <3>1. pc' = [pc EXCEPT ![c] = "save"]
      BY <1>7, <2>4 DEF InsertAudit, Goto
    <3>2. \A d \in Consumers, j \in Keys : Holds(d, j)' <=> Holds(d, j)
      BY <2>1, <3>1 DEF Holds, TypeOK
    <3>3. \A d \in Consumers : pc'[d] = "save" => pc[d] = "save" \/ d = c
      BY <3>1 DEF TypeOK
    <3>4. KeysAreHeld'
      BY <2>1, <2>4, <3>2, <3>3 DEF KeysAreHeld
    <3> QED
      BY <2>1, <3>4 DEF OneOpenPerKey, OncePerEvent
  <2> QED
    BY <2>2, <2>3, <2>4
<1>8. ASSUME NEW c \in Consumers, CommitIncident(c)
      PROVE  KeysAreHeld' /\ OneOpenPerKey' /\ OncePerEvent'
  <2> DEFINE k == Key[event[c]]
  <2>1. /\ pc[c] = "save" /\ UNCHANGED event /\ pc' = [pc EXCEPT ![c] = "offset"]
        /\ created' = [created EXCEPT ![event[c]] = created[event[c]] + 1]
        /\ open' = [open EXCEPT ![k] = open[k] + 1]
    BY <1>8 DEF CommitIncident, Answer
  <2>2. event[c] \in Events /\ k \in Keys
    BY <2>1 DEF TypeOK
  <2>3. Holds(c, k)
    BY <2>1 DEF Holds
  <2>4. open[k] = 0 /\ created[event[c]] = 0 /\ \A d \in Consumers : Holds(d, k) => d = c
    BY <2>1, <2>2, <2>3 DEF KeysAreHeld
  <2>5. OneOpenPerKey'
    BY <2>1, <2>2, <2>4 DEF OneOpenPerKey, TypeOK
  <2>6. OncePerEvent'
    BY <2>1, <2>2, <2>4 DEF OncePerEvent, TypeOK
  <2>7. \A d \in Consumers, j \in Keys :
          Holds(d, j)' => Holds(d, j) /\ d # c /\ j # k /\ pc'[d] = pc[d]
    BY <2>1, <2>4 DEF Holds, TypeOK
  <2>8. ASSUME NEW d \in Consumers, NEW j \in Keys, Holds(d, j)'
        PROVE  open'[j] = 0 /\ (pc'[d] = "save" => created'[event'[d]] = 0)
    <3>1. Holds(d, j) /\ d # c /\ j # k /\ pc'[d] = pc[d]
      BY <2>7, <2>8
    <3>2. open[j] = 0 /\ (pc[d] = "save" => created[event[d]] = 0)
      BY <3>1 DEF KeysAreHeld
    <3>3. Key[event[d]] = j /\ event[d] # event[c]
      BY <3>1 DEF Holds
    <3>4. open'[j] = open[j]
      BY <2>1, <3>1 DEF TypeOK
    <3>5. pc[d] = "save" => event[d] \in Events
      BY DEF TypeOK
    <3> QED
      BY <2>1, <3>1, <3>2, <3>3, <3>4, <3>5 DEF TypeOK
  <2>9. KeysAreHeld'
    BY <2>7, <2>8 DEF KeysAreHeld
  <2> QED
    BY <2>5, <2>6, <2>9
<1>9. UNCHANGED vars => KeysAreHeld' /\ OneOpenPerKey' /\ OncePerEvent'
  BY <1>0, HoldersSame DEF vars, TypeOK
<1> QED
  BY <1>1, <1>2, <1>3, <1>5, <1>6, <1>7, <1>8, <1>9 DEF Next, Handle

-----------------------------------------------------------------------------
LEMMA OpenWasCreatedStep ==
  ASSUME IInv, [Next]_vars PROVE OpenWasCreated'
<1> USE DEF IInv, database
<1>1. ASSUME \A k \in Keys : open'[k] > 0 => open[k] > 0 PROVE OpenWasCreated'
  <2> SUFFICES ASSUME NEW k \in Keys, open'[k] > 0
               PROVE  \E f \in Events : Key[f] = k /\ created'[f] > 0
    BY DEF OpenWasCreated
  <2>1. PICK f \in Events : Key[f] = k /\ created[f] > 0
    BY <1>1 DEF OpenWasCreated
  <2>2. created'[f] > 0
    BY <2>1, RecordsGrow
  <2> QED
    BY <2>1, <2>2
<1>2. ASSUME NEW c \in Consumers, CommitIncident(c) PROVE OpenWasCreated'
  <2>1. pc[c] = "save" /\ created' = [created EXCEPT ![event[c]] = created[event[c]] + 1]
        /\ open' = [open EXCEPT ![Key[event[c]]] = open[Key[event[c]]] + 1]
    BY <1>2 DEF CommitIncident
  <2>2. event[c] \in Events
    BY <2>1 DEF TypeOK
  <2>3. created'[event[c]] > 0
    BY <2>1, <2>2 DEF TypeOK
  <2> SUFFICES ASSUME NEW k \in Keys, open'[k] > 0
               PROVE  \E f \in Events : Key[f] = k /\ created'[f] > 0
    BY DEF OpenWasCreated
  <2>4. CASE k = Key[event[c]]
    BY <2>2, <2>3, <2>4
  <2>5. CASE k # Key[event[c]]
    <3>1. open[k] > 0
      BY <2>1, <2>5 DEF TypeOK
    <3>2. PICK f \in Events : Key[f] = k /\ created[f] > 0
      BY <3>1 DEF OpenWasCreated
    <3> QED
      BY <3>2, RecordsGrow
  <2> QED
    BY <2>4, <2>5
<1>3. ASSUME NEW j \in Keys, Close(j) PROVE \A k \in Keys : open'[k] > 0 => open[k] > 0
  BY <1>3 DEF Close, TypeOK
<1>4. ASSUME NEW c \in Consumers, Handle(c), ~CommitIncident(c) PROVE UNCHANGED open
  BY <1>4 DEF Handle, Poll, SendToDlq, CheckSeen, CheckOpen, InsertIncident, InsertAudit,
       CommitOffset
<1>5. ASSUME NEW c \in Consumers, Assign(c) \/ Rebalance(c) \/ Fail(c) PROVE UNCHANGED open
  BY <1>5 DEF Assign, Rebalance, Fail
<1>6. ASSUME NEW e \in Events, Publish(e) PROVE UNCHANGED open
  BY <1>6 DEF Publish
<1>7. UNCHANGED vars => UNCHANGED open
  BY DEF vars
<1>8. UNCHANGED open => OpenWasCreated'
  BY <1>1
<1> QED
  BY <1>1, <1>2, <1>3, <1>4, <1>5, <1>6, <1>7, <1>8 DEF Next

-----------------------------------------------------------------------------
(***************************************************************************)
(* Positions, in two parts: what a consumer has in its hands, and what the *)
(* owner has behind it.                                                    *)
(***************************************************************************)
HandIsRight(c) ==
  /\ pc[c] = "dlq" => event[c] \in Malformed
  /\ pc[c] \notin {"poll", "dlq", "offset"} => event[c] \notin Malformed
  /\ pc[c] = "offset" => Covered(event[c])

BehindIsCovered(c) ==
  owner = c =>
    \A n \in 1..pos[c] :
      Covered(log[n]) \/ (n = pos[c] /\ pc[c] # "poll" /\ event[c] = log[n])

LEMMA Positions ==
  PositionsAreCovered <=> \A c \in Consumers : HandIsRight(c) /\ BehindIsCovered(c)
BY DEF PositionsAreCovered, HandIsRight, BehindIsCovered

\* A consumer whose step and event are as before has the right thing in its hands.
LEMMA HandStays ==
  ASSUME IInv, [Next]_vars, NEW c \in Consumers, pc'[c] = pc[c], event'[c] = event[c]
  PROVE  HandIsRight(c)'
<1>1. HandIsRight(c)
  BY Positions DEF IInv
<1>2. ASSUME pc[c] = "offset" PROVE Covered(event[c])'
  <2>1. PICK e \in Events : e = event[c]
    BY <1>2 DEF IInv, TypeOK
  <2>2. Covered(e)'
    BY <1>1, <1>2, <2>1, CoveredStays DEF HandIsRight, IInv
  <2> QED
    BY <2>1, <2>2 DEF Covered
<1> QED
  BY <1>1, <1>2 DEF HandIsRight

\* An owner that goes no further has behind it what it had, unless it lets go of an
\* event it has not covered.
LEMMA BehindStays ==
  ASSUME IInv, [Next]_vars, NEW c \in Consumers,
         owner' = c => owner = c /\ pos'[c] = pos[c],
         \/ pc'[c] # "poll" /\ event'[c] = event[c]
         \/ pc'[c] = pc[c] /\ event'[c] = event[c]
         \/ pc[c] = "offset"
  PROVE  BehindIsCovered(c)'
<1> SUFFICES ASSUME owner' = c, NEW n \in 1..pos'[c],
                    ~(n = pos'[c] /\ pc'[c] # "poll" /\ event'[c] = log'[n])
             PROVE  Covered(log[n])'
  BY DEF BehindIsCovered
<1>1. owner = c /\ pos'[c] = pos[c] /\ n \in 1..Len(log)
  BY DEF IInv, TypeOK
<1>2. log'[n] = log[n] /\ log[n] \in Events
  BY <1>1, LogGrows DEF IInv
<1>3. Covered(log[n]) \/ (n = pos[c] /\ pc[c] # "poll" /\ event[c] = log[n])
  BY <1>1, Positions DEF IInv, BehindIsCovered
<1>4. pc[c] = "offset" => Covered(event[c])
  BY Positions DEF IInv, HandIsRight
<1>5. Covered(log[n])
  BY <1>1, <1>2, <1>3, <1>4
<1>6. PICK e \in Events : e = log[n]
  BY <1>2
<1>7. Covered(e)'
  BY <1>5, <1>6, CoveredStays DEF IInv
<1> QED
  BY <1>2, <1>6, <1>7 DEF Covered

\* One that is given the partition starts where everything is covered.
LEMMA BehindStarts ==
  ASSUME IInv, [Next]_vars, NEW c \in Consumers, pos'[c] = committed
  PROVE  BehindIsCovered(c)'
<1> SUFFICES ASSUME NEW n \in 1..committed PROVE Covered(log[n])'
  BY DEF BehindIsCovered
<1>1. n \in 1..Len(log) /\ Covered(log[n])
  BY DEF IInv, TypeOK, NothingIsLost
<1>2. PICK e \in Events : e = log[n] /\ e = log'[n]
  BY <1>1, LogGrows DEF IInv
<1>3. Covered(e)'
  BY <1>1, <1>2, CoveredStays DEF IInv
<1> QED
  BY <1>2, <1>3 DEF Covered

\* Consumers other than the one that acts.
LEMMA OthersStay ==
  ASSUME IInv, [Next]_vars, NEW d \in Consumers,
         pc'[d] = pc[d], event'[d] = event[d], owner' = d => owner = d /\ pos'[d] = pos[d]
  PROVE  HandIsRight(d)' /\ BehindIsCovered(d)'
BY HandStays, BehindStays

\* A step within the database transaction, or on the way to it.
LEMMA WithinStep ==
  ASSUME IInv, [Next]_vars, NEW c \in Consumers, UNCHANGED <<owner, pos, event>>,
         NEW s \in Steps \ {"poll", "dlq"}, pc' = [pc EXCEPT ![c] = s], pc[c] # "poll",
         s = "offset" => Covered(event[c])', s # "offset" => event[c] \notin Malformed
  PROVE  PositionsAreCovered'
<1>1. ASSUME NEW d \in Consumers, d # c PROVE HandIsRight(d)' /\ BehindIsCovered(d)'
  BY <1>1, OthersStay DEF IInv, TypeOK
<1>2. pc'[c] = s
  BY DEF IInv, TypeOK
<1>3. HandIsRight(c)'
  BY <1>2 DEF HandIsRight
<1>4. BehindIsCovered(c)'
  BY <1>2, BehindStays
<1> QED
  BY <1>1, <1>3, <1>4, Positions DEF PositionsAreCovered, HandIsRight, BehindIsCovered

LEMMA PositionsStep ==
  ASSUME IInv, [Next]_vars PROVE PositionsAreCovered'
<1> USE DEF group
<1>0. PositionsAreCovered' <=> \A c \in Consumers : HandIsRight(c)' /\ BehindIsCovered(c)'
  BY DEF PositionsAreCovered, HandIsRight, BehindIsCovered
<1>1. UNCHANGED <<owner, pc, event, pos>> => PositionsAreCovered'
  BY <1>0, OthersStay
<1>2. ASSUME NEW e \in Events, Publish(e) PROVE UNCHANGED <<owner, pc, event, pos>>
  BY <1>2 DEF Publish
<1>3. ASSUME NEW k \in Keys, Close(k) PROVE UNCHANGED <<owner, pc, event, pos>>
  BY <1>3 DEF Close
<1>4. UNCHANGED vars => UNCHANGED <<owner, pc, event, pos>>
  BY DEF vars
<1>5. ASSUME NEW c \in Consumers, Assign(c) \/ Rebalance(c) PROVE PositionsAreCovered'
  <2>1. owner' = c /\ pos' = [pos EXCEPT ![c] = committed] /\ UNCHANGED <<pc, event>>
    BY <1>5 DEF Assign, Rebalance
  <2>2. pos'[c] = committed
    BY <2>1 DEF IInv, TypeOK
  <2>3. \A d \in Consumers : HandIsRight(d)'
    BY <2>1, HandStays
  <2>4. \A d \in Consumers \ {c} : BehindIsCovered(d)'
    BY <2>1 DEF BehindIsCovered
  <2> QED
    BY <1>0, <2>2, <2>3, <2>4, BehindStarts
<1>6. ASSUME NEW c \in Consumers, Leave(c), UNCHANGED pos PROVE PositionsAreCovered'
  <2>1. /\ pc' = [pc EXCEPT ![c] = "poll"] /\ event' = [event EXCEPT ![c] = NoEvent]
        /\ owner' # c /\ \A d \in Consumers : owner' = d => owner = d
    BY <1>6 DEF Leave
  <2>2. \A d \in Consumers \ {c} : HandIsRight(d)' /\ BehindIsCovered(d)'
    BY <1>6, <2>1, OthersStay DEF IInv, TypeOK
  <2>3. HandIsRight(c)' /\ BehindIsCovered(c)'
    BY <2>1 DEF HandIsRight, BehindIsCovered, IInv, TypeOK
  <2> QED
    BY <1>0, <2>2, <2>3
<1>7. ASSUME NEW c \in Consumers, Fail(c) PROVE PositionsAreCovered'
  BY <1>6, <1>7 DEF Fail
<1>8. ASSUME NEW c \in Consumers, Poll(c) PROVE PositionsAreCovered'
  <2> DEFINE e == log[pos[c] + 1]
  <2>1. /\ owner = c /\ pc[c] = "poll" /\ pos[c] < Len(log)
        /\ pos' = [pos EXCEPT ![c] = pos[c] + 1]
        /\ event' = [event EXCEPT ![c] = e]
        /\ pc' = [pc EXCEPT ![c] = IF e \in Malformed THEN "dlq" ELSE "seen"]
        /\ UNCHANGED <<log, owner>>
    BY <1>8 DEF Poll
  <2>2. \A d \in Consumers \ {c} : HandIsRight(d)' /\ BehindIsCovered(d)'
    BY <2>1, OthersStay DEF IInv, TypeOK
  <2>3. /\ pc'[c] = IF e \in Malformed THEN "dlq" ELSE "seen"
        /\ event'[c] = e /\ pos'[c] = pos[c] + 1 /\ pos[c] \in Nat
    BY <2>1 DEF IInv, TypeOK
  <2>4. HandIsRight(c)'
    BY <2>3 DEF HandIsRight
  <2>5. ASSUME NEW n \in 1..pos[c] PROVE Covered(log[n])'
    <3>1. Covered(log[n]) /\ n \in 1..Len(log)
      BY <2>1, Positions DEF IInv, BehindIsCovered, TypeOK
    <3>2. PICK f \in Events : f = log[n]
      BY <3>1, LogGrows DEF IInv
    <3>3. Covered(f)'
      BY <3>1, <3>2, CoveredStays DEF IInv
    <3> QED
      BY <2>1, <3>2, <3>3 DEF Covered
  <2>6. BehindIsCovered(c)'
    BY <2>1, <2>3, <2>5 DEF BehindIsCovered
  <2> QED
    BY <1>0, <2>2, <2>4, <2>6
<1>9. ASSUME NEW c \in Consumers, SendToDlq(c) PROVE PositionsAreCovered'
  <2>1. pc[c] = "dlq" /\ pc' = [pc EXCEPT ![c] = "offset"] /\ UNCHANGED <<owner, pos, event>>
        /\ dlq' = dlq \cup {event[c]}
    BY <1>9 DEF SendToDlq, Answer
  <2>2. event[c] \in Malformed
    BY <2>1, Positions DEF IInv, HandIsRight
  <2>3. Covered(event[c])'
    BY <2>1, <2>2 DEF Covered
  <2> QED
    BY <2>1, <2>3, WithinStep DEF Steps
<1>10. ASSUME NEW c \in Consumers,
              \/ CheckSeen(c) \/ CheckOpen(c) \/ InsertIncident(c) \/ InsertAudit(c)
              \/ CommitIncident(c)
       PROVE  event[c] \in Events \ Malformed /\ pc[c] # "poll" /\ UNCHANGED pos
  <2>1. /\ UNCHANGED pos
        /\ pc[c] \in {"seen", "seenAgain", "openQuery", "openAgain", "insert", "audit", "save"}
    BY <1>10 DEF CheckSeen, CheckOpen, InsertIncident, InsertAudit, CommitIncident
  <2>2. event[c] \notin Malformed
    BY <2>1, Positions DEF IInv, HandIsRight
  <2> QED
    BY <2>1, <2>2 DEF IInv, TypeOK
<1>11. ASSUME NEW c \in Consumers, CheckSeen(c) PROVE PositionsAreCovered'
  <2>1. CASE created[event[c]] > 0
    <3>1. pc' = [pc EXCEPT ![c] = "offset"] /\ UNCHANGED <<owner, pos, event, created>>
      BY <1>11, <2>1 DEF CheckSeen, Answer, database
    <3>2. Covered(event[c])'
      BY <1>10, <1>11, <2>1, <3>1 DEF Covered
    <3> QED
      BY <1>10, <1>11, <3>1, <3>2, WithinStep DEF Steps
  <2>2. CASE ~(created[event[c]] > 0)
    <3>1. /\ \E s \in {"openQuery", "openAgain"} : pc' = [pc EXCEPT ![c] = s]
          /\ UNCHANGED <<owner, pos, event>>
      BY <1>11, <2>2 DEF CheckSeen, Goto
    <3> QED
      BY <1>10, <1>11, <3>1, WithinStep DEF Steps
  <2> QED
    BY <2>1, <2>2
<1>12. ASSUME NEW c \in Consumers, CheckOpen(c) PROVE PositionsAreCovered'
  <2>1. CASE Leave(c)
    BY <1>6, <1>10, <1>12, <2>1
  <2>2. CASE open[Key[event[c]]] > 0
    <3>1. pc' = [pc EXCEPT ![c] = "offset"] /\ UNCHANGED <<owner, pos, event, created>>
      BY <1>12, <2>2 DEF CheckOpen, Answer, database
    <3>2. event[c] \in Events \ Malformed /\ Key[event[c]] \in Keys
      BY <1>10, <1>12
    <3>3. PICK f \in Events : Key[f] = Key[event[c]] /\ created[f] > 0
      BY <2>2, <3>2 DEF IInv, OpenWasCreated
    <3>4. Covered(event[c])'
      BY <3>1, <3>2, <3>3 DEF Covered
    <3> QED
      BY <1>10, <1>12, <3>1, <3>4, WithinStep DEF Steps
  <2>3. CASE ~Leave(c) /\ ~(open[Key[event[c]]] > 0)
    <3>1. pc' = [pc EXCEPT ![c] = "insert"] /\ UNCHANGED <<owner, pos, event>>
      BY <1>12, <2>3 DEF CheckOpen, Goto
    <3> QED
      BY <1>10, <1>12, <3>1, WithinStep DEF Steps
  <2> QED
    BY <2>1, <2>2, <2>3
<1>13. ASSUME NEW c \in Consumers, InsertIncident(c) \/ InsertAudit(c) PROVE PositionsAreCovered'
  <2>1. /\ \E s \in {"seenAgain", "audit", "save"} : pc' = [pc EXCEPT ![c] = s]
        /\ UNCHANGED <<owner, pos, event>>
    BY <1>13 DEF InsertIncident, InsertAudit, Goto
  <2> QED
    BY <1>10, <1>13, <2>1, WithinStep DEF Steps
<1>14. ASSUME NEW c \in Consumers, CommitIncident(c) PROVE PositionsAreCovered'
  <2>1. pc' = [pc EXCEPT ![c] = "offset"] /\ UNCHANGED <<owner, pos, event>>
        /\ created' = [created EXCEPT ![event[c]] = created[event[c]] + 1]
    BY <1>14 DEF CommitIncident, Answer
  <2>2. created'[event[c]] > 0
    BY <1>10, <1>14, <2>1 DEF IInv, TypeOK
  <2>3. Covered(event[c])'
    BY <1>10, <1>14, <2>1, <2>2 DEF Covered
  <2> QED
    BY <1>10, <1>14, <2>1, <2>3, WithinStep DEF Steps
<1>15. ASSUME NEW c \in Consumers, CommitOffset(c) PROVE PositionsAreCovered'
  <2>1. /\ pc[c] = "offset" /\ pc' = [pc EXCEPT ![c] = "poll"]
        /\ event' = [event EXCEPT ![c] = NoEvent] /\ UNCHANGED <<owner, pos>>
    BY <1>15 DEF CommitOffset
  <2>2. \A d \in Consumers \ {c} : HandIsRight(d)' /\ BehindIsCovered(d)'
    BY <2>1, OthersStay DEF IInv, TypeOK
  <2>3. HandIsRight(c)'
    BY <2>1 DEF HandIsRight, IInv, TypeOK
  <2>4. BehindIsCovered(c)'
    BY <2>1, BehindStays
  <2> QED
    BY <1>0, <2>2, <2>3, <2>4
<1> QED
  BY <1>1, <1>2, <1>3, <1>4, <1>5, <1>7, <1>8, <1>9, <1>11, <1>12, <1>13, <1>14, <1>15
     DEF Next, Handle

-----------------------------------------------------------------------------
LEMMA InductiveInit == Init => IInv
<1> SUFFICES ASSUME Init PROVE IInv
  OBVIOUS
<1>1. TypeOK
  BY TypeInit
<1>2. OneOpenPerKey /\ OncePerEvent /\ NothingIsLost
  BY DEF Init, OneOpenPerKey, OncePerEvent, NothingIsLost
<1>3. KeysAreHeld /\ OpenWasCreated
  BY DEF Init, KeysAreHeld, OpenWasCreated, Holds
<1>4. PositionsAreCovered
  BY DEF Init, PositionsAreCovered
<1> QED
  BY <1>1, <1>2, <1>3, <1>4 DEF IInv

\* The inductive invariant: what the unique indexes hold back and what lies behind
\* every position, with the properties they are for.
THEOREM InductiveInvariant == Spec => []IInv
<1>1. ASSUME IInv, [Next]_vars PROVE IInv'
  BY <1>1, TypeStep, NothingIsLostStep, KeysStep, OpenWasCreatedStep, PositionsStep DEF IInv
<1> QED
  BY <1>1, InductiveInit, PTL DEF Spec

\* However many consumers check and insert at once, at most one incident of a dedup key
\* is open.
THEOREM OneOpenIncident == Spec => []OneOpenPerKey
<1>1. IInv => OneOpenPerKey
  BY DEF IInv
<1> QED
  BY <1>1, InductiveInvariant, PTL

\* However often an event is delivered, it creates at most one incident.
THEOREM OneIncidentPerEvent == Spec => []OncePerEvent
<1>1. IInv => OncePerEvent
  BY DEF IInv
<1> QED
  BY <1>1, InductiveInvariant, PTL

\* Whatever consumers crash and whenever the partition moves, no offset is committed
\* past an event that left no trace.
THEOREM CommittedIsCovered == Spec => []NothingIsLost
<1>1. IInv => NothingIsLost
  BY DEF IInv
<1> QED
  BY <1>1, InductiveInvariant, PTL
=============================================================================
