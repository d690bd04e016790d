--------------------------- MODULE NotifierProofs ---------------------------
(***************************************************************************)
(* What the notifier relay guarantees for any number of rows and relays:   *)
(* one record per sent row whatever happens, and, when relays are done     *)
(* before their leases run out, settles by the holder only, nothing sent   *)
(* for a settled row, and a fault behind every duplicate and every attempt *)
(* beyond the maximum.                                                     *)
(***************************************************************************)
EXTENDS Notifier, TLAPS

USE NotifierAssumption

-----------------------------------------------------------------------------
\* Replacing one entry of a function keeps its type.
LEMMA UpdateType ==
  ASSUME NEW S, NEW T, NEW f \in [S -> T], NEW x \in S, NEW v \in T
  PROVE  [f EXCEPT ![x] = v] \in [S -> T]
OBVIOUS

LEMMA RunDownFacts ==
  ASSUME NEW N \in Nat, NEW n \in 0..N PROVE RunDown(n) \in 0..N
BY DEF RunDown

LEMMA BackoffType == \A n : Backoff(n) \in 0..BackoffCap
BY DEF Backoff

\* A relay that goes back to its loop is between rows.
LEMMA ReturnType ==
  ASSUME TypeOK, NEW w \in Relays, NEW rest \in SUBSET Rows, Return(w, rest)
  PROVE  /\ batch' \in [Relays -> SUBSET Rows]
         /\ ticket' \in [Relays -> [Rows -> 0..MaxClaims]]
         /\ pc' \in [Relays -> {"idle", "send", "settle"}]
         /\ row' \in [Relays -> Rows \cup {NoRow}]
         /\ hop' \in [Relays -> 0..(Providers - 1)]
         /\ result' \in [Relays -> {"none", "sent", "failed"}]
         /\ \A v \in Relays : /\ pc'[v] = "settle" => row'[v] \in batch'[v]
                              /\ pc'[v] = "settle" <=> result'[v] # "none"
<1>1. [o \in Rows |-> IF o \in rest THEN ticket[w][o] ELSE 0] \in [Rows -> 0..MaxClaims]
  BY DEF TypeOK
<1>2. /\ batch' \in [Relays -> SUBSET Rows]
      /\ ticket' \in [Relays -> [Rows -> 0..MaxClaims]]
      /\ pc' \in [Relays -> {"idle", "send", "settle"}]
      /\ row' \in [Relays -> Rows \cup {NoRow}]
      /\ hop' \in [Relays -> 0..(Providers - 1)]
      /\ result' \in [Relays -> {"none", "sent", "failed"}]
  BY <1>1, UpdateType DEF Return, TypeOK
<1>3. ASSUME NEW v \in Relays
      PROVE  /\ pc'[v] = "settle" => row'[v] \in batch'[v]
             /\ pc'[v] = "settle" <=> result'[v] # "none"
  BY DEF Return, TypeOK
<1> QED
  BY <1>2, <1>3

\* The same for a provider's answer.
LEMMA AnsweredType ==
  ASSUME TypeOK, NEW w \in Relays, NEW o \in Rows, NEW answer \in {"sent", "failed"},
         o \in batch[w], pc[w] = "send", UNCHANGED batch, Answered(w, o, answer)
  PROVE  /\ pc' \in [Relays -> {"idle", "send", "settle"}]
         /\ row' \in [Relays -> Rows \cup {NoRow}]
         /\ hop' \in [Relays -> 0..(Providers - 1)]
         /\ result' \in [Relays -> {"none", "sent", "failed"}]
         /\ \A v \in Relays : /\ pc'[v] = "settle" => row'[v] \in batch'[v]
                              /\ pc'[v] = "settle" <=> result'[v] # "none"
<1>1. /\ hop \in [Relays -> 0..(Providers - 1)]
      /\ row \in [Relays -> Rows \cup {NoRow}]
      /\ pc \in [Relays -> {"idle", "send", "settle"}]
      /\ result \in [Relays -> {"none", "sent", "failed"}]
  BY DEF TypeOK
<1>2. row' = [row EXCEPT ![w] = o]
  BY DEF Answered
<1>3. \A v \in Relays : /\ pc[v] = "settle" => row[v] \in batch[v]
                        /\ pc[v] = "settle" <=> result[v] # "none"
  BY DEF TypeOK
<1>4. CASE answer = "sent" \/ hop[w] + 1 = Providers
  <2>1. /\ pc' = [pc EXCEPT ![w] = "settle"]
        /\ hop' = [hop EXCEPT ![w] = 0]
        /\ result' = [result EXCEPT ![w] = answer]
    BY <1>4 DEF Answered
  <2> QED
    BY <1>1, <1>2, <1>3, <2>1
<1>5. CASE ~(answer = "sent" \/ hop[w] + 1 = Providers)
  <2>1. hop' = [hop EXCEPT ![w] = hop[w] + 1] /\ UNCHANGED <<pc, result>>
    BY <1>5 DEF Answered
  <2>2. hop[w] + 1 \in 0..(Providers - 1)
    BY <1>1, <1>5
  <2>3. hop' \in [Relays -> 0..(Providers - 1)]
    BY <1>1, <2>1, <2>2, UpdateType
  <2> QED
    BY <1>1, <1>2, <1>3, <2>1, <2>3
<1> QED
  BY <1>4, <1>5

LEMMA TypeInit == Init => TypeOK
BY DEF Init, TypeOK, RowStatuses

LEMMA TypeStep == TypeOK /\ [Next]_vars => TypeOK'
<1> SUFFICES ASSUME TypeOK, [Next]_vars PROVE TypeOK'
  OBVIOUS
<1>1. ASSUME NEW o \in Rows, Enqueue(o) PROVE TypeOK'
  BY <1>1 DEF Enqueue, TypeOK, relayVars, RowStatuses
<1>2. ASSUME NEW w \in Relays, Claim(w) PROVE TypeOK'
  <2>1. PICK rows \in SUBSET Rows :
          /\ \A o \in rows : attempts[o] < MaxClaims
          /\ status' = [o \in Rows |-> IF o \in rows THEN "SENDING" ELSE status[o]]
          /\ lease' = [o \in Rows |-> IF o \in rows THEN Lease ELSE lease[o]]
          /\ attempts' = [o \in Rows |-> IF o \in rows THEN attempts[o] + 1 ELSE attempts[o]]
          /\ batch' = [batch EXCEPT ![w] = rows]
          /\ ticket' = [ticket EXCEPT ![w] =
               [o \in Rows |-> IF o \in rows THEN attempts[o] + 1 ELSE 0]]
    BY <1>2 DEF Claim, Claimable
  <2>2. \A o \in Rows : attempts[o] \in 0..MaxClaims
    BY DEF TypeOK
  <2>3. attempts' \in [Rows -> 0..MaxClaims]
    BY <2>1, <2>2
  <2>4. [o \in Rows |-> IF o \in rows THEN attempts[o] + 1 ELSE 0] \in [Rows -> 0..MaxClaims]
    BY <2>1, <2>2
  <2>5. ticket' \in [Relays -> [Rows -> 0..MaxClaims]]
    BY <2>1, <2>4, UpdateType DEF TypeOK
  <2>6. status' \in [Rows -> RowStatuses] /\ lease' \in [Rows -> 0..Lease]
    BY <2>1 DEF TypeOK, RowStatuses
  <2>7. batch' \in [Relays -> SUBSET Rows]
    BY <2>1, UpdateType DEF TypeOK
  <2>8. /\ pc' = [pc EXCEPT ![w] = "send"] /\ pc[w] = "idle"
        /\ UNCHANGED <<due, messages, delivered, row, hop, result, faults>>
    BY <1>2 DEF Claim
  <2>9. \A v \in Relays : /\ pc'[v] = "settle" => row'[v] \in batch'[v]
                          /\ pc'[v] = "settle" <=> result'[v] # "none"
    BY <2>1, <2>8 DEF TypeOK
  <2> QED
    BY <2>3, <2>5, <2>6, <2>7, <2>8, <2>9 DEF TypeOK
<1>3. ASSUME NEW w \in Relays, NEW o \in Rows, CallProvider(w, o) PROVE TypeOK'
  <2>1. PICK answer \in {"sent", "failed"} :
          /\ Answered(w, o, answer)
          /\ delivered' = [delivered EXCEPT ![o] =
               IF answer = "sent" THEN delivered[o] + 1 ELSE delivered[o]]
    BY <1>3 DEF CallProvider
  <2>2. /\ o \in batch[w] /\ pc[w] = "send"
        /\ UNCHANGED <<table, batch, ticket, faults>>
    BY <1>3 DEF CallProvider
  <2>3. delivered' \in [Rows -> Nat]
    BY <2>1 DEF TypeOK
  <2> QED
    BY <2>1, <2>2, <2>3, AnsweredType DEF TypeOK, table
<1>4. ASSUME NEW w \in Relays, NEW o \in Rows, LoseAnswer(w, o) PROVE TypeOK'
  <2>1. /\ Answered(w, o, "failed") /\ o \in batch[w] /\ pc[w] = "send"
        /\ delivered' = [delivered EXCEPT ![o] = delivered[o] + 1]
        /\ UNCHANGED <<table, batch, ticket>>
    BY <1>4 DEF LoseAnswer
  <2>2. delivered' \in [Rows -> Nat]
    BY <2>1 DEF TypeOK
  <2>3. faults' \in 0..MaxFaults
    BY <1>4 DEF LoseAnswer, TypeOK
  <2> QED
    BY <2>1, <2>2, <2>3, AnsweredType DEF TypeOK, table
<1>5. ASSUME NEW w \in Relays, Settle(w) PROVE TypeOK'
  <2>1. row[w] \in Rows /\ batch[w] \ {row[w]} \in SUBSET Rows
    BY <1>5 DEF Settle, TypeOK
  <2>2. /\ status' \in [Rows -> RowStatuses]
        /\ due' \in [Rows -> 0..BackoffCap]
        /\ lease' \in [Rows -> 0..Lease]
        /\ messages' \in [Rows -> Nat]
    <3>1. CASE UNCHANGED <<status, due, lease, messages>>
      BY <3>1 DEF TypeOK
    <3>2. CASE Outcome(row[w], result[w])
      <4>1. status' \in [Rows -> RowStatuses] /\ lease' \in [Rows -> 0..Lease]
        BY <2>1, <3>2 DEF Outcome, TypeOK, RowStatuses
      <4>2. due' \in [Rows -> 0..BackoffCap]
        BY <2>1, <3>2, BackoffType DEF Outcome, TypeOK
      <4>3. messages' \in [Rows -> Nat]
        BY <2>1, <3>2 DEF Outcome, TypeOK
      <4> QED
        BY <4>1, <4>2, <4>3
    <3> QED
      BY <1>5, <3>1, <3>2 DEF Settle
  <2>3. UNCHANGED <<attempts, delivered, faults>> /\ Return(w, batch[w] \ {row[w]})
    BY <1>5 DEF Settle
  <2> QED
    BY <2>1, <2>2, <2>3, ReturnType DEF TypeOK
<1>6. ASSUME NEW w \in Relays, Crash(w) PROVE TypeOK'
  <2>1. Return(w, {}) /\ UNCHANGED <<table, delivered>> /\ faults' = faults + 1 /\ faults < MaxFaults
    BY <1>6 DEF Crash
  <2>2. faults' \in 0..MaxFaults
    BY <2>1 DEF TypeOK
  <2> QED
    BY <2>1, <2>2, ReturnType DEF TypeOK, table
<1>7. CASE Tick
  <2>1. due' \in [Rows -> 0..BackoffCap] /\ lease' \in [Rows -> 0..Lease]
    BY <1>7, RunDownFacts DEF Tick, TypeOK
  <2> QED
    BY <1>7, <2>1 DEF Tick, TypeOK, relayVars
<1>8. CASE UNCHANGED vars
  BY <1>8 DEF vars, table, relayVars, TypeOK
<1> QED
  BY <1>1, <1>2, <1>3, <1>4, <1>5, <1>6, <1>7, <1>8 DEF Next, Work

\* Every variable keeps its type in every reachable state.
THEOREM TypeCorrect == Spec => []TypeOK
BY TypeInit, TypeStep, PTL DEF Spec

-----------------------------------------------------------------------------
(***************************************************************************)
(* One record per sent row.                                                *)
(***************************************************************************)

\* Messages are sent, never unsent.
LEMMA DeliveredGrows ==
  ASSUME TypeOK, [Next]_vars, NEW o \in Rows
  PROVE  delivered[o] \in Nat /\ delivered'[o] \in Nat /\ delivered'[o] >= delivered[o]
<1>1. delivered \in [Rows -> Nat]
  BY DEF TypeOK
<1>2. ASSUME NEW w \in Relays, NEW r \in Rows, CallProvider(w, r) PROVE delivered'[o] >= delivered[o]
  BY <1>1, <1>2 DEF CallProvider
<1>3. ASSUME NEW w \in Relays, NEW r \in Rows, LoseAnswer(w, r) PROVE delivered'[o] >= delivered[o]
  BY <1>1, <1>3 DEF LoseAnswer
<1>4. CASE UNCHANGED delivered
  BY <1>1, <1>4
<1>5. ASSUME NEW r \in Rows, Enqueue(r) PROVE UNCHANGED delivered
  BY <1>5 DEF Enqueue
<1>6. ASSUME NEW w \in Relays, Claim(w) \/ Settle(w) \/ Crash(w) PROVE UNCHANGED delivered
  BY <1>6 DEF Claim, Settle, Crash
<1>7. Tick \/ UNCHANGED vars => UNCHANGED delivered
  BY DEF Tick, vars
<1>8. delivered'[o] >= delivered[o]
  BY <1>2, <1>3, <1>4, <1>5, <1>6, <1>7 DEF Next, Work
<1>9. TypeOK'
  BY TypeStep
<1> QED
  BY <1>1, <1>8, <1>9 DEF TypeOK

\* A "sent" that a relay has in hand still stands for a message.
LEMMA AnswersStep == IInv /\ [Next]_vars => AnswersAreTrue'
<1> SUFFICES ASSUME IInv, [Next]_vars, NEW v \in Relays, result'[v] = "sent"
             PROVE  delivered'[row'[v]] > 0
  BY DEF AnswersAreTrue
<1>1. TypeOK
  BY DEF IInv
<1>2. CASE result'[v] = result[v] /\ row'[v] = row[v]
  <2>1. row[v] \in Rows /\ delivered[row[v]] > 0
    BY <1>1, <1>2 DEF IInv, AnswersAreTrue, TypeOK
  <2> QED
    BY <1>1, <1>2, <2>1, DeliveredGrows
<1>3. ASSUME NEW w \in Relays, NEW o \in Rows, NEW answer \in {"sent", "failed"},
             o \in batch[w], pc[w] = "send", Answered(w, o, answer),
             answer = "sent" => delivered'[o] > 0
      PROVE  delivered'[row'[v]] > 0
  <2>1. CASE v # w
    <3>1. result'[v] = result[v] /\ row'[v] = row[v]
      BY <1>1, <1>3, <2>1 DEF Answered, TypeOK
    <3> QED
      BY <1>2, <3>1
  <2>2. CASE v = w
    <3>1. row'[v] = o /\ result[v] = "none"
      BY <1>1, <1>3, <2>2 DEF Answered, TypeOK
    <3>2. answer = "sent"
      BY <1>1, <1>3, <2>2, <3>1 DEF Answered, TypeOK
    <3> QED
      BY <1>3, <3>1, <3>2
  <2> QED
    BY <2>1, <2>2
<1>4. ASSUME NEW w \in Relays, NEW o \in Rows, CallProvider(w, o) PROVE delivered'[row'[v]] > 0
  <2>1. PICK answer \in {"sent", "failed"} :
          /\ Answered(w, o, answer)
          /\ delivered' = [delivered EXCEPT ![o] =
               IF answer = "sent" THEN delivered[o] + 1 ELSE delivered[o]]
    BY <1>4 DEF CallProvider
  <2>2. o \in batch[w] /\ pc[w] = "send"
    BY <1>4 DEF CallProvider
  <2>3. answer = "sent" => delivered'[o] > 0
    BY <1>1, <2>1 DEF TypeOK
  <2> QED
    BY <1>3, <2>1, <2>2, <2>3
<1>5. ASSUME NEW w \in Relays, NEW o \in Rows, LoseAnswer(w, o) PROVE delivered'[row'[v]] > 0
  BY <1>3, <1>5 DEF LoseAnswer
<1>6. ASSUME NEW w \in Relays, NEW rest, Return(w, rest)
      PROVE  delivered'[row'[v]] > 0
  <2>1. v # w
    BY <1>1, <1>6 DEF Return, TypeOK
  <2>2. result'[v] = result[v] /\ row'[v] = row[v]
    BY <1>1, <1>6, <2>1 DEF Return, TypeOK
  <2> QED
    BY <1>2, <2>2
<1>7. ASSUME NEW w \in Relays, Settle(w) \/ Crash(w) PROVE delivered'[row'[v]] > 0
  BY <1>6, <1>7 DEF Settle, Crash
<1>8. ASSUME NEW o \in Rows, Enqueue(o) PROVE result' = result /\ row' = row
  BY <1>8 DEF Enqueue, relayVars
<1>9. ASSUME NEW w \in Relays, Claim(w) PROVE result' = result /\ row' = row
  BY <1>9 DEF Claim
<1>10. Tick \/ UNCHANGED vars => result' = result /\ row' = row
  BY DEF Tick, vars, relayVars
<1> QED
  BY <1>2, <1>4, <1>5, <1>7, <1>8, <1>9, <1>10 DEF Next, Work

\* Records and the SENT status move together.
LEMMA RecordStep == IInv /\ [Next]_vars => OneRecordPerRow'
<1> SUFFICES ASSUME IInv, [Next]_vars, NEW o \in Rows
             PROVE  /\ messages'[o] = IF status'[o] = "SENT" THEN 1 ELSE 0
                    /\ status'[o] = "SENT" => delivered'[o] > 0
  BY DEF OneRecordPerRow
<1>1. /\ TypeOK
      /\ messages[o] = IF status[o] = "SENT" THEN 1 ELSE 0
      /\ status[o] = "SENT" => delivered[o] > 0
      /\ status \in [Rows -> RowStatuses] /\ messages \in [Rows -> Nat]
  BY DEF IInv, OneRecordPerRow, TypeOK
<1>2. CASE messages'[o] = messages[o] /\ (status'[o] = "SENT" <=> status[o] = "SENT")
  BY <1>1, <1>2, DeliveredGrows
<1>3. ASSUME NEW r \in Rows, Enqueue(r)
      PROVE  messages'[o] = messages[o] /\ (status'[o] = "SENT" <=> status[o] = "SENT")
  BY <1>1, <1>3 DEF Enqueue
<1>4. ASSUME NEW w \in Relays, Claim(w)
      PROVE  messages'[o] = messages[o] /\ (status'[o] = "SENT" <=> status[o] = "SENT")
  BY <1>1, <1>4 DEF Claim, Claimable
<1>5. ASSUME NEW w \in Relays, Settle(w)
      PROVE  /\ messages'[o] = IF status'[o] = "SENT" THEN 1 ELSE 0
             /\ status'[o] = "SENT" => delivered'[o] > 0
  <2> DEFINE r == row[w]
  <2>1. r \in Rows /\ (result[w] = "sent" => delivered[r] > 0) /\ UNCHANGED delivered
    BY <1>1, <1>5 DEF Settle, IInv, AnswersAreTrue, TypeOK
  <2>2. CASE status[r] = "SENDING" /\ Outcome(r, result[w]) /\ r = o
    <3>1. status'[o] = "SENT" <=> result[w] = "sent"
      BY <1>1, <2>2 DEF Outcome
    <3>2. messages'[o] = IF result[w] = "sent" THEN messages[o] + 1 ELSE messages[o]
      BY <1>1, <2>2 DEF Outcome
    <3>3. messages[o] = 0
      BY <1>1, <2>2
    <3> QED
      BY <2>1, <2>2, <3>1, <3>2, <3>3
  <2>3. CASE Outcome(r, result[w]) /\ r # o
    <3>1. messages'[o] = messages[o] /\ status'[o] = status[o]
      BY <1>1, <2>1, <2>3 DEF Outcome
    <3> QED
      BY <1>2, <3>1
  <2>4. CASE UNCHANGED <<status, due, lease, messages>>
    BY <1>2, <2>4
  <2> QED
    BY <1>5, <2>2, <2>3, <2>4 DEF Settle
<1>6. ASSUME NEW w \in Relays, NEW r \in Rows, CallProvider(w, r) \/ LoseAnswer(w, r)
      PROVE  UNCHANGED <<messages, status>>
  BY <1>6 DEF CallProvider, LoseAnswer, table
<1>7. ASSUME NEW w \in Relays, Crash(w) PROVE UNCHANGED <<messages, status>>
  BY <1>7 DEF Crash, table
<1>8. Tick \/ UNCHANGED vars => UNCHANGED <<messages, status>>
  BY DEF Tick, vars, table
<1> QED
  BY <1>2, <1>3, <1>4, <1>5, <1>6, <1>7, <1>8 DEF Next, Work

\* The invariant that a late settle cannot break.
THEOREM InductiveInvariant == Spec => []IInv
<1>1. Init => IInv
  <2>1. Init => OneRecordPerRow /\ AnswersAreTrue
    BY DEF Init, OneRecordPerRow, AnswersAreTrue
  <2> QED
    BY <2>1, TypeInit DEF IInv
<1>2. IInv /\ [Next]_vars => IInv'
  BY TypeStep, AnswersStep, RecordStep DEF IInv
<1> QED
  BY <1>1, <1>2, PTL DEF Spec

\* However many relays sent a row, stalled, died or settled late, it is SENT
\* exactly when one outgoing message is recorded for it, and then it was sent.
THEOREM OneRecord == Spec => []OneRecordPerRow
<1>1. IInv => OneRecordPerRow
  BY DEF IInv
<1> QED
  BY <1>1, InductiveInvariant, PTL

-----------------------------------------------------------------------------
(***************************************************************************)
(* Relays that are done before their leases run out.                       *)
(***************************************************************************)

\* What the claims of a step's batches are afterwards, given what they were.
LEMMA HeldStep == PromptInv /\ [PromptNext]_vars => ClaimsAreHeld'
<1> SUFFICES ASSUME PromptInv, [PromptNext]_vars PROVE ClaimsAreHeld'
  OBVIOUS
<1>1. /\ TypeOK /\ TypeOK'
      /\ ClaimsAreHeld
      /\ status \in [Rows -> RowStatuses]
      /\ attempts \in [Rows -> 0..MaxClaims]
      /\ batch \in [Relays -> SUBSET Rows]
      /\ row \in [Relays -> Rows \cup {NoRow}]
      /\ ticket \in [Relays -> [Rows -> 0..MaxClaims]]
      /\ lease \in [Rows -> 0..Lease] /\ Lease \in Nat \ {0}
  BY TypeStep, NotifierAssumption DEF PromptInv, IInv, TypeOK, PromptNext
<1>2. CASE UNCHANGED vars
  BY <1>1, <1>2 DEF vars, table, relayVars, ClaimsAreHeld
<1>3. ASSUME UNCHANGED <<status, attempts, batch, ticket>>,
             \A w \in Relays : \A o \in batch[w] : lease'[o] > 0,
             \A w \in Relays : row'[w] \in batch[w] \cup {NoRow}
      PROVE  ClaimsAreHeld'
  BY <1>1, <1>3 DEF ClaimsAreHeld
<1>4. ASSUME NEW r \in Rows, Enqueue(r) PROVE ClaimsAreHeld'
  <2>1. \A w \in Relays : r \notin batch[w]
    BY <1>1, <1>4 DEF Enqueue, ClaimsAreHeld
  <2>2. \A o \in Rows \ {r} : status'[o] = status[o]
    BY <1>1, <1>4 DEF Enqueue
  <2>3. UNCHANGED <<attempts, lease, batch, ticket, row>>
    BY <1>4 DEF Enqueue, relayVars
  <2> QED
    BY <1>1, <1>4, <2>1, <2>2, <2>3 DEF ClaimsAreHeld
<1>5. ASSUME NEW w \in Relays, Claim(w) PROVE ClaimsAreHeld'
  <2>1. PICK rows \in SUBSET Rows :
          /\ \A o \in rows : Claimable(o)
          /\ status' = [o \in Rows |-> IF o \in rows THEN "SENDING" ELSE status[o]]
          /\ attempts' = [o \in Rows |-> IF o \in rows THEN attempts[o] + 1 ELSE attempts[o]]
          /\ lease' = [o \in Rows |-> IF o \in rows THEN Lease ELSE lease[o]]
          /\ batch' = [batch EXCEPT ![w] = rows]
          /\ ticket' = [ticket EXCEPT ![w] =
               [o \in Rows |-> IF o \in rows THEN attempts[o] + 1 ELSE 0]]
    BY <1>5 DEF Claim
  <2>2. \A v \in Relays : \A o \in batch[v] : o \notin rows
    BY <1>1, <2>1 DEF ClaimsAreHeld, Claimable
  <2>3. pc[w] = "idle" /\ row' = row
    BY <1>5 DEF Claim
  <2>4. \A v \in Relays \ {w} : batch'[v] = batch[v] /\ ticket'[v] = ticket[v] /\ row'[v] = row[v]
    BY <1>1, <2>1, <2>3
  <2>5. /\ batch'[w] = rows
        /\ \A o \in rows :
             status'[o] = "SENDING" /\ ticket'[w][o] = attempts'[o] /\ lease'[o] > 0
    BY <1>1, <2>1
  <2>6. row'[w] = NoRow
    BY <1>5 DEF PromptInv, IdleIsBetweenRows, Claim
  <2>7. \A v \in Relays \ {w} : \A o \in batch[v] :
          status'[o] = status[o] /\ attempts'[o] = attempts[o] /\ lease'[o] = lease[o]
    BY <1>1, <2>1, <2>2
  <2>8. ASSUME NEW v \in Relays \ {w}, NEW o \in batch'[v]
        PROVE  /\ status'[o] = "SENDING" /\ ticket'[v][o] = attempts'[o] /\ lease'[o] > 0
               /\ \A x \in Relays : o \in batch'[x] => x = v
    <3>1. o \in batch[v] /\ o \in Rows /\ o \notin rows
      BY <1>1, <2>2, <2>4, <2>8
    <3>2. status'[o] = "SENDING" /\ ticket'[v][o] = attempts'[o] /\ lease'[o] > 0
      BY <1>1, <2>4, <2>7, <2>8, <3>1 DEF ClaimsAreHeld
    <3>3. ASSUME NEW x \in Relays, o \in batch'[x] PROVE x = v
      <4>1. x # w
        BY <2>5, <3>1, <3>3
      <4>2. o \in batch[x]
        BY <2>4, <3>3, <4>1
      <4> QED
        BY <1>1, <3>1, <4>2 DEF ClaimsAreHeld
    <3> QED
      BY <3>2, <3>3
  <2>9. ASSUME NEW o \in batch'[w], NEW x \in Relays, o \in batch'[x] PROVE x = w
    BY <2>2, <2>4, <2>5, <2>9
  <2>10. \A v \in Relays \ {w} : row'[v] \in batch'[v] \cup {NoRow}
    BY <1>1, <2>4 DEF ClaimsAreHeld
  <2> QED
    BY <1>5, <2>5, <2>6, <2>8, <2>9, <2>10 DEF ClaimsAreHeld
<1>6. ASSUME NEW w \in Relays, NEW o \in Rows, CallProvider(w, o) \/ LoseAnswer(w, o)
      PROVE  ClaimsAreHeld'
  <2>1. /\ o \in batch[w] /\ row' = [row EXCEPT ![w] = o]
        /\ UNCHANGED <<status, attempts, lease, batch, ticket>>
    BY <1>6 DEF CallProvider, LoseAnswer, Answered, table
  <2>2. /\ \A v \in Relays : row'[v] \in batch[v] \cup {NoRow}
        /\ \A v \in Relays : \A r \in batch[v] : lease'[r] > 0
    BY <1>1, <2>1 DEF ClaimsAreHeld
  <2> QED
    BY <1>3, <1>6, <2>1, <2>2
<1>7. ASSUME NEW w \in Relays, NEW rest \in SUBSET batch[w], Return(w, rest),
             UNCHANGED attempts,
             \A o \in Rows : (\E v \in Relays : o \in batch'[v]) =>
               status'[o] = status[o] /\ lease'[o] = lease[o]
      PROVE  ClaimsAreHeld'
  <2>1. /\ \A v \in Relays \ {w} : batch'[v] = batch[v] /\ ticket'[v] = ticket[v] /\ row'[v] = row[v]
        /\ batch'[w] = rest /\ row'[w] = NoRow
        /\ \A o \in rest : ticket'[w][o] = ticket[w][o]
    BY <1>1, <1>7 DEF Return
  <2>2. ASSUME NEW v \in Relays, NEW o \in batch'[v]
        PROVE  /\ status'[o] = "SENDING" /\ ticket'[v][o] = attempts'[o] /\ lease'[o] > 0
               /\ \A x \in Relays : o \in batch'[x] => x = v
    <3>1. o \in batch[v] /\ o \in Rows /\ ticket'[v][o] = ticket[v][o]
      BY <1>1, <2>1, <2>2
    <3>2. \A x \in Relays : o \in batch'[x] => o \in batch[x]
      BY <2>1
    <3> QED
      BY <1>1, <1>7, <2>2, <3>1, <3>2 DEF ClaimsAreHeld
  <2>3. \A v \in Relays : row'[v] \in batch'[v] \cup {NoRow}
    BY <1>1, <2>1 DEF ClaimsAreHeld
  <2> QED
    BY <1>7, <2>2, <2>3 DEF ClaimsAreHeld
<1>8. ASSUME NEW w \in Relays, Settle(w) PROVE ClaimsAreHeld'
  <2>1. row[w] \in batch[w] /\ row[w] \in Rows
    BY <1>1, <1>8 DEF Settle, TypeOK
  <2>2. \A o \in Rows : o # row[w] => status'[o] = status[o] /\ lease'[o] = lease[o]
    BY <1>1, <1>8, <2>1 DEF Settle, Outcome
  <2>3. Return(w, batch[w] \ {row[w]}) /\ UNCHANGED attempts
    BY <1>8 DEF Settle
  <2>4. \A v \in Relays : row[w] \notin batch'[v]
    BY <1>1, <2>1, <2>3 DEF Return, ClaimsAreHeld
  <2> QED
    BY <1>7, <1>8, <2>2, <2>3, <2>4
<1>9. ASSUME NEW w \in Relays, Crash(w) PROVE ClaimsAreHeld'
  BY <1>7, <1>9 DEF Crash, table
<1>10. ASSUME Tick, LeasesHold PROVE ClaimsAreHeld'
  <2>1. UNCHANGED <<status, attempts, batch, ticket, row>>
    BY <1>10 DEF Tick, relayVars
  <2>2. ASSUME NEW w \in Relays, NEW o \in batch[w] PROVE lease'[o] > 0
    <3>1. o \in Rows /\ lease[o] \in Nat /\ lease[o] > 1
      BY <1>1, <1>10, <2>2 DEF ClaimsAreHeld, LeasesHold
    <3> QED
      BY <1>10, <3>1 DEF Tick, RunDown
  <2> QED
    BY <1>1, <1>3, <2>1, <2>2 DEF ClaimsAreHeld
<1> QED
  BY <1>2, <1>4, <1>5, <1>6, <1>8, <1>9, <1>10 DEF PromptNext, Next, Work

\* A relay is idle only with nothing claimed and nothing in hand.
LEMMA IdleStep == TypeOK /\ IdleIsBetweenRows /\ [Next]_vars => IdleIsBetweenRows'
<1> SUFFICES ASSUME TypeOK, IdleIsBetweenRows, [Next]_vars PROVE IdleIsBetweenRows'
  OBVIOUS
<1>1. /\ pc \in [Relays -> {"idle", "send", "settle"}]
      /\ batch \in [Relays -> SUBSET Rows]
      /\ row \in [Relays -> Rows \cup {NoRow}]
  BY DEF TypeOK
<1>2. ASSUME UNCHANGED <<pc, batch, row>> PROVE IdleIsBetweenRows'
  BY <1>2 DEF IdleIsBetweenRows
<1>3. ASSUME NEW w \in Relays, NEW rest, Return(w, rest) PROVE IdleIsBetweenRows'
  BY <1>1, <1>3 DEF IdleIsBetweenRows, Return
<1>4. ASSUME NEW w \in Relays, Claim(w) PROVE IdleIsBetweenRows'
  <2>1. /\ pc' = [pc EXCEPT ![w] = "send"] /\ row' = row
        /\ \A v \in Relays \ {w} : batch'[v] = batch[v]
    BY <1>1, <1>4 DEF Claim
  <2> QED
    BY <1>1, <2>1 DEF IdleIsBetweenRows
<1>5. ASSUME NEW w \in Relays, NEW o \in Rows, CallProvider(w, o) \/ LoseAnswer(w, o)
      PROVE  IdleIsBetweenRows'
  <2>1. /\ pc[w] = "send" /\ row' = [row EXCEPT ![w] = o] /\ batch' = batch
        /\ pc' = [pc EXCEPT ![w] = "settle"] \/ pc' = pc
    BY <1>5 DEF CallProvider, LoseAnswer, Answered
  <2> QED
    BY <1>1, <2>1 DEF IdleIsBetweenRows
<1>6. ASSUME NEW w \in Relays, Settle(w) \/ Crash(w) PROVE IdleIsBetweenRows'
  BY <1>3, <1>6 DEF Settle, Crash
<1>7. (\E o \in Rows : Enqueue(o)) \/ Tick \/ UNCHANGED vars => UNCHANGED <<pc, batch, row>>
  BY DEF Enqueue, Tick, vars, relayVars
<1> QED
  BY <1>2, <1>4, <1>5, <1>6, <1>7 DEF Next, Work

\* A claim uses up an attempt that was left, or one that a fault paid for.
LEMMA AttemptsStep ==
  PromptInv /\ [PromptNext]_vars => (AttemptsLeft /\ AttemptsPaidFor)'
<1> SUFFICES ASSUME PromptInv, [PromptNext]_vars
             PROVE  (AttemptsLeft /\ AttemptsPaidFor)'
  OBVIOUS
<1>1. /\ MaxAttempts \in Nat /\ MaxFaults \in Nat /\ faults \in Nat
      /\ status \in [Rows -> RowStatuses]
      /\ \A o \in Rows : attempts[o] \in Nat
      /\ attempts \in [Rows -> 0..MaxClaims]
      /\ batch \in [Relays -> SUBSET Rows]
      /\ row \in [Relays -> Rows \cup {NoRow}]
      /\ \A w \in Relays : pc[w] = "settle" => row[w] \in batch[w]
  BY NotifierAssumption DEF PromptInv, IInv, TypeOK
<1>2. AttemptsLeft /\ AttemptsPaidFor /\ ClaimsAreHeld /\ IdleIsBetweenRows
  BY DEF PromptInv
<1>3. ASSUME UNCHANGED <<status, attempts, batch>>, faults' \in Nat, faults' >= faults
      PROVE  (AttemptsLeft /\ AttemptsPaidFor)'
  BY <1>1, <1>2, <1>3 DEF AttemptsLeft, AttemptsPaidFor
<1>4. ASSUME NEW r \in Rows, Enqueue(r) PROVE (AttemptsLeft /\ AttemptsPaidFor)'
  BY <1>1, <1>2, <1>4 DEF Enqueue, relayVars, AttemptsLeft, AttemptsPaidFor
<1>5. ASSUME NEW w \in Relays, Claim(w) PROVE (AttemptsLeft /\ AttemptsPaidFor)'
  <2>1. PICK rows \in SUBSET Rows :
          /\ \A o \in rows : Claimable(o)
          /\ status' = [o \in Rows |-> IF o \in rows THEN "SENDING" ELSE status[o]]
          /\ attempts' = [o \in Rows |-> IF o \in rows THEN attempts[o] + 1 ELSE attempts[o]]
          /\ batch' = [batch EXCEPT ![w] = rows]
    BY <1>5 DEF Claim
  <2>2. batch[w] = {} /\ faults' = faults
    BY <1>2, <1>5 DEF Claim, IdleIsBetweenRows
  <2>3. \A o \in rows : attempts[o] < MaxAttempts + faults
    <3>1. ASSUME NEW o \in rows, status[o] = "PENDING" PROVE attempts[o] < MaxAttempts + faults
      BY <1>1, <1>2, <3>1 DEF AttemptsLeft
    <3>2. ASSUME NEW o \in rows, status[o] = "SENDING", lease[o] = 0
          PROVE  attempts[o] < MaxAttempts + faults
      BY <1>1, <1>2, <3>2 DEF AttemptsLeft, ClaimsAreHeld
    <3> QED
      BY <2>1, <3>1, <3>2 DEF Claimable
  <2>4. \A o \in rows : attempts'[o] <= MaxAttempts + faults' /\ status'[o] = "SENDING" /\ o \in batch'[w]
    BY <1>1, <2>1, <2>2, <2>3
  <2>5. ASSUME NEW o \in Rows \ rows
        PROVE  /\ status'[o] = status[o] /\ attempts'[o] = attempts[o]
               /\ (\A v \in Relays : o \notin batch'[v]) => \A v \in Relays : o \notin batch[v]
    BY <1>1, <2>1, <2>2
  <2>6. AttemptsPaidFor'
    BY <1>1, <1>2, <2>2, <2>4, <2>5 DEF AttemptsPaidFor
  <2>7. AttemptsLeft'
    BY <1>1, <1>2, <2>2, <2>4, <2>5 DEF AttemptsLeft
  <2> QED
    BY <2>6, <2>7
<1>6. ASSUME NEW w \in Relays, NEW o \in Rows, CallProvider(w, o) \/ LoseAnswer(w, o)
      PROVE  (AttemptsLeft /\ AttemptsPaidFor)'
  BY <1>1, <1>3, <1>6 DEF CallProvider, LoseAnswer, table
<1>7. ASSUME NEW w \in Relays, Settle(w) PROVE (AttemptsLeft /\ AttemptsPaidFor)'
  <2>1. /\ row[w] \in batch[w] /\ row[w] \in Rows
        /\ batch' = [batch EXCEPT ![w] = batch[w] \ {row[w]}]
        /\ UNCHANGED <<attempts, faults>>
    BY <1>1, <1>7 DEF Settle, Return
  <2>2. /\ \A o \in Rows \ {row[w]} : status'[o] = status[o]
        /\ \/ status'[row[w]] \in {"SENT", "DEAD"}
           \/ status'[row[w]] = "PENDING" /\ attempts[row[w]] < MaxAttempts
    <3>1. status[row[w]] = "SENDING"
      BY <1>2, <2>1 DEF ClaimsAreHeld
    <3> QED
      BY <1>1, <1>7, <2>1, <3>1 DEF Settle, Outcome
  <2>3. \A o \in Rows \ {row[w]} : (\A v \in Relays : o \notin batch'[v]) =>
          \A v \in Relays : o \notin batch[v]
    BY <1>1, <2>1
  <2> QED
    BY <1>1, <1>2, <2>1, <2>2, <2>3 DEF AttemptsLeft, AttemptsPaidFor
<1>8. ASSUME NEW w \in Relays, Crash(w) PROVE (AttemptsLeft /\ AttemptsPaidFor)'
  <2>1. faults' = faults + 1 /\ status' = status /\ attempts' = attempts
    BY <1>8 DEF Crash, table
  <2> QED
    BY <1>1, <1>2, <2>1 DEF AttemptsLeft, AttemptsPaidFor
<1>9. Tick \/ UNCHANGED vars => UNCHANGED <<status, attempts, batch, faults>>
  BY DEF Tick, vars, table, relayVars
<1> QED
  BY <1>1, <1>3, <1>4, <1>5, <1>6, <1>7, <1>8, <1>9 DEF PromptNext, Next, Work

\* A second message is sent only after a fault has hidden the first one.
LEMMA DuplicatesStep ==
  PromptInv /\ [PromptNext]_vars => DuplicatesNeedAFault'
<1> SUFFICES ASSUME PromptInv, [PromptNext]_vars PROVE DuplicatesNeedAFault'
  OBVIOUS
<1>1. /\ faults \in Nat
      /\ status \in [Rows -> RowStatuses]
      /\ delivered \in [Rows -> Nat]
      /\ batch \in [Relays -> SUBSET Rows]
      /\ row \in [Relays -> Rows \cup {NoRow}]
      /\ result \in [Relays -> {"none", "sent", "failed"}]
      /\ \A w \in Relays : pc[w] = "settle" => row[w] \in batch[w]
      /\ \A w \in Relays : pc[w] = "settle" <=> result[w] # "none"
      /\ NoRow \notin Rows
  BY NotifierAssumption DEF PromptInv, IInv, TypeOK
<1>2. DuplicatesNeedAFault /\ ClaimsAreHeld
  BY DEF PromptInv
<1>3. ASSUME delivered' = delivered, faults' = faults,
             \A o \in Rows : status[o] = "SENT" => status'[o] = "SENT",
             \A o \in Rows : SentBySomebody(o) => SentBySomebody(o)'
      PROVE  DuplicatesNeedAFault'
  BY <1>1, <1>2, <1>3 DEF DuplicatesNeedAFault
<1>4. ASSUME UNCHANGED <<row, result>>, NEW o \in Rows
      PROVE  SentBySomebody(o) <=> SentBySomebody(o)'
  BY <1>4 DEF SentBySomebody
<1>5. ASSUME NEW r \in Rows, Enqueue(r) PROVE DuplicatesNeedAFault'
  <2>1. \A o \in Rows : status[o] = "SENT" => status'[o] = "SENT"
    BY <1>1, <1>5 DEF Enqueue
  <2> QED
    BY <1>3, <1>4, <1>5, <2>1 DEF Enqueue, relayVars
<1>6. ASSUME NEW w \in Relays, Claim(w) PROVE DuplicatesNeedAFault'
  <2>1. \A o \in Rows : status[o] = "SENT" => status'[o] = "SENT"
    BY <1>1, <1>6 DEF Claim, Claimable
  <2> QED
    BY <1>3, <1>4, <1>6, <2>1 DEF Claim
<1>7. ASSUME NEW w \in Relays, NEW o \in Rows, CallProvider(w, o) \/ LoseAnswer(w, o)
      PROVE  DuplicatesNeedAFault'
  <2>1. /\ pc[w] = "send" /\ o \in batch[w] /\ row[w] \in {o, NoRow}
        /\ row' = [row EXCEPT ![w] = o] /\ status' = status
    BY <1>7 DEF CallProvider, LoseAnswer, Answered, table
  <2>2. \A v \in Relays \ {w} : row'[v] = row[v] /\ result'[v] = result[v]
    BY <1>1, <1>7, <2>1 DEF CallProvider, LoseAnswer, Answered
  <2>3. result[w] = "none"
    BY <1>1, <2>1
  <2>4. \A r \in Rows : SentBySomebody(r) => SentBySomebody(r)'
    BY <1>1, <2>2, <2>3 DEF SentBySomebody
  <2>5. \A r \in Rows \ {o} : delivered'[r] = delivered[r]
    BY <1>1, <1>7 DEF CallProvider, LoseAnswer
  <2>6. CASE LoseAnswer(w, o)
    <3>1. faults' = faults + 1 /\ delivered'[o] = delivered[o] + 1
      BY <1>1, <2>6 DEF LoseAnswer
    <3> QED
      BY <1>1, <1>2, <2>1, <2>4, <2>5, <3>1 DEF DuplicatesNeedAFault
  <2>7. CASE CallProvider(w, o)
    <3>1. faults' = faults
      BY <2>7 DEF CallProvider
    <3>2. CASE delivered' = delivered
      BY <1>3, <2>1, <2>4, <3>1, <3>2
    <3>3. CASE delivered'[o] = delivered[o] + 1 /\ result'[w] = "sent"
      <4>1. status[o] = "SENDING" /\ ~ SentBySomebody(o)
        BY <1>1, <1>2, <2>1, <2>3 DEF ClaimsAreHeld, SentBySomebody
      <4>2. delivered[o] <= faults
        BY <1>1, <1>2, <4>1 DEF DuplicatesNeedAFault
      <4>3. SentBySomebody(o)'
        BY <1>1, <2>1, <3>3 DEF SentBySomebody
      <4> QED
        BY <1>1, <1>2, <2>1, <2>4, <2>5, <3>1, <3>3, <4>2, <4>3 DEF DuplicatesNeedAFault
    <3>4. \/ delivered' = delivered
          \/ delivered'[o] = delivered[o] + 1 /\ result'[w] = "sent"
      <4>1. PICK answer \in {"sent", "failed"} :
              /\ Answered(w, o, answer)
              /\ delivered' = [delivered EXCEPT ![o] =
                                 IF answer = "sent" THEN @ + 1 ELSE @]
        BY <2>7 DEF CallProvider
      <4>2. answer = "sent" => result' = [result EXCEPT ![w] = "sent"]
        BY <4>1 DEF Answered
      <4>3. answer = "failed" => delivered' = delivered
        BY <1>1, <4>1
      <4> QED
        BY <1>1, <4>1, <4>2, <4>3
    <3> QED
      BY <3>2, <3>3, <3>4
  <2> QED
    BY <1>7, <2>6, <2>7
<1>8. ASSUME NEW w \in Relays, Settle(w) PROVE DuplicatesNeedAFault'
  <2>1. /\ pc[w] = "settle" /\ row[w] \in batch[w] /\ row[w] \in Rows
        /\ status[row[w]] = "SENDING"
    BY <1>1, <1>2, <1>8 DEF Settle, ClaimsAreHeld
  <2>2. /\ UNCHANGED <<delivered, faults>>
        /\ \A v \in Relays \ {w} : row'[v] = row[v] /\ result'[v] = result[v]
        /\ \A o \in Rows \ {row[w]} : status'[o] = status[o]
    BY <1>1, <1>8, <2>1 DEF Settle, Return, Outcome
  <2>3. \A o \in Rows \ {row[w]} : SentBySomebody(o) => SentBySomebody(o)'
    BY <1>1, <2>2 DEF SentBySomebody
  <2>4. CASE result[w] = "sent"
    <3>1. status'[row[w]] = "SENT"
      BY <1>1, <1>8, <2>1, <2>4 DEF Settle, Outcome
    <3> QED
      BY <1>1, <1>2, <2>1, <2>2, <2>3, <3>1 DEF DuplicatesNeedAFault
  <2>5. CASE result[w] = "failed"
    <3>1. ~ SentBySomebody(row[w])
      BY <1>1, <1>2, <2>1, <2>5 DEF ClaimsAreHeld, SentBySomebody
    <3>2. delivered[row[w]] <= faults
      BY <1>1, <1>2, <2>1, <3>1 DEF DuplicatesNeedAFault
    <3> QED
      BY <1>1, <1>2, <2>1, <2>2, <2>3, <3>2 DEF DuplicatesNeedAFault
  <2> QED
    BY <1>1, <2>1, <2>4, <2>5
<1>9. ASSUME NEW w \in Relays, Crash(w) PROVE DuplicatesNeedAFault'
  <2>1. faults' = faults + 1 /\ status' = status /\ delivered' = delivered
    BY <1>9 DEF Crash, table
  <2>2. \A o \in Rows : delivered[o] <= faults + 1
    BY <1>1, <1>2 DEF DuplicatesNeedAFault
  <2> QED
    BY <1>1, <2>1, <2>2 DEF DuplicatesNeedAFault
<1>10. Tick \/ UNCHANGED vars =>
         UNCHANGED <<status, delivered, faults>> /\ UNCHANGED <<row, result>>
  BY DEF Tick, vars, table, relayVars
<1>11. CASE Tick \/ UNCHANGED vars
  BY <1>3, <1>4, <1>10, <1>11
<1> QED
  BY <1>5, <1>6, <1>7, <1>8, <1>9, <1>11 DEF PromptNext, Next, Work

\* With prompt relays a claim has one holder, and duplicates and attempts beyond
\* the maximum are paid for by faults.
THEOREM PromptRelays == PromptSpec => []PromptInv
<1>1. Init => PromptInv
  <2>1. Init => IInv
    BY TypeInit DEF Init, IInv, OneRecordPerRow, AnswersAreTrue
  <2>2. Init => ClaimsAreHeld /\ IdleIsBetweenRows
    BY DEF Init, ClaimsAreHeld, IdleIsBetweenRows
  <2>3. Init => AttemptsLeft /\ AttemptsPaidFor /\ DuplicatesNeedAFault
    BY NotifierAssumption DEF Init, AttemptsLeft, AttemptsPaidFor, DuplicatesNeedAFault
  <2> QED
    BY <2>1, <2>2, <2>3 DEF PromptInv
<1>2. PromptInv /\ [PromptNext]_vars => PromptInv'
  <2>1. [PromptNext]_vars => [Next]_vars
    BY DEF PromptNext
  <2>2. PromptInv /\ [Next]_vars => IInv'
    BY TypeStep, AnswersStep, RecordStep DEF PromptInv, IInv
  <2>3. PromptInv /\ [Next]_vars => IdleIsBetweenRows'
    BY IdleStep DEF PromptInv, IInv
  <2> QED
    BY <2>1, <2>2, <2>3, HeldStep, AttemptsStep, DuplicatesStep DEF PromptInv
<1> QED
  BY <1>1, <1>2, PTL DEF PromptSpec

\* Every message beyond the first is the price of a crash or a lost answer.
THEOREM Duplicates == PromptSpec => []DuplicatesNeedAFault
<1>1. PromptInv => DuplicatesNeedAFault
  BY DEF PromptInv
<1> QED
  BY <1>1, PromptRelays, PTL

\* No row is tried more often than max_attempts and the faults allow.
THEOREM Attempts == PromptSpec => []AttemptsPaidFor
<1>1. PromptInv => AttemptsPaidFor
  BY DEF PromptInv
<1> QED
  BY <1>1, PromptRelays, PTL

\* A row leaves SENDING only by the hand of the relay whose claim put it there.
THEOREM HolderSettles == PromptSpec => OnlyHolderSettles
<1>1. PromptInv /\ [PromptNext]_vars =>
        [\A o \in Rows : status[o] = "SENDING" /\ status'[o] # "SENDING" =>
           \E w \in Relays : row[w] = o /\ row'[w] = NoRow /\ ticket[w][o] = attempts[o]]_vars
  <2> SUFFICES ASSUME PromptInv, Next, NEW o \in Rows,
                      status[o] = "SENDING", status'[o] # "SENDING"
               PROVE  \E w \in Relays : row[w] = o /\ row'[w] = NoRow
                                          /\ ticket[w][o] = attempts[o]
    BY DEF PromptNext
  <2>1. /\ status \in [Rows -> RowStatuses]
        /\ row \in [Relays -> Rows \cup {NoRow}]
        /\ \A w \in Relays : pc[w] = "settle" => row[w] \in batch[w]
        /\ ClaimsAreHeld
    BY DEF PromptInv, IInv, TypeOK
  <2>2. PICK w \in Relays : Settle(w)
    <3>1. \A r \in Rows : ~ Enqueue(r)
      BY <2>1 DEF Enqueue
    <3>2. \A w \in Relays : ~ Claim(w)
      BY <2>1 DEF Claim
    <3>3. \A w \in Relays, r \in Rows : ~ CallProvider(w, r) /\ ~ LoseAnswer(w, r)
      BY DEF CallProvider, LoseAnswer, table
    <3>4. ~ Tick /\ \A w \in Relays : ~ Crash(w)
      BY DEF Tick, Crash, table
    <3> QED
      BY <3>1, <3>2, <3>3, <3>4 DEF Next, Work
  <2>3. row[w] = o
    BY <2>1, <2>2 DEF Settle, Outcome
  <2>4. row'[w] = NoRow
    BY <2>1, <2>2 DEF Settle, Return
  <2> QED
    BY <2>1, <2>2, <2>3, <2>4 DEF Settle, ClaimsAreHeld
<1> QED
  BY <1>1, PromptRelays, PTL DEF PromptSpec, OnlyHolderSettles

\* A settled row is in nobody's batch, so nothing more is sent for it.
THEOREM SettledIsFinal == PromptSpec => NothingAfterSettled
<1>1. PromptInv /\ [PromptNext]_vars =>
        [\A o \in Rows : status[o] \in Settled => delivered'[o] = delivered[o]]_vars
  <2> SUFFICES ASSUME PromptInv, Next, NEW o \in Rows, status[o] \in Settled
               PROVE  delivered'[o] = delivered[o]
    BY DEF PromptNext
  <2>1. delivered \in [Rows -> Nat] /\ ClaimsAreHeld
    BY DEF PromptInv, IInv, TypeOK
  <2>2. \A w \in Relays : o \notin batch[w]
    BY <2>1 DEF ClaimsAreHeld, Settled
  <2>3. ASSUME NEW w \in Relays, NEW r \in Rows, CallProvider(w, r) \/ LoseAnswer(w, r)
        PROVE  delivered'[o] = delivered[o]
    <3>1. r # o
      BY <2>2, <2>3 DEF CallProvider, LoseAnswer
    <3> QED
      BY <2>1, <2>3, <3>1 DEF CallProvider, LoseAnswer
  <2> QED
    BY <2>3 DEF Next, Work, Enqueue, Claim, Settle, Crash, Tick
<1> QED
  BY <1>1, PromptRelays, PTL DEF PromptSpec, NothingAfterSettled

-----------------------------------------------------------------------------
(***************************************************************************)
(* The relays implement Delivery, whether or not their leases hold.        *)
(***************************************************************************)

\* A row that is in the outbox stays there.
LEMMA RowsStay ==
  ASSUME TypeOK, [Next]_vars, NEW o \in Rows, status[o] # "ABSENT"
  PROVE  status'[o] # "ABSENT"
<1>1. status \in [Rows -> RowStatuses]
  BY DEF TypeOK
<1>2. ASSUME NEW r \in Rows, Enqueue(r) PROVE status'[o] # "ABSENT"
  BY <1>1, <1>2 DEF Enqueue
<1>3. ASSUME NEW w \in Relays, Claim(w) PROVE status'[o] # "ABSENT"
  BY <1>1, <1>3 DEF Claim
<1>4. ASSUME NEW w \in Relays, Settle(w) PROVE status'[o] # "ABSENT"
  <2>1. CASE UNCHANGED status
    BY <2>1
  <2>2. CASE Outcome(row[w], result[w])
    BY <1>1, <2>2 DEF Outcome
  <2> QED
    BY <1>4, <2>1, <2>2 DEF Settle
<1>5. ASSUME NEW w \in Relays, NEW r \in Rows, CallProvider(w, r) \/ LoseAnswer(w, r)
      PROVE  UNCHANGED status
  BY <1>5 DEF CallProvider, LoseAnswer, table
<1>6. ASSUME NEW w \in Relays, Crash(w) PROVE UNCHANGED status
  BY <1>6 DEF Crash, table
<1>7. Tick \/ UNCHANGED vars => UNCHANGED status
  BY DEF Tick, vars, table
<1> QED
  BY <1>2, <1>3, <1>4, <1>5, <1>6, <1>7 DEF Next, Work

LEMMA ClaimedRowsStep == TypeOK /\ ClaimedRowsExist /\ [Next]_vars => ClaimedRowsExist'
<1> SUFFICES ASSUME TypeOK, ClaimedRowsExist, [Next]_vars,
                    NEW v \in Relays, NEW o \in batch'[v]
             PROVE  status'[o] # "ABSENT"
  BY DEF ClaimedRowsExist
<1>1. status \in [Rows -> RowStatuses] /\ batch \in [Relays -> SUBSET Rows]
  BY DEF TypeOK
<1>2. CASE o \in batch[v]
  BY <1>1, <1>2, RowsStay DEF ClaimedRowsExist
<1>3. ASSUME NEW w \in Relays, Claim(w), o \notin batch[v] PROVE status'[o] # "ABSENT"
  <2>1. PICK rows \in SUBSET Rows :
          /\ status' = [r \in Rows |-> IF r \in rows THEN "SENDING" ELSE status[r]]
          /\ batch' = [batch EXCEPT ![w] = rows]
    BY <1>3 DEF Claim
  <2>2. o \in rows
    BY <1>1, <1>3, <2>1
  <2> QED
    BY <2>1, <2>2
<1>4. ASSUME NEW w \in Relays, Settle(w) \/ Crash(w) PROVE o \in batch[v]
  <2>1. PICK rest : rest \subseteq batch[w] /\ batch' = [batch EXCEPT ![w] = rest]
    BY <1>4 DEF Settle, Crash, Return
  <2> QED
    BY <1>1, <2>1
<1>5. ASSUME NEW w \in Relays, NEW r \in Rows, CallProvider(w, r) \/ LoseAnswer(w, r)
      PROVE  UNCHANGED batch
  BY <1>5 DEF CallProvider, LoseAnswer
<1>6. ASSUME NEW r \in Rows, Enqueue(r) PROVE UNCHANGED batch
  BY <1>6 DEF Enqueue, relayVars
<1>7. Tick \/ UNCHANGED vars => UNCHANGED batch
  BY DEF Tick, vars, relayVars
<1> QED
  BY <1>2, <1>3, <1>4, <1>5, <1>6, <1>7 DEF Next, Work

\* Whatever has become of a claim, its row is in the outbox.
THEOREM ClaimsAreOfRows == Spec => []ClaimedRowsExist
<1>1. Init => ClaimedRowsExist
  BY DEF Init, ClaimedRowsExist
<1> QED
  BY <1>1, ClaimedRowsStep, TypeCorrect, PTL DEF Spec

\* A row changes its status: the stages change at that row only.
LEMMA StageUpdate ==
  ASSUME NEW o \in Rows, NEW s, status \in [Rows -> RowStatuses],
         status' = [status EXCEPT ![o] = s]
  PROVE  [r \in Rows |-> StageOf[status'[r]]] =
           [[r \in Rows |-> StageOf[status[r]]] EXCEPT ![o] = StageOf[s]]
OBVIOUS

\* A step that leaves status and delivered alone is no step of Delivery.
LEMMA DeliveryStutters ==
  ASSUME UNCHANGED <<status, delivered>> PROVE UNCHANGED Promise!deliveryVars
BY DEF Promise!deliveryVars

\* A message goes out for a row of the outbox: it has reached the phone.
LEMMA DeliveredRefines ==
  ASSUME IInv, NEW o \in Rows, status[o] # "ABSENT", UNCHANGED status,
         delivered' = [delivered EXCEPT ![o] = delivered[o] + 1]
  PROVE  Promise!Reach(o)
<1>1. /\ status \in [Rows -> RowStatuses]
      /\ delivered \in [Rows -> Nat]
  BY DEF IInv, TypeOK
<1>2. StageOf[status[o]] # "ABSENT"
  BY <1>1 DEF StageOf, RowStatuses
<1>3. [r \in Rows |-> delivered'[r] > 0] = [[r \in Rows |-> delivered[r] > 0] EXCEPT ![o] = TRUE]
  <2>1. \A r \in Rows : delivered'[r] = IF r = o THEN delivered[r] + 1 ELSE delivered[r]
    BY <1>1
  <2>2. delivered'[o] > 0
    BY <1>1, <2>1
  <2> QED
    BY <1>1, <2>1, <2>2
<1> QED
  BY <1>2, <1>3 DEF Promise!Reach

\* A settle records the row, gives it up, or puts it back for another attempt.
LEMMA SettleRefines ==
  ASSUME IInv, NEW w \in Relays, Settle(w)
  PROVE  Promise!DeliveryNext \/ UNCHANGED Promise!deliveryVars
<1> DEFINE stage == [r \in Rows |-> StageOf[status[r]]]
<1>0. PICK o \in Rows : o = row[w]
  BY DEF Settle, IInv, TypeOK
<1>1. /\ result[w] \in {"sent", "failed"}
      /\ status \in [Rows -> RowStatuses]
      /\ result[w] = "sent" => delivered[o] > 0
      /\ UNCHANGED delivered
  BY <1>0 DEF Settle, IInv, TypeOK, AnswersAreTrue
<1>2. CASE UNCHANGED status
  BY <1>1, <1>2, DeliveryStutters
<1>3. CASE status[o] = "SENDING" /\ Outcome(o, result[w])
  <2>1. stage[o] = "OPEN"
    BY <1>1, <1>3 DEF StageOf
  <2>2. PICK s \in {"SENT", "DEAD", "PENDING"} :
          /\ status' = [status EXCEPT ![o] = s]
          /\ s = "SENT" => result[w] = "sent"
    BY <1>1, <1>3 DEF Outcome
  <2>3. [r \in Rows |-> StageOf[status'[r]]] = [stage EXCEPT ![o] = StageOf[s]]
    BY <1>1, <2>2, StageUpdate
  <2>4. CASE s = "SENT"
    <3>1. Promise!Record(o)
      BY <1>1, <2>1, <2>2, <2>3, <2>4 DEF Promise!Record, StageOf
    <3> QED
      BY <3>1 DEF Promise!DeliveryNext
  <2>5. CASE s = "DEAD"
    <3>1. Promise!GiveUp(o)
      BY <1>1, <2>1, <2>3, <2>5 DEF Promise!GiveUp, StageOf
    <3> QED
      BY <3>1 DEF Promise!DeliveryNext
  <2>6. CASE s = "PENDING"
    <3>1. [stage EXCEPT ![o] = StageOf[s]] = stage
      BY <1>1, <2>1, <2>6 DEF StageOf
    <3> QED
      BY <1>1, <2>3, <3>1 DEF Promise!deliveryVars
  <2> QED
    BY <2>2, <2>4, <2>5, <2>6
<1> QED
  BY <1>0, <1>2, <1>3 DEF Settle

LEMMA StepRefines ==
  IInv /\ ClaimedRowsExist /\ [Next]_vars => [Promise!DeliveryNext]_(Promise!deliveryVars)
<1> SUFFICES ASSUME IInv, ClaimedRowsExist, [Next]_vars
             PROVE  Promise!DeliveryNext \/ UNCHANGED Promise!deliveryVars
  OBVIOUS
<1>1. /\ status \in [Rows -> RowStatuses]
      /\ delivered \in [Rows -> Nat]
  BY DEF IInv, TypeOK
<1>2. ASSUME NEW o \in Rows, Enqueue(o) PROVE Promise!DeliveryNext
  <2>1. [r \in Rows |-> StageOf[status'[r]]] =
          [[r \in Rows |-> StageOf[status[r]]] EXCEPT ![o] = StageOf["PENDING"]]
    BY <1>1, <1>2, StageUpdate DEF Enqueue
  <2>2. StageOf[status[o]] = "ABSENT" /\ StageOf["PENDING"] = "OPEN" /\ UNCHANGED delivered
    BY <1>2 DEF Enqueue, StageOf
  <2>3. Promise!Queue(o)
    BY <2>1, <2>2 DEF Promise!Queue
  <2> QED
    BY <2>3 DEF Promise!DeliveryNext
<1>3. ASSUME NEW w \in Relays, Claim(w) PROVE UNCHANGED Promise!deliveryVars
  <2>1. PICK rows \in SUBSET Rows :
          /\ \A r \in rows : status[r] \in {"PENDING", "SENDING"}
          /\ status' = [r \in Rows |-> IF r \in rows THEN "SENDING" ELSE status[r]]
    BY <1>3 DEF Claim, Claimable
  <2>2. \A r \in Rows : StageOf[status'[r]] = StageOf[status[r]]
    BY <2>1 DEF StageOf
  <2>3. UNCHANGED delivered
    BY <1>3 DEF Claim
  <2> QED
    BY <2>2, <2>3 DEF Promise!deliveryVars
<1>4. ASSUME NEW w \in Relays, NEW o \in Rows, CallProvider(w, o)
      PROVE  Promise!DeliveryNext \/ UNCHANGED Promise!deliveryVars
  <2>1. status[o] # "ABSENT" /\ UNCHANGED status
    BY <1>4 DEF CallProvider, ClaimedRowsExist, table
  <2>2. CASE delivered' = [delivered EXCEPT ![o] = delivered[o] + 1]
    BY <2>1, <2>2, DeliveredRefines DEF Promise!DeliveryNext
  <2>3. CASE UNCHANGED delivered
    BY <2>1, <2>3, DeliveryStutters
  <2> QED
    BY <1>1, <1>4, <2>2, <2>3 DEF CallProvider
<1>5. ASSUME NEW w \in Relays, NEW o \in Rows, LoseAnswer(w, o) PROVE Promise!DeliveryNext
  <2>1. status[o] # "ABSENT" /\ UNCHANGED status
    BY <1>5 DEF LoseAnswer, ClaimedRowsExist, table
  <2> QED
    BY <1>5, <2>1, DeliveredRefines DEF LoseAnswer, Promise!DeliveryNext
<1>6. ASSUME NEW w \in Relays, Crash(w) PROVE UNCHANGED <<status, delivered>>
  BY <1>6 DEF Crash, table
<1>7. Tick \/ UNCHANGED vars => UNCHANGED <<status, delivered>>
  BY DEF Tick, vars, table
<1> QED
  BY <1>2, <1>3, <1>4, <1>5, <1>6, <1>7, SettleRefines, DeliveryStutters DEF Next, Work

\* The relays implement what Delivery says of a page, however they stall, die or
\* settle late: it is recorded once, only after it has reached the phone, and never
\* after it was given up.
THEOREM RelaysImplementDelivery == Spec => ImplementsDelivery
<1>1. Init => Promise!DeliveryInit
  <2>1. ASSUME Init, NEW o \in Rows
        PROVE  StageOf[status[o]] = "ABSENT" /\ (delivered[o] > 0) = FALSE
    BY <2>1 DEF Init, StageOf
  <2> QED
    BY <2>1 DEF Promise!DeliveryInit
<1> QED
  BY <1>1, StepRefines, InductiveInvariant, ClaimsAreOfRows, PTL
  DEF Spec, ImplementsDelivery, Promise!DeliverySpec
=============================================================================
