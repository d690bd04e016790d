-------------------------- MODULE EscalationProofs --------------------------
(***************************************************************************)
(* What holds of Escalation for every set of incidents, workers and        *)
(* requests, every batch size, lease, grace period, tier configuration and *)
(* number of faults.                                                       *)
(***************************************************************************)
EXTENDS Escalation, TLAPS

-----------------------------------------------------------------------------
(***************************************************************************)
(* Facts about the operators of the model.                                 *)
(***************************************************************************)

\* Updating a function at one point, in its domain or not, keeps its type.
LEMMA UpdateType ==
  ASSUME NEW S, NEW T, NEW f \in [S -> T], NEW x, NEW v \in T
  PROVE  [f EXCEPT ![x] = v] \in [S -> T]
OBVIOUS

\* The columns of one row.
LEMMA RowTypes ==
  ASSUME TypeOK, NEW i \in Incidents
  PROVE  /\ status[i] \in Statuses
         /\ tier[i] \in 0..3
         /\ timer[i] \in Nat \cup {NoTimer}
         /\ lease[i] \in 0..Lease
BY DEF TypeOK

\* Running a clock down neither arms a timer nor clears one, and never leaves
\* the range of ticks left.
LEMMA RunDownFacts ==
  /\ \A n \in Nat \cup {NoTimer} :
       /\ RunDown(n) \in Nat \cup {NoTimer}
       /\ RunDown(n) = NoTimer <=> n = NoTimer
       /\ n = 0 => RunDown(n) = 0
  /\ \A k \in Nat : \A n \in 0..k : RunDown(n) \in 0..k
BY DEF RunDown, NoTimer

\* A status with a transition has one target, one rung up.
LEMMA TransitionFacts ==
  \A s \in Active :
    /\ TransitionTable[s].at \in 0..2
    /\ TransitionTable[s].to \in Statuses
    /\ TransitionTable[s].event \in EventTypes
    /\ Ladder!RungOf[s] = TransitionTable[s].at
    /\ TransitionTable[s].to = Ladder!RungAbove[s]
    /\ Ladder!RungOf[TransitionTable[s].to] = TransitionTable[s].at + 1
    /\ TransitionTable[s].to \in Active => TransitionTable[s].at \in 0..1
    /\ TransitionTable[s].to \notin Active => TransitionTable[s].at = 2
    /\ TransitionTable[s].to # "NOT_CREATED"
BY DEF Active, Statuses, TransitionTable, EventTypes, Ladder!Active, Ladder!Statuses,
       Ladder!Closed, Ladder!RungOf, Ladder!RungAbove

\* The timer a tier sets is a number of ticks or none at all.
LEMMA TimersForType ==
  ASSUME NEW t \in Nat
  PROVE  /\ TimersFor(t) \subseteq Nat \cup {NoTimer}
         /\ \A nfa \in TimersFor(t) : nfa = NoTimer <=> TimersFor(t) = {NoTimer}
<1>1. FetchTierConfig(t) \subseteq TierRows
  BY DEF FetchTierConfig
<1>2. \A c \in FetchTierConfig(t) : c.delay \in Nat
  BY <1>1, EscalationAssumption
<1> QED
  BY <1>2 DEF TimersFor, NoTimer

\* Only a missing configuration row makes a tier below the top set no timer.
LEMMA TimersWithConfig ==
  ASSUME NEW t \in 1..2, TimersFor(t) = {NoTimer}
  PROVE  FetchTierConfig(t) = {}
<1> SUFFICES ASSUME NEW c \in FetchTierConfig(t) PROVE FALSE
  OBVIOUS
<1>1. c.delay \in Nat
  BY EscalationAssumption DEF FetchTierConfig
<1>2. c.delay \in TimersFor(t)
  BY DEF TimersFor
<1> QED
  BY <1>1, <1>2 DEF NoTimer

\* What the loop does on the way to its next row.
LEMMA ReturnType ==
  ASSUME TypeOK, NEW w \in Workers, NEW rest \in SUBSET Incidents, Return(w, rest)
  PROVE  /\ pc' \in [Workers -> {"idle", "visit", "txn", "release"}]
         /\ batch' \in [Workers -> SUBSET Incidents]
         /\ row' \in [Workers -> Incidents \cup {NoRow}]
         /\ newTimer' \in [Workers -> Nat \cup {NoTimer}]
BY DEF Return, TypeOK

\* An entry appended to one incident's trail leaves a typed log.
LEMMA LogAppend ==
  ASSUME TypeOK, NEW i, NEW e \in Entries, log' = [log EXCEPT ![i] = Append(@, e)]
  PROVE  log' \in [Incidents -> Seq(Entries)]
<1> SUFFICES ASSUME NEW j \in Incidents PROVE log'[j] \in Seq(Entries)
  BY DEF TypeOK
<1>1. log[j] \in Seq(Entries)
  BY DEF TypeOK
<1>2. log'[j] = IF j = i THEN Append(log[j], e) ELSE log[j]
  BY DEF TypeOK
<1> QED
  BY <1>1, <1>2

-----------------------------------------------------------------------------
(***************************************************************************)
(* Type correctness.                                                       *)
(***************************************************************************)

\* The first state is typed.
LEMMA TypeInit == Init => TypeOK
BY EscalationAssumption DEF Init, TypeOK, Idle, RequestStates, Statuses, Ladder!Statuses

\* Every step of every actor keeps the types.
LEMMA TypeStep == TypeOK /\ [Next]_vars => TypeOK'
<1> SUFFICES ASSUME TypeOK, [Next]_vars PROVE TypeOK'
  OBVIOUS
<1> USE EscalationAssumption
<1>1. ASSUME NEW i \in Incidents, CreateIncident(i) PROVE TypeOK'
  <2>1. Entry("CREATED", "NOT_CREATED", "AWAITING_OPERATOR", 0) \in Entries
    BY DEF Entry, Entries, EventTypes, Statuses, Ladder!Statuses, Ladder!Active
  <2>2. log' \in [Incidents -> Seq(Entries)]
    BY <1>1, <2>1, LogAppend DEF CreateIncident
  <2>3. "AWAITING_OPERATOR" \in Statuses
    BY DEF Statuses, Ladder!Statuses, Ladder!Active
  <2>4. outbox' \in [Incidents -> SUBSET (0..3)]
    BY <1>1 DEF CreateIncident, TypeOK, PageOf
  <2>5. status' \in [Incidents -> Statuses]
    BY <1>1, <2>3, UpdateType DEF CreateIncident, TypeOK
  <2>6. timer' \in [Incidents -> Nat \cup {NoTimer}]
    BY <1>1, Grace \in Nat \cup {NoTimer}, UpdateType DEF CreateIncident, TypeOK
  <2>7. UNCHANGED <<tier, lease, fired, pc, batch, row, newTimer, request, faults>>
    BY <1>1 DEF CreateIncident, workerVars
  <2> QED
    BY <2>2, <2>4, <2>5, <2>6, <2>7 DEF TypeOK
<1>2. ASSUME NEW w \in Workers, Claim(w) PROVE TypeOK'
  BY <1>2 DEF Claim, TypeOK
<1>3. ASSUME NEW w \in Workers, NEW i \in Incidents, OpenTransition(w, i) PROVE TypeOK'
  <2>1. tier[i] + 1 \in Nat
    BY RowTypes
  <2>2. PICK nfa \in TimersFor(tier[i] + 1) : newTimer' = [newTimer EXCEPT ![w] = nfa]
    BY <1>3 DEF OpenTransition
  <2>3. nfa \in Nat \cup {NoTimer}
    BY <2>1, TimersForType
  <2> QED
    BY <1>3, <2>2, <2>3 DEF OpenTransition, TypeOK, tables
<1>4. ASSUME NEW w \in Workers, NEW i \in Incidents, SkipRow(w, i) PROVE TypeOK'
  <2>1. batch[w] \ {i} \in SUBSET Incidents
    BY DEF TypeOK
  <2> QED
    BY <1>4, <2>1, ReturnType DEF SkipRow, TypeOK, tables
<1>5. ASSUME NEW w \in Workers, CommitTransition(w) PROVE TypeOK'
  <2> DEFINE i == row[w]
             t == tier[i] + 1
  <2>1. batch[w] \ {i} \in SUBSET Incidents
    BY DEF TypeOK
  <2>2. UNCHANGED <<request, faults>> /\ Return(w, batch[w] \ {i})
    BY <1>5 DEF CommitTransition
  <2>3. CASE UNCHANGED tables
    BY <2>1, <2>2, <2>3, ReturnType DEF TypeOK, tables
  <2>4. ASSUME HasTransition(i), NEW page \in SUBSET PageOf(t),
               Advance(i, newTimer[w], page)
        PROVE  TypeOK'
    <3> DEFINE s == status[i]
    <3>1. s \in Active /\ TransitionTable[s].at = tier[i]
      BY <2>4 DEF HasTransition
    <3>2. s \in Statuses
      BY <3>1 DEF Active, Statuses, Ladder!Statuses
    <3>3. /\ TransitionTable[s].to \in Statuses
          /\ TransitionTable[s].at + 1 \in 1..3
          /\ Entry(TransitionTable[s].event, s, TransitionTable[s].to, TransitionTable[s].at + 1)
               \in Entries
      BY <3>1, <3>2, TransitionFacts DEF Entry, Entries
    <3>4. page \in SUBSET (0..3)
      BY <2>4 DEF PageOf
    <3>5. /\ status' = [status EXCEPT ![i] = TransitionTable[s].to]
          /\ tier' = [tier EXCEPT ![i] = TransitionTable[s].at + 1]
          /\ timer' = [timer EXCEPT ![i] = newTimer[w]]
          /\ lease' = [lease EXCEPT ![i] = 0]
          /\ fired' = [fired EXCEPT ![i] = @ \cup {TransitionTable[s].at + 1}]
          /\ outbox' = [outbox EXCEPT ![i] = @ \cup page]
          /\ log' = [log EXCEPT ![i] = Append(@, Entry(TransitionTable[s].event, s,
                       TransitionTable[s].to, TransitionTable[s].at + 1))]
      BY <2>4 DEF Advance
    <3> HIDE DEF s, i, t
    <3>6. log' \in [Incidents -> Seq(Entries)]
      BY <3>3, <3>5, LogAppend
    <3>7. /\ status' \in [Incidents -> Statuses]
          /\ tier' \in [Incidents -> 0..3]
      <4>1. TransitionTable[s].at + 1 \in 0..3
        BY <3>3
      <4> QED
        BY <3>3, <3>5, <4>1, UpdateType DEF TypeOK
    <3>10. /\ timer' \in [Incidents -> Nat \cup {NoTimer}]
           /\ lease' \in [Incidents -> 0..Lease]
      <4>1. newTimer[w] \in Nat \cup {NoTimer} /\ 0 \in 0..Lease
        BY DEF TypeOK
      <4> QED
        BY <3>5, <4>1, UpdateType DEF TypeOK
    <3>8. fired' \in [Incidents -> SUBSET (1..3)]
      BY <3>3, <3>5 DEF TypeOK
    <3>9. outbox' \in [Incidents -> SUBSET (0..3)]
      BY <3>4, <3>5 DEF TypeOK
    <3> QED
      BY <2>1, <2>2, <3>6, <3>7, <3>8, <3>9, <3>10, ReturnType DEF TypeOK
  <2> QED
    BY <1>5, <2>3, <2>4 DEF CommitTransition
<1>6. ASSUME NEW w \in Workers, NEW i \in Incidents, VisitFails(w, i) PROVE TypeOK'
  BY <1>6 DEF VisitFails, TypeOK, tables
<1>7. ASSUME NEW w \in Workers, ReleaseClaim(w) PROVE TypeOK'
  <2>1. batch[w] \ {row[w]} \in SUBSET Incidents
    BY DEF TypeOK
  <2>2. lease' \in [Incidents -> 0..Lease]
    BY <1>7, 0 \in 0..Lease, UpdateType DEF ReleaseClaim, TypeOK
  <2> QED
    BY <1>7, <2>1, <2>2, ReturnType DEF ReleaseClaim, TypeOK
<1>8. ASSUME NEW w \in Workers, ReleaseFails(w) PROVE TypeOK'
  <2>1. batch[w] \ {row[w]} \in SUBSET Incidents
    BY DEF TypeOK
  <2> QED
    BY <1>8, <2>1, ReturnType DEF ReleaseFails, TypeOK, tables
<1>9. ASSUME NEW w \in Workers, Crash(w) PROVE TypeOK'
  BY <1>9, ReturnType DEF Crash, TypeOK, tables
<1>10. ASSUME NEW r \in Requests, NEW i \in Incidents, ReadForAck(r, i) \/ ReadForResolve(r, i)
       PROVE  TypeOK'
  <2> DEFINE seen(op) == [op |-> op, on |-> i, from |-> status[i], at |-> tier[i],
                          armed |-> timer[i] # NoTimer]
  <2>1. PICK op \in {"ACK", "RESOLVED"} :
          /\ request' = [request EXCEPT ![r] = seen(op)]
          /\ UNCHANGED <<tables, workerVars, faults>>
    BY <1>10 DEF ReadForAck, ReadForResolve, ReadForAction
  <2>2. seen(op) \in RequestStates
    BY DEF TypeOK, RequestStates
  <2> HIDE DEF seen
  <2> QED
    BY <2>1, <2>2 DEF TypeOK, tables, workerVars
<1>11. ASSUME NEW r \in Requests, WriteAck(r) \/ WriteResolve(r) PROVE TypeOK'
  <2> DEFINE q == request[r]
  <2>0. PICK op \in {"ACK", "RESOLVED"} : WriteAction(r, op)
    BY <1>11 DEF WriteAck, WriteResolve
  <2>1. Idle \in RequestStates
    BY DEF Idle, RequestStates, Statuses, Ladder!Statuses
  <2>2. op \in Statuses /\ Entry(op, q.from, op, q.at) \in Entries
    BY DEF TypeOK, RequestStates, Entry, Entries, EventTypes, Statuses, Ladder!Statuses,
           Ladder!Closed
  <2>3. /\ status' = [status EXCEPT ![q.on] = op]
        /\ timer' = [timer EXCEPT ![q.on] = IF q.armed THEN NoTimer ELSE @]
        /\ log' = [log EXCEPT ![q.on] = Append(@, Entry(op, q.from, op, q.at))]
        /\ request' = [request EXCEPT ![r] = Idle]
        /\ UNCHANGED <<tier, lease, fired, outbox, workerVars, faults>>
    BY <2>0 DEF WriteAction
  <2> HIDE DEF q
  <2>4. status' \in [Incidents -> Statuses]
    BY <2>2, <2>3 DEF TypeOK
  <2>5. timer' \in [Incidents -> Nat \cup {NoTimer}]
    BY <2>3 DEF TypeOK
  <2>6. log' \in [Incidents -> Seq(Entries)]
    BY <2>2, <2>3, LogAppend
  <2>7. request' \in [Requests -> RequestStates]
    BY <2>1, <2>3 DEF TypeOK
  <2> QED
    BY <2>3, <2>4, <2>5, <2>6, <2>7 DEF TypeOK, workerVars
<1>12. ASSUME NEW r \in Requests, RequestDies(r) PROVE TypeOK'
  <2>1. Idle \in RequestStates
    BY DEF Idle, RequestStates, Statuses, Ladder!Statuses
  <2> QED
    BY <1>12, <2>1 DEF RequestDies, TypeOK, tables, workerVars
<1>13. CASE Tick
  BY <1>13, RunDownFacts DEF Tick, TypeOK
<1>14. CASE UNCHANGED vars
  BY <1>14 DEF vars, tables, workerVars, TypeOK
<1> QED
  BY <1>1, <1>2, <1>3, <1>4, <1>5, <1>6, <1>7, <1>8, <1>9, <1>10, <1>11, <1>12, <1>13, <1>14
  DEF Next, Work, Fault, Ask

\* Every reachable state is typed.
THEOREM TypeCorrect == Spec => []TypeOK
BY TypeInit, TypeStep, PTL DEF Spec

-----------------------------------------------------------------------------
(***************************************************************************)
(* The inductive invariant.                                                *)
(***************************************************************************)

\* The first state satisfies it.
LEMMA IInvInit == Init => IInv
<1> SUFFICES ASSUME Init PROVE IInv
  OBVIOUS
<1>1. TypeOK
  BY TypeInit
<1>2. TiersAreAccountedFor
  BY DEF Init, TiersAreAccountedFor, Ladder!RungOf
<1>3. EndedIsQuiet /\ OpenTransactions
  BY DEF Init, EndedIsQuiet, OpenTransactions, Locked
<1>4. StrandedOnlyWithoutConfig
  BY DEF Init, StrandedOnlyWithoutConfig, Active, Ladder!Active
<1>5. RequestsRemember
  BY DEF Init, RequestsRemember, Idle
<1> QED
  BY <1>1, <1>2, <1>3, <1>4, <1>5 DEF IInv

\* At the top of the ladder there is no next timer, and an open transaction that
\* leads there has computed none.
LEMMA TopHasNoTimer ==
  ASSUME IInv, NEW w \in Workers, pc[w] = "txn", tier[row[w]] = 2
  PROVE  newTimer[w] = NoTimer
<1>1. TimersFor(3) = {NoTimer}
  BY DEF TimersFor
<1> QED
  BY <1>1 DEF IInv, OpenTransactions

\* The row under a worker's lock has a transition, and its tier has not fired.
LEMMA LockedRowFires ==
  ASSUME IInv, NEW w \in Workers, pc[w] = "txn"
  PROVE  /\ row[w] \in Incidents
         /\ HasTransition(row[w])
         /\ FirstFire(row[w], tier[row[w]] + 1)
<1> DEFINE i == row[w]
<1>1. i \in Incidents /\ status[i] \in Active
  BY DEF IInv, OpenTransactions, StillActive
<1>2. tier[i] = Ladder!RungOf[status[i]] /\ fired[i] = 1..tier[i]
  BY <1>1 DEF IInv, TiersAreAccountedFor, Active, Ladder!Active, Ladder!RungOf
<1>3. TransitionTable[status[i]].at = tier[i]
  BY <1>1, <1>2, TransitionFacts
<1>4. tier[i] + 1 \notin fired[i]
  BY <1>1, <1>2, RowTypes DEF IInv
<1> QED
  BY <1>1, <1>3, <1>4 DEF HasTransition, FirstFire

\* So its commit always advances it.
LEMMA CommitAdvances ==
  ASSUME IInv, NEW w \in Workers, CommitTransition(w)
  PROVE  /\ row[w] \in Incidents
         /\ \E page \in SUBSET PageOf(tier[row[w]] + 1) :
              Advance(row[w], newTimer[w], page)
         /\ Return(w, batch[w] \ {row[w]})
         /\ UNCHANGED <<request, faults>>
BY LockedRowFires DEF CommitTransition

\* A worker on its way to the next row holds no lock, and no other lock moved.
LEMMA ReturnUnlocks ==
  ASSUME TypeOK, NEW w \in Workers, NEW rest, Return(w, rest)
  PROVE  /\ pc'[w] # "txn"
         /\ \A v \in Workers \ {w} : pc'[v] = pc[v] /\ row'[v] = row[v] /\ newTimer'[v] = newTimer[v]
BY DEF Return, TypeOK

\* A step that leaves the rows alone keeps what relates rows to one another and
\* what requests remember of them.
LEMMA RowsUntouched ==
  ASSUME IInv, UNCHANGED <<status, tier, timer, fired>>
  PROVE  /\ TiersAreAccountedFor'
         /\ StrandedOnlyWithoutConfig'
         /\ (\A i \in Incidents : status[i] \notin Active => timer[i] = NoTimer)'
         /\ UNCHANGED request => RequestsRemember'
BY DEF IInv, TiersAreAccountedFor, StrandedOnlyWithoutConfig, EndedIsQuiet, RequestsRemember

\* If, besides, a worker only gave up what it had open, the whole invariant stays.
LEMMA WorkerReturns ==
  ASSUME IInv, TypeOK', NEW w \in Workers, UNCHANGED <<status, tier, timer, fired, request>>,
         pc'[w] # "txn",
         \A v \in Workers \ {w} : pc'[v] = pc[v] /\ row'[v] = row[v] /\ newTimer'[v] = newTimer[v]
  PROVE  IInv'
<1>1. OpenTransactions'
  BY DEF IInv, OpenTransactions, StillActive
<1>2. EndedIsQuiet'
  <2>1. \A i \in Incidents : Locked(i)' => Locked(i)
    BY DEF Locked
  <2> QED
    BY <2>1, RowsUntouched DEF IInv, EndedIsQuiet
<1> QED
  BY <1>1, <1>2, RowsUntouched DEF IInv

\* A new incident starts at the bottom, and no transaction or request knew of it.
LEMMA CreateKeepsIInv ==
  ASSUME IInv, TypeOK', NEW i \in Incidents, CreateIncident(i)
  PROVE  IInv'
<1> USE EscalationAssumption
<1>1. /\ status' = [status EXCEPT ![i] = "AWAITING_OPERATOR"]
      /\ timer' = [timer EXCEPT ![i] = Grace]
      /\ UNCHANGED <<tier, fired, pc, row, newTimer, request>>
      /\ status[i] = "NOT_CREATED"
  BY DEF CreateIncident, workerVars
<1>2. /\ \A j \in Incidents \ {i} : status'[j] = status[j] /\ timer'[j] = timer[j]
      /\ status'[i] = "AWAITING_OPERATOR"
      /\ timer'[i] = Grace /\ Grace # NoTimer
  BY <1>1 DEF IInv, TypeOK, NoTimer
<1>3. tier[i] = 0 /\ "AWAITING_OPERATOR" \in Active /\ "NOT_CREATED" \notin Active
      /\ Ladder!RungOf["AWAITING_OPERATOR"] = 0
  BY <1>1 DEF IInv, TiersAreAccountedFor, Active, Ladder!Active, Ladder!RungOf
<1>4. TiersAreAccountedFor'
  BY <1>1, <1>2, <1>3 DEF IInv, TiersAreAccountedFor
<1>5. EndedIsQuiet'
  <2>1. \A j \in Incidents : Locked(j)' <=> Locked(j)
    BY <1>1 DEF Locked
  <2> QED
    BY <1>2, <1>3, <2>1 DEF IInv, EndedIsQuiet
<1>6. StrandedOnlyWithoutConfig'
  BY <1>1, <1>2 DEF IInv, StrandedOnlyWithoutConfig
<1>7. OpenTransactions'
  <2>1. \A w \in Workers : pc[w] = "txn" => row[w] \in Incidents \ {i}
    BY <1>1, <1>3 DEF IInv, OpenTransactions, StillActive
  <2> QED
    BY <1>1, <1>2, <2>1 DEF IInv, OpenTransactions, StillActive
<1>8. RequestsRemember'
  BY <1>1, <1>2 DEF IInv, RequestsRemember
<1> QED
  BY <1>4, <1>5, <1>6, <1>7, <1>8 DEF IInv

\* A worker that opens a transaction found the row unlocked, active and timed.
LEMMA OpenKeepsIInv ==
  ASSUME IInv, TypeOK', NEW w \in Workers, NEW i \in Incidents, OpenTransition(w, i)
  PROVE  IInv'
<1>1. /\ UNCHANGED <<status, tier, timer, fired, request>>
      /\ ~Locked(i)
      /\ StillActive(i)
      /\ pc'[w] = "txn" /\ row'[w] = i /\ newTimer'[w] \in TimersFor(tier[i] + 1)
      /\ \A v \in Workers \ {w} : pc'[v] = pc[v] /\ row'[v] = row[v] /\ newTimer'[v] = newTimer[v]
  BY DEF OpenTransition, tables, IInv, TypeOK
<1>2. OpenTransactions'
  <2>1. newTimer'[w] = NoTimer <=> TimersFor(tier[i] + 1) = {NoTimer}
    BY <1>1, TimersForType, RowTypes DEF IInv
  <2> QED
    BY <1>1, <2>1 DEF IInv, OpenTransactions, StillActive, Locked
<1>3. EndedIsQuiet'
  <2>1. \A j \in Incidents : Locked(j)' => Locked(j) \/ j = i
    BY <1>1 DEF Locked
  <2>2. status[i] \in Active
    BY <1>1 DEF StillActive
  <2> QED
    BY <1>1, <2>1, <2>2 DEF IInv, EndedIsQuiet
<1> QED
  BY <1>1, <1>2, <1>3, RowsUntouched DEF IInv

\* A commit moves its row one rung up, under a lock that kept everybody else off
\* and with requests in flight that all saw a timer on it.
LEMMA CommitKeepsIInv ==
  ASSUME IInv, TypeOK', NEW w \in Workers, CommitTransition(w)
  PROVE  IInv'
<1> DEFINE i == row[w]
           s == status[i]
           t == tier[i] + 1
<1> USE EscalationAssumption
<1>1. pc[w] = "txn"
  BY DEF CommitTransition
<1>2. i \in Incidents /\ s \in Active /\ TransitionTable[s].at = tier[i] /\ tier[i] \in 0..2
  BY <1>1, LockedRowFires, TransitionFacts DEF HasTransition
<1>3. /\ status' = [status EXCEPT ![i] = TransitionTable[s].to]
      /\ tier' = [tier EXCEPT ![i] = t]
      /\ timer' = [timer EXCEPT ![i] = newTimer[w]]
      /\ fired' = [fired EXCEPT ![i] = @ \cup {t}]
      /\ UNCHANGED request
  BY ZenonT(30), <1>2, CommitAdvances DEF Advance
<1>4. /\ \A j \in Incidents \ {i} :
           /\ status'[j] = status[j] /\ tier'[j] = tier[j]
           /\ timer'[j] = timer[j] /\ fired'[j] = fired[j]
      /\ status'[i] = TransitionTable[s].to
      /\ tier'[i] = t
      /\ timer'[i] = newTimer[w]
      /\ fired'[i] = fired[i] \cup {t}
  BY <1>2, <1>3 DEF IInv, TypeOK
<1>5. /\ pc'[w] # "txn"
      /\ \A v \in Workers \ {w} : pc'[v] = pc[v] /\ row'[v] = row[v] /\ newTimer'[v] = newTimer[v]
  BY CommitAdvances, ReturnUnlocks DEF IInv
<1>6. newTimer[w] = NoTimer => TimersFor(t) = {NoTimer}
  BY <1>1 DEF IInv, OpenTransactions
<1>7. \A v \in Workers : pc'[v] = "txn" => v # w /\ pc[v] = "txn" /\ row[v] # i
  BY <1>1, <1>5 DEF IInv, OpenTransactions
<1>8. TransitionTable[s].to \notin Active => newTimer[w] = NoTimer
  <2> SUFFICES ASSUME TransitionTable[s].to \notin Active PROVE newTimer[w] = NoTimer
    OBVIOUS
  <2> QED
    BY <1>1, <1>2, TransitionFacts, TopHasNoTimer DEF IInv
<1>9. TiersAreAccountedFor'
  <2>1. fired'[i] = 1..tier'[i]
    BY <1>2, <1>4 DEF IInv, TiersAreAccountedFor
  <2>2. Ladder!RungOf[status'[i]] = tier'[i] /\ status'[i] # "NOT_CREATED"
    BY <1>2, <1>4, TransitionFacts
  <2> QED
    BY <1>4, <2>1, <2>2 DEF IInv, TiersAreAccountedFor
<1>10. EndedIsQuiet'
  <2>1. \A j \in Incidents : Locked(j)' => Locked(j) /\ j # i
    BY <1>5, <1>7 DEF Locked
  <2> QED
    BY <1>4, <1>8, <2>1 DEF IInv, EndedIsQuiet
<1>11. StrandedOnlyWithoutConfig'
  <2>1. ASSUME status'[i] \in Active, timer'[i] = NoTimer
        PROVE  tier'[i] > 0 /\ FetchTierConfig(tier'[i]) = {}
    <3>1. t \in 1..2
      BY <1>2, <1>4, <2>1, TransitionFacts
    <3> QED
      BY <1>4, <1>6, <2>1, <3>1, TimersWithConfig
  <2> QED
    BY <1>4, <2>1 DEF IInv, StrandedOnlyWithoutConfig
<1>12. OpenTransactions'
  BY <1>4, <1>5, <1>7 DEF IInv, OpenTransactions, StillActive
<1>13. RequestsRemember'
  <2>1. timer[i] # NoTimer
    BY <1>1 DEF IInv, OpenTransactions, StillActive
  <2>2. status'[i] # "NOT_CREATED"
    BY <1>2, <1>4, TransitionFacts
  <2> QED
    BY <1>3, <1>4, <2>1, <2>2 DEF IInv, RequestsRemember
<1> QED
  BY <1>9, <1>10, <1>11, <1>12, <1>13 DEF IInv

\* A new request remembers what is still so.
LEMMA ReadKeepsIInv ==
  ASSUME IInv, TypeOK', NEW r \in Requests, NEW i \in Incidents,
         ReadForAck(r, i) \/ ReadForResolve(r, i)
  PROVE  IInv'
<1>1. /\ UNCHANGED <<status, tier, timer, fired, pc, row, newTimer>>
      /\ status[i] \in Resolvable
      /\ \E op \in {"ACK", "RESOLVED"} : request' = [request EXCEPT ![r] =
           [op |-> op, on |-> i, from |-> status[i], at |-> tier[i], armed |-> timer[i] # NoTimer]]
  BY DEF ReadForAck, ReadForResolve, ReadForAction, tables, workerVars, Ackable, Resolvable
<1>2. status[i] # "NOT_CREATED"
  BY <1>1 DEF Resolvable, Active, Ladder!Active
<1>3. /\ request'[r].on = i
      /\ request'[r].armed = (timer[i] # NoTimer)
      /\ \A q \in Requests \ {r} : request'[q] = request[q]
  BY <1>1 DEF IInv, TypeOK
<1>4. RequestsRemember'
  BY <1>1, <1>2, <1>3 DEF IInv, RequestsRemember
<1>5. EndedIsQuiet' /\ OpenTransactions'
  BY <1>1 DEF IInv, EndedIsQuiet, OpenTransactions, StillActive, Locked
<1> QED
  BY <1>1, <1>4, <1>5, RowsUntouched DEF IInv

\* A request closes a row that no transaction has locked; whether it names
\* next_fire_at in its UPDATE or not, no timer is left.
LEMMA WriteKeepsIInv ==
  ASSUME IInv, TypeOK', NEW r \in Requests, NEW op \in {"ACK", "RESOLVED"}, WriteAction(r, op)
  PROVE  IInv'
<1> DEFINE q == request[r]
           i == q.on
<1>1. /\ q.op # "none"
      /\ ~Locked(i)
      /\ status' = [status EXCEPT ![i] = op]
      /\ timer' = [timer EXCEPT ![i] = IF q.armed THEN NoTimer ELSE @]
      /\ request' = [request EXCEPT ![r] = Idle]
      /\ UNCHANGED <<tier, fired, pc, row, newTimer>>
  BY DEF WriteAction, workerVars
<1>2. /\ i \in Incidents
      /\ status[i] # "NOT_CREATED"
      /\ q.armed \/ timer[i] = NoTimer
  BY <1>1 DEF IInv, RequestsRemember
<1>3. /\ \A j \in Incidents \ {i} : status'[j] = status[j] /\ timer'[j] = timer[j]
      /\ status'[i] = op
      /\ timer'[i] = NoTimer
  BY <1>1, <1>2 DEF IInv, TypeOK
<1>4. op \notin Active /\ op # "NOT_CREATED" /\ op \notin DOMAIN Ladder!RungOf
  BY DEF Active, Ladder!Active, Ladder!RungOf
<1>5. TiersAreAccountedFor'
  BY <1>1, <1>3, <1>4 DEF IInv, TiersAreAccountedFor
<1>6. EndedIsQuiet'
  <2>1. \A j \in Incidents : Locked(j)' <=> Locked(j)
    BY <1>1 DEF Locked
  <2> QED
    BY <1>1, <1>3, <2>1 DEF IInv, EndedIsQuiet
<1>7. StrandedOnlyWithoutConfig'
  BY <1>1, <1>3, <1>4 DEF IInv, StrandedOnlyWithoutConfig
<1>8. OpenTransactions'
  <2>1. \A w \in Workers : pc[w] = "txn" => row[w] \in Incidents \ {i}
    BY <1>1 DEF IInv, OpenTransactions, Locked
  <2> QED
    BY <1>1, <1>3, <2>1 DEF IInv, OpenTransactions, StillActive
<1>9. RequestsRemember'
  <2>1. /\ request'[r] = Idle
        /\ \A p \in Requests \ {r} : request'[p] = request[p]
    BY <1>1 DEF IInv, TypeOK
  <2> QED
    BY <1>3, <1>4, <2>1 DEF IInv, RequestsRemember, Idle
<1> QED
  BY <1>5, <1>6, <1>7, <1>8, <1>9 DEF IInv

\* Time arms nothing and clears nothing.
LEMMA TickKeepsIInv ==
  ASSUME IInv, TypeOK', Tick
  PROVE  IInv'
<1>1. UNCHANGED <<status, tier, fired, pc, row, request>>
  BY DEF Tick
<1>2. \A i \in Incidents : timer'[i] = NoTimer <=> timer[i] = NoTimer
  BY RunDownFacts DEF Tick, IInv, TypeOK
<1>3. \A w \in Workers : newTimer'[w] = NoTimer <=> newTimer[w] = NoTimer
  BY RunDownFacts DEF Tick, IInv, TypeOK
<1>4. TiersAreAccountedFor' /\ StrandedOnlyWithoutConfig'
  BY <1>1, <1>2 DEF IInv, TiersAreAccountedFor, StrandedOnlyWithoutConfig
<1>5. EndedIsQuiet'
  BY <1>1, <1>2 DEF IInv, EndedIsQuiet, Locked
<1>6. OpenTransactions'
  BY <1>1, <1>2, <1>3 DEF IInv, OpenTransactions, StillActive
<1>7. RequestsRemember'
  BY <1>1, <1>2 DEF IInv, RequestsRemember
<1> QED
  BY <1>4, <1>5, <1>6, <1>7 DEF IInv

\* Every step keeps the invariant.
LEMMA IInvStep == IInv /\ [Next]_vars => IInv'
<1> SUFFICES ASSUME IInv, [Next]_vars PROVE IInv'
  OBVIOUS
<1>0. TypeOK'
  BY TypeStep DEF IInv
<1>1. ASSUME NEW i \in Incidents, CreateIncident(i) PROVE IInv'
  BY <1>0, <1>1, CreateKeepsIInv
<1>2. ASSUME NEW w \in Workers, Claim(w) PROVE IInv'
  <2>1. /\ UNCHANGED <<status, tier, timer, fired, request, row, newTimer>>
        /\ pc'[w] = "visit"
        /\ \A v \in Workers \ {w} : pc'[v] = pc[v]
    BY <1>2 DEF Claim, IInv, TypeOK
  <2> QED
    BY <1>0, <2>1, WorkerReturns
<1>3. ASSUME NEW w \in Workers, NEW i \in Incidents, OpenTransition(w, i) PROVE IInv'
  BY <1>0, <1>3, OpenKeepsIInv
<1>4. ASSUME NEW w \in Workers, NEW i \in Incidents, SkipRow(w, i) PROVE IInv'
  BY <1>0, <1>4, ReturnUnlocks, WorkerReturns DEF SkipRow, tables, IInv
<1>5. ASSUME NEW w \in Workers, CommitTransition(w) PROVE IInv'
  BY <1>0, <1>5, CommitKeepsIInv
<1>6. ASSUME NEW w \in Workers, NEW i \in Incidents, VisitFails(w, i) PROVE IInv'
  <2>1. /\ UNCHANGED <<status, tier, timer, fired, request>>
        /\ pc'[w] = "release"
        /\ \A v \in Workers \ {w} : pc'[v] = pc[v] /\ row'[v] = row[v] /\ newTimer'[v] = newTimer[v]
    BY <1>6 DEF VisitFails, tables, IInv, TypeOK
  <2> QED
    BY <1>0, <2>1, WorkerReturns
<1>7. ASSUME NEW w \in Workers, ReleaseClaim(w) PROVE IInv'
  BY <1>0, <1>7, ReturnUnlocks, WorkerReturns DEF ReleaseClaim, IInv
<1>8. ASSUME NEW w \in Workers, ReleaseFails(w) PROVE IInv'
  BY <1>0, <1>8, ReturnUnlocks, WorkerReturns DEF ReleaseFails, tables, IInv
<1>9. ASSUME NEW w \in Workers, Crash(w) PROVE IInv'
  BY <1>0, <1>9, ReturnUnlocks, WorkerReturns DEF Crash, tables, IInv
<1>10. ASSUME NEW r \in Requests, NEW i \in Incidents, ReadForAck(r, i) \/ ReadForResolve(r, i)
       PROVE  IInv'
  BY <1>0, <1>10, ReadKeepsIInv
<1>11. ASSUME NEW r \in Requests, WriteAck(r) \/ WriteResolve(r) PROVE IInv'
  BY <1>0, <1>11, WriteKeepsIInv DEF WriteAck, WriteResolve
<1>12. ASSUME NEW r \in Requests, RequestDies(r) PROVE IInv'
  <2>1. /\ UNCHANGED <<status, tier, timer, fired, pc, row, newTimer>>
        /\ request'[r] = Idle
        /\ \A q \in Requests \ {r} : request'[q] = request[q]
    BY <1>12 DEF RequestDies, tables, workerVars, IInv, TypeOK
  <2>2. RequestsRemember'
    BY <2>1 DEF IInv, RequestsRemember, Idle
  <2>3. EndedIsQuiet' /\ OpenTransactions'
    BY <2>1 DEF IInv, EndedIsQuiet, OpenTransactions, StillActive, Locked
  <2> QED
    BY <1>0, <2>1, <2>2, <2>3, RowsUntouched DEF IInv
<1>13. CASE Tick
  BY <1>0, <1>13, TickKeepsIInv
<1>14. CASE UNCHANGED vars
  <2>1. EndedIsQuiet' /\ OpenTransactions' /\ RequestsRemember'
    BY <1>14 DEF vars, tables, workerVars, IInv, EndedIsQuiet, OpenTransactions, StillActive,
                 Locked, RequestsRemember
  <2> QED
    BY <1>0, <1>14, <2>1, RowsUntouched DEF vars, tables, IInv
<1> QED
  BY <1>1, <1>2, <1>3, <1>4, <1>5, <1>6, <1>7, <1>8, <1>9, <1>10, <1>11, <1>12, <1>13, <1>14
  DEF Next, Work, Fault, Ask

\* The inductive invariant holds in every reachable state.
THEOREM InductiveInvariant == Spec => []IInv
BY IInvInit, IInvStep, PTL DEF Spec

-----------------------------------------------------------------------------
(***************************************************************************)
(* What follows from it.                                                   *)
(***************************************************************************)

\* The row, the idempotency table and the ladder always agree: whatever workers
\* raced, stalled or died, tiers 1..current_tier have fired, each once, and no other.
THEOREM TierAccounting == Spec => []TiersAreAccountedFor
<1>1. IInv => TiersAreAccountedFor
  BY DEF IInv
<1> QED
  BY <1>1, InductiveInvariant, PTL

\* A closed or abandoned incident never has a timer or a transaction that would
\* page somebody about it.
THEOREM EndedIncidentsAreQuiet == Spec => []EndedIsQuiet
<1>1. IInv => EndedIsQuiet
  BY DEF IInv
<1> QED
  BY <1>1, InductiveInvariant, PTL

\* The ladder stops under an active incident only where configuration is missing.
THEOREM NoSilentStranding == Spec => []StrandedOnlyWithoutConfig
<1>1. IInv => StrandedOnlyWithoutConfig
  BY DEF IInv
<1> QED
  BY <1>1, InductiveInvariant, PTL

\* FOR UPDATE serialises transitions, and a locked row always has one to fire that
\* has not fired: the idempotency guard is never what prevents a second fire.
THEOREM IdempotencyGuardIsIdle == Spec => []LockedRowsCanFire
<1>1. IInv => LockedRowsCanFire
  BY LockedRowFires DEF IInv, OpenTransactions, LockedRowsCanFire
<1> QED
  BY <1>1, InductiveInvariant, PTL

\* A step of the engine is a step of the ladder or none.
LEMMA StepRefines == IInv /\ [Next]_vars => [Ladder!LadderNext]_(Ladder!ladderVars)
<1> SUFFICES ASSUME IInv, [Next]_vars PROVE [Ladder!LadderNext]_(Ladder!ladderVars)
  OBVIOUS
<1> USE DEF Ladder!ladderVars
<1>1. ASSUME NEW i \in Incidents, CreateIncident(i) PROVE Ladder!LadderNext
  <2>1. SUBSET PageOf(0) \subseteq SUBSET {0}
    BY DEF PageOf
  <2>2. Ladder!Enter(i)
    BY <1>1, <2>1 DEF CreateIncident, Ladder!Enter
  <2> QED
    BY <2>2 DEF Ladder!LadderNext
<1>2. ASSUME NEW w \in Workers, CommitTransition(w) PROVE Ladder!LadderNext
  <2> DEFINE i == row[w]
             t == tier[i] + 1
  <2>1. i \in Incidents /\ status[i] \in Active /\ TransitionTable[status[i]].at = tier[i]
    BY <1>2, LockedRowFires DEF CommitTransition, HasTransition
  <2>2. PICK page \in SUBSET PageOf(t) : Advance(i, newTimer[w], page)
    BY <1>2, CommitAdvances
  <2>3. /\ TransitionTable[status[i]].to = Ladder!RungAbove[status[i]]
        /\ Ladder!RungOf[Ladder!RungAbove[status[i]]] = t
    BY <2>1, TransitionFacts
  <2>4. page \in SUBSET {t}
    BY <2>2 DEF PageOf
  <2>5. Ladder!Climb(i)
    BY <2>1, <2>2, <2>3, <2>4 DEF Advance, Ladder!Climb, Active
  <2> QED
    BY <2>1, <2>5 DEF Ladder!LadderNext
<1>3. ASSUME NEW r \in Requests, WriteAck(r) \/ WriteResolve(r) PROVE Ladder!LadderNext
  <2>1. PICK op \in {"ACK", "RESOLVED"} : WriteAction(r, op)
    BY <1>3 DEF WriteAck, WriteResolve
  <2> DEFINE i == request[r].on
  <2>2. i \in Incidents /\ status[i] # "NOT_CREATED"
    BY <2>1 DEF WriteAction, IInv, RequestsRemember
  <2>3. Ladder!Close(i)
    BY <2>1, <2>2 DEF WriteAction, Ladder!Close, Ladder!Closed
  <2> QED
    BY <2>2, <2>3 DEF Ladder!LadderNext
<1>4. CASE UNCHANGED <<status, outbox>>
  BY <1>4
<1>5. ASSUME NEW w \in Workers, NEW i \in Incidents,
             Claim(w) \/ OpenTransition(w, i) \/ SkipRow(w, i) \/ VisitFails(w, i)
      PROVE  UNCHANGED <<status, outbox>>
  BY <1>5 DEF Claim, OpenTransition, SkipRow, VisitFails, tables
<1>6. ASSUME NEW w \in Workers, Claim(w) \/ ReleaseClaim(w) \/ ReleaseFails(w) \/ Crash(w)
      PROVE  UNCHANGED <<status, outbox>>
  BY <1>6 DEF Claim, ReleaseClaim, ReleaseFails, Crash, tables
<1>7. ASSUME NEW r \in Requests, NEW i \in Incidents, ReadForAck(r, i) \/ ReadForResolve(r, i)
      PROVE  UNCHANGED <<status, outbox>>
  BY <1>7 DEF ReadForAck, ReadForResolve, ReadForAction, tables
<1>8. ASSUME NEW r \in Requests, RequestDies(r) PROVE UNCHANGED <<status, outbox>>
  BY <1>8 DEF RequestDies, tables
<1>9. Tick \/ UNCHANGED vars => UNCHANGED <<status, outbox>>
  BY DEF Tick, vars, tables
<1> QED
  BY <1>1, <1>2, <1>3, <1>4, <1>5, <1>6, <1>7, <1>8, <1>9 DEF Next, Work, Fault, Ask

\* The engine implements the ladder: one rung at a time, at most the page of the
\* rung reached, and no way back once an incident is closed or abandoned.
THEOREM RefinesLadder == Spec => ImplementsLadderSafety
<1>1. Init => Ladder!LadderInit
  BY DEF Init, Ladder!LadderInit
<1> QED
  BY <1>1, StepRefines, InductiveInvariant, PTL
  DEF Spec, ImplementsLadderSafety, Ladder!LadderSafety

-----------------------------------------------------------------------------
(***************************************************************************)
(* The audit trail.                                                        *)
(***************************************************************************)

\* Appending an entry adds its position to those that record its tier, if any.
LEMMA FiredAtAppend ==
  ASSUME NEW trail \in Seq(Entries), NEW e \in Entries, NEW t \in 1..3
  PROVE  /\ FiredAt(trail, t) \subseteq 1..Len(trail)
         /\ e.type # TierEvent[t] => FiredAt(Append(trail, e), t) = FiredAt(trail, t)
         /\ e.type = TierEvent[t] =>
              FiredAt(Append(trail, e), t) = FiredAt(trail, t) \cup {Len(trail) + 1}
<1> DEFINE more == Append(trail, e)
<1>1. /\ Len(trail) \in Nat
      /\ Len(more) = Len(trail) + 1
      /\ more[Len(trail) + 1] = e
      /\ \A n \in 1..Len(trail) : more[n] = trail[n]
  OBVIOUS
<1> HIDE DEF more
<1>2. \A n \in 1..Len(more) : n \in 1..Len(trail) \/ n = Len(trail) + 1
  BY <1>1
<1>3. /\ \A n \in 1..Len(trail) : n \in 1..Len(more)
      /\ Len(trail) + 1 \in 1..Len(more)
  BY <1>1
<1> QED
  BY <1>1, <1>2, <1>3 DEF FiredAt, more

\* What Append does at the end of a trail.
LEMMA LastEntry ==
  ASSUME NEW trail \in Seq(Entries), NEW e \in Entries
  PROVE  Append(trail, e)[Len(Append(trail, e))] = e
OBVIOUS

\* An entry that records no tier.
LEMMA OtherEntry ==
  ASSUME NEW trail \in Seq(Entries), NEW e \in Entries, NEW s, NEW k \in 0..3,
         e.type \in {"CREATED", "ACK", "RESOLVED"}, TellsClimb(trail, s, k)
  PROVE  TellsClimb(Append(trail, e), e.to, k)
<1>1. \A t \in 1..3 : TierEvent[t] \notin {"CREATED", "ACK", "RESOLVED"}
  BY DEF TierEvent
<1>2. \A t \in 1..3 : FiredAt(Append(trail, e), t) = FiredAt(trail, t)
  BY <1>1, FiredAtAppend
<1> QED
  BY <1>2, LastEntry DEF TellsClimb

\* The entry of the next tier.
LEMMA NextTierEntry ==
  ASSUME NEW trail \in Seq(Entries), NEW e \in Entries, NEW s, NEW k \in 0..2,
         e.type = TierEvent[k + 1], TellsClimb(trail, s, k)
  PROVE  TellsClimb(Append(trail, e), e.to, k + 1)
<1> DEFINE more == Append(trail, e)
           last == Len(trail) + 1
<1>1. \A t \in 1..3 : t # k + 1 => TierEvent[t] # TierEvent[k + 1]
  BY DEF TierEvent
<1>2. k + 1 \in 1..3 /\ Len(trail) \in Nat
  OBVIOUS
<1>3. FiredAt(trail, k + 1) = {}
  BY <1>2 DEF TellsClimb
<1>4. FiredAt(more, k + 1) = {last}
  BY <1>2, <1>3, FiredAtAppend
<1>5. ASSUME NEW t \in 1..3, t # k + 1 PROVE FiredAt(more, t) = FiredAt(trail, t)
  BY <1>1, <1>5, FiredAtAppend
<1>6. ASSUME NEW t \in 1..3, NEW m \in FiredAt(trail, t) PROVE m \in Nat /\ m < last
  BY <1>2, FiredAtAppend
<1>7. ASSUME NEW t \in 1..3, t > k PROVE FiredAt(trail, t) = {}
  BY <1>7 DEF TellsClimb
<1> HIDE DEF more, last
<1>8. \A t \in 1..3 : FiredAt(more, t) # {} <=> t <= k + 1
  <2> SUFFICES ASSUME NEW t \in 1..3 PROVE FiredAt(more, t) # {} <=> t <= k + 1
    OBVIOUS
  <2>1. CASE t = k + 1
    <3>1. FiredAt(more, t) # {}
      BY <1>4, <2>1
    <3>2. t <= k + 1
      BY <2>1
    <3> QED
      BY <3>1, <3>2
  <2>2. CASE t # k + 1
    <3>1. FiredAt(more, t) # {} <=> t <= k
      BY <1>5, <2>2 DEF TellsClimb
    <3> QED
      BY <2>2, <3>1
  <2> QED
    BY <2>1, <2>2
<1>9. \A t \in 1..3 : \A m, n \in FiredAt(more, t) : m = n
  BY <1>4, <1>5 DEF TellsClimb
<1>10. ASSUME NEW t \in 1..3, NEW u \in 1..3, NEW m \in FiredAt(more, t), NEW n \in FiredAt(more, u), t < u
       PROVE  m < n
  <2>1. CASE u = k + 1
    <3>1. t # k + 1
      BY <1>10, <2>1
    <3> QED
      BY <1>4, <1>5, <1>6, <2>1, <3>1
  <2>2. CASE u # k + 1 /\ t = k + 1
    <3>1. FiredAt(more, u) = {}
      BY <1>5, <1>7, <1>10, <2>2
    <3> QED
      BY <3>1
  <2>3. CASE u # k + 1 /\ t # k + 1
    BY <1>5, <1>10, <2>3 DEF TellsClimb
  <2> QED
    BY <2>1, <2>2, <2>3
<1>11. more[Len(more)].to = e.to
  BY LastEntry DEF more
<1> QED
  BY <1>8, <1>9, <1>10, <1>11 DEF TellsClimb, more

\* Steps that do not write to incident_events.
LEMMA TrailUntouched ==
  ASSUME AuditTellsTheClimb, UNCHANGED <<status, tier, log>>
  PROVE  AuditTellsTheClimb'
BY DEF AuditTellsTheClimb

\* What one more entry for incident i does to the trails of all incidents.
LEMMA TrailAppended ==
  ASSUME TypeOK, AuditTellsTheClimb, NEW i \in Incidents, NEW e \in Entries, NEW k \in 0..3,
         log' = [log EXCEPT ![i] = Append(@, e)],
         status' = [status EXCEPT ![i] = e.to],
         tier' = [tier EXCEPT ![i] = k],
         TellsClimb(Append(log[i], e), e.to, k)
  PROVE  AuditTellsTheClimb'
<1>1. /\ log \in [Incidents -> Seq(Entries)]
      /\ status \in [Incidents -> Statuses]
      /\ tier \in [Incidents -> 0..3]
  BY DEF TypeOK
<1>2. log'[i] = Append(log[i], e) /\ status'[i] = e.to /\ tier'[i] = k
  BY <1>1
<1>3. \A j \in Incidents \ {i} : log'[j] = log[j] /\ status'[j] = status[j] /\ tier'[j] = tier[j]
  BY <1>1
<1>4. \A j \in Incidents : TellsClimb(log'[j], status'[j], tier'[j])
  BY <1>2, <1>3 DEF AuditTellsTheClimb
<1> QED
  BY <1>4 DEF AuditTellsTheClimb

\* An entry that records no tier, for a row that keeps its tier.
LEMMA OtherEntryKeepsTrail ==
  ASSUME TypeOK, AuditTellsTheClimb, NEW i \in Incidents, NEW e \in Entries,
         e.type \in {"CREATED", "ACK", "RESOLVED"},
         log' = [log EXCEPT ![i] = Append(@, e)],
         status' = [status EXCEPT ![i] = e.to],
         UNCHANGED tier
  PROVE  AuditTellsTheClimb'
<1>1. log[i] \in Seq(Entries) /\ tier[i] \in 0..3 /\ tier' = [tier EXCEPT ![i] = tier[i]]
  BY DEF TypeOK
<1>2. TellsClimb(Append(log[i], e), e.to, tier[i])
  BY <1>1, OtherEntry DEF AuditTellsTheClimb
<1> QED
  BY <1>1, <1>2, TrailAppended

\* The entry of a commit is the first of its tier and comes after all others.
LEMMA CommitKeepsTrail ==
  ASSUME IInv, AuditTellsTheClimb, NEW w \in Workers, CommitTransition(w)
  PROVE  AuditTellsTheClimb'
<1> DEFINE i == row[w]
           s == status[i]
           k == tier[i]
           e == Entry(TransitionTable[s].event, s, TransitionTable[s].to, k + 1)
<1>1. /\ i \in Incidents /\ s \in Active
      /\ TransitionTable[s].at = k /\ k \in 0..2
  BY LockedRowFires, TransitionFacts DEF HasTransition, CommitTransition
<1>2. PICK page : Advance(i, newTimer[w], page)
  BY CommitAdvances
<1>3. /\ status' = [status EXCEPT ![i] = TransitionTable[s].to]
      /\ tier' = [tier EXCEPT ![i] = k + 1]
      /\ log' = [log EXCEPT ![i] = Append(@, e)]
  BY <1>1, <1>2 DEF Advance
<1>4. e \in Entries /\ e.to = TransitionTable[s].to /\ e.type = TierEvent[k + 1]
  <2>1. TransitionTable[s].event = TierEvent[TransitionTable[s].at + 1]
    BY <1>1 DEF TransitionTable, TierEvent, Active, Ladder!Active
  <2> QED
    BY <1>1, <2>1, TransitionFacts, RowTypes DEF Entry, Entries, IInv
<1>5. log[i] \in Seq(Entries) /\ TypeOK
  BY <1>1 DEF IInv, TypeOK
<1> HIDE DEF e
<1>6. TellsClimb(Append(log[i], e), e.to, k + 1)
  BY <1>1, <1>4, <1>5, NextTierEntry DEF AuditTellsTheClimb
<1>7. k + 1 \in 0..3
  BY <1>1
<1> QED
  BY <1>1, <1>3, <1>4, <1>5, <1>6, <1>7, TrailAppended

\* Every step keeps the audit trail truthful.
LEMMA TrailStep == IInv /\ AuditTellsTheClimb /\ [Next]_vars => AuditTellsTheClimb'
<1> SUFFICES ASSUME IInv, AuditTellsTheClimb, [Next]_vars PROVE AuditTellsTheClimb'
  OBVIOUS
<1>1. ASSUME NEW i \in Incidents, CreateIncident(i) PROVE AuditTellsTheClimb'
  <2> DEFINE e == Entry("CREATED", "NOT_CREATED", "AWAITING_OPERATOR", 0)
  <2>1. e \in Entries /\ e.type = "CREATED" /\ e.to = "AWAITING_OPERATOR"
    BY DEF Entry, Entries, EventTypes, Statuses, Ladder!Statuses, Ladder!Active
  <2>2. /\ log' = [log EXCEPT ![i] = Append(@, e)]
        /\ status' = [status EXCEPT ![i] = "AWAITING_OPERATOR"]
        /\ UNCHANGED tier
    BY <1>1 DEF CreateIncident
  <2> HIDE DEF e
  <2> QED
    BY <2>1, <2>2, OtherEntryKeepsTrail DEF IInv
<1>2. ASSUME NEW w \in Workers, CommitTransition(w) PROVE AuditTellsTheClimb'
  BY <1>2, CommitKeepsTrail
<1>3. ASSUME NEW r \in Requests, WriteAck(r) \/ WriteResolve(r) PROVE AuditTellsTheClimb'
  <2>1. PICK op \in {"ACK", "RESOLVED"} : WriteAction(r, op)
    BY <1>3 DEF WriteAck, WriteResolve
  <2> DEFINE q == request[r]
             e == Entry(op, q.from, op, q.at)
  <2>2. q.on \in Incidents /\ q \in RequestStates
    BY <2>1 DEF WriteAction, IInv, RequestsRemember, TypeOK
  <2>3. e \in Entries /\ e.type \in {"CREATED", "ACK", "RESOLVED"} /\ e.to = op
    BY <2>2 DEF RequestStates, Entry, Entries, EventTypes, Statuses, Ladder!Statuses, Ladder!Closed
  <2>4. /\ log' = [log EXCEPT ![q.on] = Append(@, e)]
        /\ status' = [status EXCEPT ![q.on] = op]
        /\ UNCHANGED tier
    BY <2>1 DEF WriteAction
  <2> HIDE DEF q, e
  <2> QED
    BY <2>2, <2>3, <2>4, OtherEntryKeepsTrail DEF IInv
<1>4. ASSUME NEW w \in Workers, NEW i \in Incidents,
             OpenTransition(w, i) \/ SkipRow(w, i) \/ VisitFails(w, i)
      PROVE  UNCHANGED <<status, tier, log>>
  BY <1>4 DEF OpenTransition, SkipRow, VisitFails, tables
<1>5. ASSUME NEW w \in Workers, Claim(w) \/ ReleaseClaim(w) \/ ReleaseFails(w) \/ Crash(w)
      PROVE  UNCHANGED <<status, tier, log>>
  BY <1>5 DEF Claim, ReleaseClaim, ReleaseFails, Crash, tables
<1>6. ASSUME NEW r \in Requests, NEW i \in Incidents, ReadForAck(r, i) \/ ReadForResolve(r, i)
      PROVE  UNCHANGED <<status, tier, log>>
  BY <1>6 DEF ReadForAck, ReadForResolve, ReadForAction, tables
<1>7. ASSUME NEW r \in Requests, RequestDies(r) PROVE UNCHANGED <<status, tier, log>>
  BY <1>7 DEF RequestDies, tables
<1>8. Tick \/ UNCHANGED vars => UNCHANGED <<status, tier, log>>
  BY DEF Tick, vars, tables
<1> QED
  BY <1>1, <1>2, <1>3, <1>4, <1>5, <1>6, <1>7, <1>8, TrailUntouched DEF Next, Work, Fault, Ask

\* The audit trail always shows each tier fired exactly once, in order, and ends
\* in the status the row has.
THEOREM AuditTrail == Spec => []AuditTellsTheClimb
<1>1. Init => AuditTellsTheClimb
  <2> SUFFICES ASSUME Init PROVE AuditTellsTheClimb
    OBVIOUS
  <2>1. \A i \in Incidents : log[i] = <<>> /\ tier[i] = 0
    BY DEF Init
  <2>2. \A t \in 1..3 : FiredAt(<<>>, t) = {}
    BY DEF FiredAt
  <2>3. \A s : TellsClimb(<<>>, s, 0)
    BY <2>2 DEF TellsClimb
  <2> QED
    BY <2>1, <2>3 DEF AuditTellsTheClimb
<1> QED
  BY <1>1, TrailStep, InductiveInvariant, PTL DEF Spec

-----------------------------------------------------------------------------
(***************************************************************************)
(* Prompt workers: no lease runs out on a row its worker still has.        *)
(***************************************************************************)

\* What a prompt worker may rely on: its claimed rows are its own and still due,
\* and the row it is on is one of them.
PromptInv ==
  /\ IInv
  /\ ClaimsAreExclusive
  /\ ClaimedRowsAreDue
  /\ \A w \in Workers : pc[w] \in {"txn", "release"} => row[w] \in batch[w]
  /\ \A w \in Workers : \A i \in batch[w] : status[i] # "NOT_CREATED"

\* It holds at the start, when nobody has claimed anything.
LEMMA PromptInit == Init => PromptInv
BY IInvInit DEF Init, PromptInv, ClaimsAreExclusive, ClaimedRowsAreDue

\* Dropping rows from a worker's list, with their leases, disturbs no other claim.
LEMMA ReturnKeepsClaims ==
  ASSUME PromptInv, IInv', NEW w \in Workers, NEW i,
         Return(w, batch[w] \ {i}) \/ Return(w, {}),
         \A j \in Incidents \ {i} :
           lease'[j] = lease[j] /\ timer'[j] = timer[j] /\ status'[j] = status[j],
         \/ UNCHANGED <<status, timer, lease>>
         \/ i \in batch[w] /\ Return(w, batch[w] \ {i})
  PROVE  PromptInv'
<1>1. /\ \A v \in Workers \ {w} : batch'[v] = batch[v] /\ pc'[v] = pc[v] /\ row'[v] = row[v]
      /\ batch'[w] \subseteq batch[w]
      /\ pc'[w] \notin {"txn", "release"}
  BY DEF Return, PromptInv, IInv, TypeOK
<1>2. ClaimsAreExclusive'
  BY <1>1 DEF PromptInv, ClaimsAreExclusive
<1>3. ASSUME NEW v \in Workers, NEW j \in batch'[v]
      PROVE  /\ j \in batch[v] /\ j \in Incidents
             /\ lease'[j] = lease[j] /\ timer'[j] = timer[j] /\ status'[j] = status[j]
  <2>1. j \in batch[v]
    BY <1>1, <1>3
  <2>2. j \in Incidents
    BY <2>1 DEF PromptInv, IInv, TypeOK
  <2>3. CASE UNCHANGED <<status, timer, lease>>
    BY <2>1, <2>2, <2>3
  <2>4. CASE i \in batch[w] /\ Return(w, batch[w] \ {i})
    <3>1. j # i
      <4>1. CASE v = w
        BY <1>3, <2>4, <4>1 DEF Return, PromptInv, IInv, TypeOK
      <4>2. CASE v # w
        BY <2>1, <2>4, <4>2 DEF PromptInv, ClaimsAreExclusive
      <4> QED
        BY <4>1, <4>2
    <3> QED
      BY <2>1, <2>2, <3>1
  <2> QED
    BY <2>3, <2>4
<1>4. ClaimedRowsAreDue'
  BY <1>3 DEF PromptInv, ClaimedRowsAreDue
<1>5. \A v \in Workers : pc'[v] \in {"txn", "release"} => row'[v] \in batch'[v]
  BY <1>1 DEF PromptInv
<1>6. \A v \in Workers : \A j \in batch'[v] : status'[j] # "NOT_CREATED"
  BY <1>3 DEF PromptInv
<1> QED
  BY <1>2, <1>4, <1>5, <1>6 DEF PromptInv

\* A claim takes only rows whose lease is free, so none that another worker has.
LEMMA ClaimKeepsClaims ==
  ASSUME PromptInv, IInv', NEW w \in Workers, Claim(w)
  PROVE  PromptInv'
<1> USE EscalationAssumption
<1>1. PICK rows \in SUBSET {i \in Incidents : Claimable(i)} :
        /\ batch' = [batch EXCEPT ![w] = rows]
        /\ lease' = [i \in Incidents |-> IF i \in rows THEN Lease ELSE lease[i]]
        /\ pc' = [pc EXCEPT ![w] = "visit"]
        /\ UNCHANGED <<status, timer, row>>
  BY DEF Claim
<1>2. /\ batch'[w] = rows /\ pc'[w] = "visit"
      /\ \A v \in Workers \ {w} : batch'[v] = batch[v] /\ pc'[v] = pc[v]
  BY <1>1 DEF PromptInv, IInv, TypeOK
<1>3. \A i \in rows : i \in Incidents /\ status[i] \in Active /\ timer[i] = 0 /\ lease[i] = 0
  BY <1>1 DEF Claimable
<1>4. \A v \in Workers : \A i \in batch[v] : i \in Incidents /\ i \notin rows
  BY <1>3 DEF PromptInv, ClaimedRowsAreDue, IInv, TypeOK
<1>5. ClaimsAreExclusive'
  BY <1>2, <1>4 DEF PromptInv, ClaimsAreExclusive
<1>6. ClaimedRowsAreDue'
  <2>1. \A i \in rows : lease'[i] > 0 /\ timer'[i] = 0
    BY <1>1, <1>3
  <2>2. \A v \in Workers : \A i \in batch[v] : lease'[i] = lease[i]
    BY <1>1, <1>4
  <2> QED
    BY <1>1, <1>2, <2>1, <2>2 DEF PromptInv, ClaimedRowsAreDue
<1>7. \A v \in Workers : pc'[v] \in {"txn", "release"} => row'[v] \in batch'[v]
  BY <1>1, <1>2 DEF PromptInv
<1>8. \A v \in Workers : \A i \in batch'[v] : status'[i] # "NOT_CREATED"
  BY <1>1, <1>2, <1>3 DEF PromptInv, Active, Ladder!Active
<1> QED
  BY <1>5, <1>6, <1>7, <1>8 DEF PromptInv

\* The steps of a worker on a row it has claimed.
LEMMA WorkKeepsClaims ==
  ASSUME PromptInv, IInv', NEW w \in Workers,
         \/ CommitTransition(w)
         \/ ReleaseClaim(w)
         \/ ReleaseFails(w)
         \/ Crash(w)
         \/ \E i \in Incidents : SkipRow(w, i)
  PROVE  PromptInv'
<1>1. CASE CommitTransition(w)
  <2> DEFINE i == row[w]
  <2>1. i \in batch[w] /\ Return(w, batch[w] \ {i})
    BY <1>1, CommitAdvances DEF PromptInv, CommitTransition
  <2>2. PICK page : Advance(i, newTimer[w], page)
    BY <1>1, CommitAdvances DEF PromptInv
  <2>3. \A j \in Incidents \ {i} :
          lease'[j] = lease[j] /\ timer'[j] = timer[j] /\ status'[j] = status[j]
    BY <2>2 DEF Advance, PromptInv, IInv, TypeOK
  <2> QED
    BY <2>1, <2>3, ReturnKeepsClaims
<1>2. CASE ReleaseClaim(w)
  <2> DEFINE i == row[w]
  <2>1. i \in batch[w] /\ Return(w, batch[w] \ {i})
    BY <1>2 DEF PromptInv, ReleaseClaim
  <2>2. \A j \in Incidents \ {i} :
          lease'[j] = lease[j] /\ timer'[j] = timer[j] /\ status'[j] = status[j]
    BY <1>2 DEF PromptInv, ReleaseClaim, IInv, TypeOK
  <2> QED
    BY <2>1, <2>2, ReturnKeepsClaims
<1>3. CASE ReleaseFails(w)
  BY <1>3, ReturnKeepsClaims DEF ReleaseFails, tables
<1>4. CASE Crash(w)
  BY <1>4, ReturnKeepsClaims DEF Crash, tables
<1>5. ASSUME NEW i \in Incidents, SkipRow(w, i) PROVE PromptInv'
  BY <1>5, ReturnKeepsClaims DEF SkipRow, tables
<1> QED
  BY <1>1, <1>2, <1>3, <1>4, <1>5

\* Steps that leave every claim where it is: what matters is that a claimed row
\* keeps its lease and, while it is active, its timer at 0.
LEMMA ClaimsUntouched ==
  ASSUME PromptInv, IInv', UNCHANGED batch,
         \A w \in Workers : \A i \in batch[w] :
           /\ lease'[i] > 0
           /\ status'[i] # "NOT_CREATED"
           /\ status'[i] \in Active => status[i] = status'[i] /\ (timer[i] = 0 => timer'[i] = 0),
         \A w \in Workers : pc'[w] \in {"txn", "release"} => row'[w] \in batch[w]
  PROVE  PromptInv'
BY DEF PromptInv, ClaimsAreExclusive, ClaimedRowsAreDue

\* Every step, if time waits for the workers, keeps the prompt invariant.
LEMMA PromptStep == PromptInv /\ [PromptNext]_vars => PromptInv'
<1> SUFFICES ASSUME PromptInv, [PromptNext]_vars PROVE PromptInv'
  OBVIOUS
<1>0. IInv'
  BY IInvStep DEF PromptInv, PromptNext
<1>a. \A w \in Workers : \A i \in batch[w] :
        i \in Incidents /\ lease[i] > 0 /\ status[i] # "NOT_CREATED"
  BY DEF PromptInv, ClaimedRowsAreDue, IInv, TypeOK
<1>1. ASSUME NEW i \in Incidents, CreateIncident(i) PROVE PromptInv'
  <2>1. /\ UNCHANGED <<lease, batch, pc, row>>
        /\ status[i] = "NOT_CREATED"
        /\ \A j \in Incidents \ {i} : status'[j] = status[j] /\ timer'[j] = timer[j]
    BY <1>1 DEF CreateIncident, workerVars, PromptInv, IInv, TypeOK
  <2>2. \A w \in Workers : pc'[w] \in {"txn", "release"} => row'[w] \in batch[w]
    BY <2>1 DEF PromptInv
  <2> QED
    BY <1>0, <1>a, <2>1, <2>2, ClaimsUntouched
<1>2. ASSUME NEW w \in Workers, Claim(w) PROVE PromptInv'
  BY <1>0, <1>2, ClaimKeepsClaims
<1>3. ASSUME NEW w \in Workers, NEW i \in Incidents, OpenTransition(w, i) \/ VisitFails(w, i)
      PROVE  PromptInv'
  <2>1. /\ UNCHANGED <<status, timer, lease, batch>>
        /\ i \in batch[w]
        /\ row'[w] = i
        /\ \A v \in Workers \ {w} : pc'[v] = pc[v] /\ row'[v] = row[v]
    BY <1>3 DEF OpenTransition, VisitFails, tables, PromptInv, IInv, TypeOK
  <2>2. \A v \in Workers : pc'[v] \in {"txn", "release"} => row'[v] \in batch[v]
    BY <2>1 DEF PromptInv
  <2> QED
    BY <1>0, <1>a, <2>1, <2>2, ClaimsUntouched
<1>4. ASSUME NEW w \in Workers,
             \/ CommitTransition(w) \/ ReleaseClaim(w) \/ ReleaseFails(w) \/ Crash(w)
             \/ \E i \in Incidents : SkipRow(w, i)
      PROVE  PromptInv'
  BY <1>0, <1>4, WorkKeepsClaims
<1>5. ASSUME NEW r \in Requests, NEW i \in Incidents,
             ReadForAck(r, i) \/ ReadForResolve(r, i)
      PROVE  PromptInv'
  <2>1. UNCHANGED <<status, timer, lease, batch, pc, row>>
    BY <1>5 DEF ReadForAck, ReadForResolve, ReadForAction, tables, workerVars
  <2>2. \A v \in Workers : pc'[v] \in {"txn", "release"} => row'[v] \in batch[v]
    BY <2>1 DEF PromptInv
  <2> QED
    BY <1>0, <1>a, <2>1, <2>2, ClaimsUntouched
<1>6. ASSUME NEW r \in Requests, WriteAck(r) \/ WriteResolve(r) PROVE PromptInv'
  <2>1. PICK op \in {"ACK", "RESOLVED"} : WriteAction(r, op)
    BY <1>6 DEF WriteAck, WriteResolve
  <2> DEFINE i == request[r].on
  <2>4. /\ UNCHANGED <<lease, batch, pc, row>>
        /\ status' = [status EXCEPT ![i] = op]
        /\ timer' = [timer EXCEPT ![i] = IF request[r].armed THEN NoTimer ELSE @]
    BY <2>1 DEF WriteAction, workerVars
  <2>5. op \notin Active /\ op # "NOT_CREATED"
    BY DEF Active, Ladder!Active
  <2>6. status \in [Incidents -> Statuses] /\ timer \in [Incidents -> Nat \cup {NoTimer}]
    BY DEF PromptInv, IInv, TypeOK
  <2> HIDE DEF i
  <2>2. /\ UNCHANGED <<lease, batch, pc, row>>
        /\ op \notin Active /\ op # "NOT_CREATED"
        /\ \A j \in Incidents :
             \/ status'[j] = op
             \/ status'[j] = status[j] /\ timer'[j] = timer[j]
    <3>1. \A j \in Incidents : status'[j] = (IF j = i THEN op ELSE status[j])
      BY <2>4, <2>6
    <3>2. \A j \in Incidents : j # i => timer'[j] = timer[j]
      BY <2>4, <2>6
    <3> QED
      BY <2>4, <2>5, <3>1, <3>2
  <2>3. \A v \in Workers : pc'[v] \in {"txn", "release"} => row'[v] \in batch[v]
    BY <2>2 DEF PromptInv
  <2> QED
    BY <1>0, <1>a, <2>2, <2>3, ClaimsUntouched
<1>7. ASSUME NEW r \in Requests, RequestDies(r) PROVE PromptInv'
  <2>1. UNCHANGED <<status, timer, lease, batch, pc, row>>
    BY <1>7 DEF RequestDies, tables, workerVars
  <2>2. \A v \in Workers : pc'[v] \in {"txn", "release"} => row'[v] \in batch[v]
    BY <2>1 DEF PromptInv
  <2> QED
    BY <1>0, <1>a, <2>1, <2>2, ClaimsUntouched
<1>8. ASSUME Tick, LeasesHold PROVE PromptInv'
  <2>1. /\ UNCHANGED <<status, batch, pc, row>>
        /\ \A j \in Incidents : timer[j] = 0 => timer'[j] = 0
    BY <1>8 DEF Tick, RunDown
  <2>3. \A w \in Workers : \A i \in batch[w] : lease'[i] > 0
    BY <1>8, <1>a DEF Tick, RunDown, LeasesHold, PromptInv, IInv, TypeOK
  <2>2. \A v \in Workers : pc'[v] \in {"txn", "release"} => row'[v] \in batch[v]
    BY <2>1 DEF PromptInv
  <2> QED
    BY <1>0, <1>a, <2>1, <2>2, <2>3, ClaimsUntouched
<1>9. CASE UNCHANGED vars
  <2>1. UNCHANGED <<status, timer, lease, batch, pc, row>>
    BY <1>9 DEF vars, tables, workerVars
  <2>2. \A v \in Workers : pc'[v] \in {"txn", "release"} => row'[v] \in batch[v]
    BY <2>1 DEF PromptInv
  <2> QED
    BY <1>0, <1>a, <2>1, <2>2, ClaimsUntouched
<1> QED
  BY <1>1, <1>2, <1>3, <1>4, <1>5, <1>6, <1>7, <1>8, <1>9 DEF PromptNext, Next, Work, Fault, Ask

\* Prompt workers never share a claimed row, and what they have is still due.
THEOREM PromptClaims == PromptSpec => []PromptInv
BY PromptInit, PromptStep, PTL DEF PromptSpec

\* Only a commit fires a tier.
LEMMA OnlyCommitsFire ==
  ASSUME [Next]_vars, fired' # fired
  PROVE  \E w \in Workers : CommitTransition(w)
<1>1. ASSUME NEW i \in Incidents, CreateIncident(i) PROVE UNCHANGED fired
  BY <1>1 DEF CreateIncident
<1>2. ASSUME NEW w \in Workers, NEW i \in Incidents,
             OpenTransition(w, i) \/ SkipRow(w, i) \/ VisitFails(w, i)
      PROVE  UNCHANGED fired
  BY <1>2 DEF OpenTransition, SkipRow, VisitFails, tables
<1>3. ASSUME NEW w \in Workers, Claim(w) \/ ReleaseClaim(w) \/ ReleaseFails(w) \/ Crash(w)
      PROVE  UNCHANGED fired
  BY <1>3 DEF Claim, ReleaseClaim, ReleaseFails, Crash, tables
<1>4. ASSUME NEW r \in Requests, NEW i \in Incidents, ReadForAck(r, i) \/ ReadForResolve(r, i)
      PROVE  UNCHANGED fired
  BY <1>4 DEF ReadForAck, ReadForResolve, ReadForAction, tables
<1>5. ASSUME NEW r \in Requests, WriteAck(r) \/ WriteResolve(r) \/ RequestDies(r)
      PROVE  UNCHANGED fired
  BY <1>5 DEF WriteAck, WriteResolve, WriteAction, RequestDies, tables
<1>6. Tick \/ UNCHANGED vars => UNCHANGED fired
  BY DEF Tick, vars, tables
<1> QED
  BY <1>1, <1>2, <1>3, <1>4, <1>5, <1>6 DEF Next, Work, Fault, Ask

\* Only of a row that its worker has claimed, which is due.
LEMMA FiresWhenDueStep ==
  PromptInv /\ [Next]_vars => \A i \in Incidents : fired'[i] # fired[i] => timer[i] = 0
<1> SUFFICES ASSUME PromptInv, [Next]_vars, NEW j \in Incidents, fired'[j] # fired[j]
             PROVE  timer[j] = 0
  OBVIOUS
<1>1. PICK w \in Workers : CommitTransition(w)
  BY OnlyCommitsFire
<1>2. j = row[w]
  <2>1. PICK page : Advance(row[w], newTimer[w], page)
    BY <1>1, CommitAdvances DEF PromptInv
  <2> QED
    BY <2>1 DEF Advance, PromptInv, IInv, TypeOK
<1>3. j \in batch[w] /\ status[j] \in Active
  BY <1>1, <1>2 DEF CommitTransition, PromptInv, IInv, OpenTransactions, StillActive
<1> QED
  BY <1>3 DEF PromptInv, ClaimedRowsAreDue

\* Under the timing assumption a tier never fires before its deadline.
THEOREM PromptWorkersFireWhenDue == PromptSpec => FiresOnlyWhenDue
<1>1. PromptInv /\ [PromptNext]_vars =>
        [\A i \in Incidents : fired'[i] # fired[i] => timer[i] = 0]_vars
  BY FiresWhenDueStep DEF PromptNext
<1> QED
  BY <1>1, PromptClaims, PTL DEF PromptSpec, FiresOnlyWhenDue

\* Under the timing assumption the lease keeps a claim exclusive: no two workers
\* ever have the same row to visit.
THEOREM ClaimsExclusive == PromptSpec => []ClaimsAreExclusive
<1>1. PromptInv => ClaimsAreExclusive
  BY DEF PromptInv
<1> QED
  BY <1>1, PromptClaims, PTL
=============================================================================
