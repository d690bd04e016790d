--------------------------- MODULE OverlayProofs ----------------------------
(***************************************************************************)
(* What the overlay pipeline guarantees for any camera, window, queue and  *)
(* number of connections and faults: frames reach a browser in order, the  *)
(* database misses no tick and repeats one at most once per fault, and the *)
(* incremental debouncer opens a rule exactly when the frames say so.      *)
(***************************************************************************)
EXTENDS Overlay, RelayHubProofs

USE RelayHubAssumption, OverlayAssumption

-----------------------------------------------------------------------------
(***************************************************************************)
(* Sequences.                                                              *)
(***************************************************************************)

\* What taking the head off a sequence leaves.
LEMMA TailFacts ==
  ASSUME NEW S, NEW q \in Seq(S), q # <<>>
  PROVE  /\ Head(q) \in S /\ Head(q) = q[1] /\ 1 \in DOMAIN q
         /\ Tail(q) \in Seq(S) /\ Len(Tail(q)) = Len(q) - 1 /\ Len(q) \in Nat \ {0}
         /\ DOMAIN q = 1..Len(q) /\ DOMAIN Tail(q) = 1..(Len(q) - 1)
         /\ \A n \in DOMAIN Tail(q) : n + 1 \in DOMAIN q /\ Tail(q)[n] = q[n + 1]
<1>1. Len(q) \in Nat \ {0} /\ DOMAIN q = 1..Len(q)
  BY EmptySeq, LenProperties
<1>2. Tail(q) \in Seq(S) /\ Len(Tail(q)) = Len(q) - 1 /\ Head(q) \in S
      /\ \A n \in 1..Len(Tail(q)) : Tail(q)[n] = q[n + 1]
  BY HeadTailProperties
<1>3. DOMAIN Tail(q) = 1..(Len(q) - 1)
  BY <1>2, LenProperties
<1>4. Head(q) = q[1]
  OBVIOUS
<1> QED
  BY <1>1, <1>2, <1>3, <1>4

\* The last n elements of a sequence.
LEMMA LastFacts ==
  ASSUME NEW S, NEW h \in Seq(S), NEW n \in Nat \ {0}
  PROVE  LET t == Last(h, n) IN
         /\ t \in Seq(S) /\ Len(h) \in Nat /\ DOMAIN t = 1..Len(t)
         /\ Len(t) = IF Len(h) > n THEN n ELSE Len(h)
         /\ \A i \in 1..Len(t) : t[i] = h[Len(h) - Len(t) + i]
<1>1. Len(h) \in Nat /\ DOMAIN h = 1..Len(h)
  BY LenProperties
<1>2. PICK m \in Int : m = IF Len(h) > n THEN Len(h) - n + 1 ELSE 1
  BY SMTT(20), <1>1
<1>3. \A i \in m..Len(h) : h[i] \in S
  BY <1>1, <1>2, ElementOfSeq
<1>4. PICK t : t = SubSeq(h, m, Len(h))
  OBVIOUS
<1>5. /\ t \in Seq(S)
      /\ Len(t) = IF m <= Len(h) THEN Len(h) - m + 1 ELSE 0
      /\ \A i \in 1..(Len(h) - m + 1) : t[i] = h[m + i - 1]
  BY <1>1, <1>3, <1>4, SubSeqProperties
<1>6. Len(t) = Len(h) - m + 1
      /\ Len(t) = IF Len(h) > n THEN n ELSE Len(h)
  <2>1. CASE Len(h) > n
    <3>1. m = Len(h) - n + 1 /\ m <= Len(h)
      BY <1>1, <1>2, <2>1
    <3> QED
      BY <1>1, <1>5, <2>1, <3>1
  <2>2. CASE ~(Len(h) > n)
    BY <1>1, <1>2, <1>5, <2>2
  <2> QED
    BY <2>1, <2>2
<1>7. \A i \in 1..Len(t) : t[i] = h[Len(h) - Len(t) + i]
  <2>1. ASSUME NEW i \in 1..Len(t) PROVE t[i] = h[Len(h) - Len(t) + i]
    <3>1. i \in 1..(Len(h) - m + 1) /\ m + i - 1 = Len(h) - Len(t) + i
      BY <1>1, <1>6, <2>1
    <3> QED
      BY <1>5, <3>1
  <2> QED
    BY <2>1
<1>8. DOMAIN t = 1..Len(t)
  BY <1>5, LenProperties
<1>9. Last(h, n) = t
  BY <1>2, <1>4 DEF Last
<1> QED
  BY <1>1, <1>5, <1>6, <1>7, <1>8, <1>9

-----------------------------------------------------------------------------
(***************************************************************************)
(* Types.                                                                  *)
(***************************************************************************)
LEMMA EmptyHistory == <<>> \in Seq(BOOLEAN) /\ Len(<<>>) = 0 /\ Len(<<>>) <= Window
<1>1. <<>> \in Seq(BOOLEAN) /\ Len(<<>>) = 0
  BY EmptySeq
<1>2. Window >= 0
  OBVIOUS
<1> QED
  BY <1>1, <1>2

LEMMA TypesInit == Init => TypeOK
<1> SUFFICES ASSUME Init PROVE TypeOK
  OBVIOUS
<1>1. HubTypeOK
  BY HubInitInv DEF Init, HubInv
<1>2. DebouncerTypeOK
  BY EmptyHistory DEF Init, DebouncerTypeOK
<1>3. QueueTypeOK
  BY EmptySeq DEF Init, QueueTypeOK
<1>4. WorkerTypeOK
  BY EmptySeq DEF Init, WorkerTypeOK
<1> QED
  BY <1>1, <1>2, <1>3, <1>4 DEF Init, TypeOK

\* The history that a frame leaves, unless it clears the rule.
LEMMA WindowFacts ==
  ASSUME DebouncerTypeOK, NEW violating \in BOOLEAN
  PROVE  LET h == Last(Append(history, violating), Window) IN
         h \in Seq(BOOLEAN) /\ Len(h) <= Window
<1>1. PICK a : a = Append(history, violating)
  OBVIOUS
<1>2. a \in Seq(BOOLEAN)
  BY <1>1, AppendFacts DEF DebouncerTypeOK
<1>3. /\ Last(a, Window) \in Seq(BOOLEAN) /\ Len(a) \in Nat
      /\ Len(Last(a, Window)) = IF Len(a) > Window THEN Window ELSE Len(a)
  BY <1>2, LastFacts
<1>4. Len(Last(a, Window)) <= Window
  BY <1>3
<1> QED
  BY <1>1, <1>3, <1>4

LEMMA FrameKeepsTypes == TypeOK /\ Frame => TypeOK'
<1> SUFFICES ASSUME TypeOK, Frame PROVE TypeOK'
  OBVIOUS
<1>1. HubTypeOK'
  BY DEF Frame, hubVars, TypeOK, HubTypeOK
<1>2. QueueTypeOK'
  <2>1. CASE numbered < MaxMessages /\ numbered' = numbered + 1 /\ Enqueue(numbered + 1)
    <3>1. numbered + 1 \in 1..MaxMessages
      BY <2>1 DEF TypeOK, QueueTypeOK
    <3>2. Append(queue, numbered + 1) \in Seq(1..MaxMessages)
          /\ Len(Append(queue, numbered + 1)) = Len(queue) + 1 /\ Len(queue) \in Nat
      BY <3>1, AppendFacts DEF TypeOK, QueueTypeOK
    <3>3. CASE Len(queue) < MaxQueue
      BY <2>1, <3>1, <3>2, <3>3 DEF Enqueue, TypeOK, QueueTypeOK
    <3>4. CASE ~(Len(queue) < MaxQueue)
      BY <2>1, <3>1, <3>2, <3>4 DEF Enqueue, TypeOK, QueueTypeOK
    <3> QED
      BY <3>3, <3>4
  <2>2. CASE UNCHANGED <<numbered, queue>>
    BY <2>2 DEF TypeOK, QueueTypeOK
  <2> QED
    BY <2>1, <2>2 DEF Frame
<1>3. DebouncerTypeOK'
  <2>1. ASSUME NEW violating \in BOOLEAN, Observe(violating) PROVE DebouncerTypeOK'
    <3>1. PICK h : h = Last(Append(history, violating), Window)
      OBVIOUS
    <3>2. h \in Seq(BOOLEAN) /\ Len(h) <= Window
      BY <3>1, WindowFacts DEF TypeOK
    <3>3. history' = <<>> \/ history' = h
      BY <2>1, <3>1 DEF Observe
    <3>4. history' \in Seq(BOOLEAN) /\ Len(history') <= Window
      BY <3>2, <3>3, EmptyHistory
    <3>5. isOpen' \in BOOLEAN /\ engine' \in {"frame", "publish"} /\ clearStreak' \in Nat
      BY <2>1 DEF Observe, Streak, TypeOK, DebouncerTypeOK
    <3>6. seen' \in Seq(BOOLEAN)
      BY <2>1, AppendFacts DEF Observe, TypeOK, DebouncerTypeOK
    <3> QED
      BY <3>4, <3>5, <3>6 DEF Frame, TypeOK, DebouncerTypeOK
  <2>2. CASE UNCHANGED <<history, isOpen, clearStreak, seen, engine>>
    BY <2>2 DEF Frame, TypeOK, DebouncerTypeOK
  <2> QED
    BY <2>1, <2>2 DEF Frame
<1>4. WorkerTypeOK'
  BY DEF Frame, workerVars, TypeOK, WorkerTypeOK
<1> QED
  BY <1>1, <1>2, <1>3, <1>4 DEF Frame, TypeOK

\* What the drain task takes off the queue.
LEMMA QueueFacts ==
  ASSUME QueueTypeOK, queue # <<>>
  PROVE  /\ Head(queue) \in 1..MaxMessages
         /\ Tail(queue) \in Seq(1..MaxMessages) /\ Len(Tail(queue)) <= MaxQueue
BY TailFacts DEF QueueTypeOK

LEMMA DrainKeepsTypes ==
  ASSUME TypeOK, HubTypeOK', Drain
  PROVE  TypeOK'
<1>1. queue # <<>> /\ queue' = Tail(queue) /\ numbered' = numbered
  BY DEF Drain
<1>2. QueueTypeOK'
  BY <1>1, QueueFacts DEF TypeOK, QueueTypeOK
<1>3. WorkerTypeOK'
  <2>1. PICK a : a = Append(topic, Head(queue))
    OBVIOUS
  <2>2. a \in Seq(1..MaxMessages) /\ Len(topic) \in Nat /\ Len(a) = Len(topic) + 1
    BY <1>1, <2>1, QueueFacts, AppendFacts DEF TypeOK, WorkerTypeOK
  <2>3. /\ UNCHANGED <<committed, position, worker, stored, skipped>>
        /\ topic' = topic \/ topic' = a
    BY <2>1 DEF Drain
  <2> QED
    BY <2>2, <2>3 DEF TypeOK, WorkerTypeOK
<1>4. DebouncerTypeOK'
  BY DEF Drain, TypeOK, DebouncerTypeOK
<1> QED
  BY <1>2, <1>3, <1>4 DEF Drain, TypeOK

LEMMA EdgeKeepsTypes ==
  ASSUME TypeOK, HubTypeOK', Edge
  PROVE  TypeOK'
<1>1. CASE PublishAnomaly
  BY <1>1 DEF PublishAnomaly, workerVars, TypeOK, DebouncerTypeOK, QueueTypeOK, WorkerTypeOK
<1>2. CASE EdgeRestarts
  <2>1. DebouncerTypeOK'
    BY <1>2, EmptyHistory DEF EdgeRestarts, DebouncerTypeOK
  <2>2. QueueTypeOK'
    BY <1>2, EmptySeq DEF EdgeRestarts, TypeOK, QueueTypeOK
  <2> QED
    BY <1>2, <2>1, <2>2 DEF EdgeRestarts, workerVars, TypeOK, WorkerTypeOK
<1>3. CASE DrainLoses
  <2>1. QueueTypeOK'
    <3>1. queue # <<>> /\ queue' = Tail(queue) /\ numbered' = numbered
      BY <1>3 DEF DrainLoses
    <3> QED
      BY <3>1, QueueFacts DEF TypeOK, QueueTypeOK
  <2> QED
    BY <1>3, <2>1 DEF DrainLoses, workerVars, TypeOK, DebouncerTypeOK, WorkerTypeOK
<1> QED
  BY <1>1, <1>2, <1>3, FrameKeepsTypes, DrainKeepsTypes DEF Edge

\* The tick that the worker is at, or takes next.
LEMMA TickFacts ==
  ASSUME WorkerTypeOK
  PROVE  /\ Len(topic) \in Nat /\ DOMAIN topic = 1..Len(topic)
         /\ committed \in Nat /\ position \in Nat /\ skipped \in Nat
         /\ \A n \in 1..Len(topic) : topic[n] \in 1..MaxMessages
         /\ position < Len(topic) => topic[position + 1] \in 1..MaxMessages
<1>1. Len(topic) \in Nat /\ DOMAIN topic = 1..Len(topic)
      /\ \A n \in 1..Len(topic) : topic[n] \in 1..MaxMessages
  BY LenProperties, ElementOfSeq DEF WorkerTypeOK
<1>2. committed \in Nat /\ position \in Nat /\ skipped \in Nat
  BY <1>1 DEF WorkerTypeOK
<1> QED
  BY <1>1, <1>2

LEMMA WorkerKeepsTypes ==
  ASSUME TypeOK, WorkerHasTick, HubTypeOK', Worker
  PROVE  TypeOK'
<1> USE TickFacts
<1>1. DebouncerTypeOK' /\ QueueTypeOK' /\ emits' \in BOOLEAN
  BY DEF Worker, Store, Republish, RepublishFails, CommitOffset, WorkerRestarts, edgeVars,
         TypeOK, DebouncerTypeOK, QueueTypeOK
<1>2. faults' \in 0..MaxFaults
  BY DEF Worker, Store, Republish, RepublishFails, CommitOffset, WorkerRestarts, TypeOK
<1>3. WorkerTypeOK'
  <2>1. CASE Store
    <3>1. topic[position + 1] \in 1..MaxMessages
      BY <2>1 DEF Store, TypeOK
    <3>2. stored' \in [1..MaxMessages -> Nat]
      <4>1. PICK f : f = topic[position + 1]
        OBVIOUS
      <4>2. stored' = [stored EXCEPT ![f] = @ + 1] /\ f \in 1..MaxMessages
        BY <2>1, <3>1, <4>1 DEF Store
      <4> QED
        BY <4>2 DEF TypeOK, WorkerTypeOK
    <3> QED
      BY <2>1, <3>2 DEF Store, TypeOK, WorkerTypeOK
  <2>2. CASE Republish \/ RepublishFails
    BY <2>2 DEF Republish, RepublishFails, TypeOK, WorkerTypeOK
  <2>3. CASE CommitOffset
    BY <2>3 DEF CommitOffset, WorkerHasTick, TypeOK, WorkerTypeOK
  <2>4. CASE WorkerRestarts
    BY <2>4 DEF WorkerRestarts, Resume, TypeOK, WorkerTypeOK
  <2> QED
    BY <2>1, <2>2, <2>3, <2>4 DEF Worker
<1> QED
  BY <1>1, <1>2, <1>3 DEF TypeOK

\* The hub's invariant holds in the pipeline: what is handed to its subscriptions
\* are messages with a number.
LEMMA HubInvStep ==
  ASSUME TypeOK, HubInv, WorkerHasTick, [Next]_vars
  PROVE  HubInv'
<1>1. CASE HubNext
  BY <1>1, HubStep
<1>2. CASE UNCHANGED hubVars
  BY <1>2, HubStutters
<1>3. ASSUME NEW f \in 1..MaxMessages, Deliver(f),
             UNCHANGED <<kind, handler, here, sockets, relay, pubsub, started, task, subs, frame,
                         todo, dead, shown, hubFaults>>
      PROVE  HubInv'
  BY <1>3, DeliverKeepsHubInv DEF None
<1>4. CASE Drain
  <2>1. Head(queue) \in 1..MaxMessages
    BY <1>4, QueueFacts DEF Drain, TypeOK
  <2>2. CASE kind = "heatmap"
    BY <1>2, <1>4, <2>2 DEF Drain, hubVars
  <2>3. CASE kind # "heatmap"
    BY <1>3, <1>4, <2>1, <2>3 DEF Drain
  <2> QED
    BY <2>2, <2>3
<1>5. CASE Republish
  <2>1. topic[position + 1] \in 1..MaxMessages
    BY <1>5, TickFacts DEF Republish, WorkerHasTick, TypeOK
  <2> QED
    BY <1>3, <1>5, <2>1 DEF Republish
<1>6. CASE Frame \/ PublishAnomaly \/ EdgeRestarts \/ DrainLoses
           \/ Store \/ RepublishFails \/ CommitOffset \/ WorkerRestarts
  BY <1>2, <1>6 DEF Frame, PublishAnomaly, EdgeRestarts, DrainLoses, Store, RepublishFails,
                    CommitOffset, WorkerRestarts
<1>7. CASE UNCHANGED vars
  BY <1>2, <1>7 DEF vars
<1> QED
  BY <1>1, <1>4, <1>5, <1>6, <1>7 DEF Next, Hub, Edge, Worker

LEMMA TypesStep ==
  ASSUME TypeOK, HubInv, WorkerHasTick, [Next]_vars
  PROVE  TypeOK'
<1>1. HubTypeOK'
  BY HubInvStep DEF HubInv
<1>2. CASE UNCHANGED <<edgeVars, workerVars, faults>>
  BY <1>1, <1>2 DEF edgeVars, workerVars, TypeOK, DebouncerTypeOK, QueueTypeOK, WorkerTypeOK
<1>3. CASE Edge
  BY <1>1, <1>3, EdgeKeepsTypes
<1>4. CASE Worker
  BY <1>1, <1>4, WorkerKeepsTypes
<1> QED
  BY <1>2, <1>3, <1>4 DEF Next, Hub, vars

-----------------------------------------------------------------------------
(***************************************************************************)
(* Messages are in the order of their numbers.                             *)
(***************************************************************************)
LEMMA AppendAscends ==
  ASSUME NEW S \in SUBSET Nat, NEW q \in Seq(S), NEW e \in S,
         Ascending(q), \A n \in DOMAIN q : q[n] < e
  PROVE  Ascending(Append(q, e))
<1>1. PICK a : a = Append(q, e)
  OBVIOUS
<1>2. /\ Len(q) \in Nat /\ DOMAIN q = 1..Len(q) /\ DOMAIN a = 1..(Len(q) + 1)
      /\ \A n \in 1..Len(q) : a[n] = q[n]
      /\ a[Len(q) + 1] = e
  BY <1>1, AppendFacts
<1>3. ASSUME NEW m \in DOMAIN a, NEW n \in DOMAIN a, m < n PROVE a[m] < a[n]
  <2>1. m \in 1..Len(q)
    BY <1>2, <1>3
  <2>2. CASE n = Len(q) + 1
    BY <1>2, <2>1, <2>2
  <2>3. CASE n # Len(q) + 1
    BY <1>2, <1>3, <2>1, <2>3 DEF Ascending
  <2> QED
    BY <2>2, <2>3
<1> QED
  BY <1>1, <1>3 DEF Ascending

LEMMA TailAscends ==
  ASSUME NEW S \in SUBSET Nat, NEW q \in Seq(S), q # <<>>, Ascending(q)
  PROVE  Ascending(Tail(q)) /\ \A n \in DOMAIN Tail(q) : Head(q) < Tail(q)[n]
<1>1. PICK t : t = Tail(q)
  OBVIOUS
<1>2. /\ Len(q) \in Nat \ {0} /\ DOMAIN q = 1..Len(q) /\ DOMAIN t = 1..(Len(q) - 1)
      /\ Head(q) = q[1]
      /\ \A n \in DOMAIN t : n + 1 \in DOMAIN q /\ t[n] = q[n + 1]
  BY <1>1, TailFacts
<1>3. \A n \in DOMAIN t : Head(q) < t[n]
  BY <1>2 DEF Ascending
<1>4. ASSUME NEW m \in DOMAIN t, NEW n \in DOMAIN t, m < n PROVE t[m] < t[n]
  <2>1. m + 1 < n + 1 /\ m + 1 \in DOMAIN q /\ n + 1 \in DOMAIN q
    BY <1>2, <1>4
  <2>2. q[m + 1] < q[n + 1]
    BY <2>1 DEF Ascending
  <2> QED
    BY <1>2, <2>2
<1> QED
  BY <1>1, <1>3, <1>4 DEF Ascending

\* Which of the two hubs it is never changes.
LEMMA KindStays == [Next]_vars => kind' = kind
BY DEF Next, Hub, HubNext, Handle, Relay, Accept, Add, Subscribe, SubscribeFails, Leave,
       Disconnect, Remove, Unsubscribe, Take, SendTo, RelayCrashes,
       Edge, Frame, PublishAnomaly, EdgeRestarts, Drain, DrainLoses,
       Worker, Store, Republish, RepublishFails, CommitOffset, WorkerRestarts, vars, hubVars

\* What each part of the pipeline leaves alone.
LEMMA Unchanged ==
  ASSUME [Next]_vars
  PROVE  /\ ~Edge => UNCHANGED edgeVars
         /\ ~Edge /\ ~Worker => UNCHANGED <<workerVars, faults>>
         /\ Edge /\ ~Drain => UNCHANGED workerVars
         /\ Worker => UNCHANGED topic
BY DEF Next, Hub, Edge, Frame, PublishAnomaly, EdgeRestarts, Drain, DrainLoses,
       Worker, Store, Republish, RepublishFails, CommitOffset, WorkerRestarts, vars

LEMMA TickStep ==
  ASSUME TypeOK, WorkerHasTick, [Next]_vars
  PROVE  WorkerHasTick'
<1> USE TickFacts DEF TypeOK
<1>1. kind' = kind
  BY KindStays
<1>2. CASE UNCHANGED workerVars
  BY <1>1, <1>2 DEF workerVars, WorkerHasTick
<1>3. CASE Drain
  <2>1. PICK a : a = Append(topic, Head(queue))
    OBVIOUS
  <2>2. Len(a) = Len(topic) + 1
    BY <1>3, <2>1, QueueFacts, AppendFacts DEF Drain, WorkerTypeOK
  <2>3. UNCHANGED <<position, worker>> /\ (topic' = topic \/ (kind = "heatmap" /\ topic' = a))
    BY <1>3, <2>1 DEF Drain
  <2> QED
    BY <1>1, <2>2, <2>3 DEF WorkerHasTick
<1>4. CASE Store \/ Republish \/ RepublishFails
  BY <1>1, <1>4 DEF Store, Republish, RepublishFails, WorkerHasTick
<1>5. CASE CommitOffset \/ WorkerRestarts
  BY <1>1, <1>5 DEF CommitOffset, WorkerRestarts, WorkerHasTick
<1> QED
  BY <1>2, <1>3, <1>4, <1>5, Unchanged DEF Worker, workerVars

LEMMA OrderStep ==
  ASSUME TypeOK, MessagesAreInOrder, [Next]_vars
  PROVE  MessagesAreInOrder'
<1> USE TickFacts DEF TypeOK
<1>1. /\ queue \in Seq(1..MaxMessages) /\ topic \in Seq(1..MaxMessages)
      /\ (1..MaxMessages) \in SUBSET Nat /\ numbered \in Nat
  BY DEF QueueTypeOK, WorkerTypeOK
<1>2. CASE UNCHANGED <<queue, numbered, topic>>
  BY <1>2 DEF MessagesAreInOrder, Ascending
<1>3. CASE queue # <<>> /\ queue' = Tail(queue) /\ UNCHANGED <<numbered, topic>>
  <2>1. Ascending(queue')
    BY <1>1, <1>3, TailAscends DEF MessagesAreInOrder
  <2>2. \A n \in DOMAIN queue' : n + 1 \in DOMAIN queue /\ queue'[n] = queue[n + 1]
    BY <1>1, <1>3, TailFacts
  <2> QED
    BY <1>3, <2>1, <2>2 DEF MessagesAreInOrder, Ascending
<1>4. CASE Frame
  <2>1. UNCHANGED topic
    BY <1>4 DEF Frame, workerVars
  <2>2. CASE numbered' = numbered + 1 /\ queue' = queue
    <3>1. (\A n \in DOMAIN queue : queue[n] <= numbered') /\ \A n \in DOMAIN topic : topic[n] <= numbered'
      <4>1. (\A n \in DOMAIN queue : queue[n] \in Nat) /\ \A n \in DOMAIN topic : topic[n] \in Nat
        BY <1>1, LenProperties, ElementOfSeq
      <4> QED
        BY SMTT(20), <1>1, <2>2, <4>1 DEF MessagesAreInOrder
    <3> QED
      BY <2>1, <2>2, <3>1 DEF MessagesAreInOrder, Ascending
  <2>3. CASE numbered < MaxMessages /\ numbered' = numbered + 1 /\ queue' = Append(queue, numbered + 1)
    <3>1. PICK e : e = numbered + 1
      OBVIOUS
    <3>2. e \in 1..MaxMessages /\ numbered' = e /\ queue' = Append(queue, e) /\ numbered < e
      BY <1>1, <2>3, <3>1 DEF QueueTypeOK
    <3>3. (\A n \in DOMAIN queue : queue[n] \in Nat) /\ \A n \in DOMAIN topic : topic[n] \in Nat
      BY <1>1, LenProperties, ElementOfSeq
    <3>4. (\A n \in DOMAIN queue : queue[n] < e) /\ \A n \in DOMAIN topic : topic[n] < e
      BY SMTT(20), <1>1, <3>2, <3>3 DEF MessagesAreInOrder
    <3>5. Ascending(queue')
      BY <1>1, <3>2, <3>4, AppendAscends DEF MessagesAreInOrder
    <3>6. \A n \in DOMAIN queue' : queue'[n] = e \/ (n \in DOMAIN queue /\ queue'[n] = queue[n])
      BY <1>1, <3>2, AppendFacts
    <3>7. \A m \in DOMAIN topic, n \in DOMAIN queue' : topic[m] < queue'[n]
      BY <3>4, <3>6 DEF MessagesAreInOrder
    <3>8. (\A n \in DOMAIN queue' : queue'[n] <= e) /\ \A n \in DOMAIN topic : topic[n] <= e
      BY <3>2, <3>3, <3>4, <3>6
    <3> QED
      BY <2>1, <3>2, <3>5, <3>7, <3>8 DEF MessagesAreInOrder, Ascending
  <2> QED
    BY <1>2, <1>4, <2>1, <2>2, <2>3 DEF Frame, Enqueue
<1>5. CASE EdgeRestarts
  <2>1. queue' = <<>> /\ UNCHANGED <<numbered, topic>>
    BY <1>5 DEF EdgeRestarts, workerVars
  <2>2. DOMAIN queue' = {}
    BY <2>1
  <2> QED
    BY <2>1, <2>2 DEF MessagesAreInOrder, Ascending
<1>6. CASE Drain
  <2>1. queue # <<>> /\ queue' = Tail(queue) /\ numbered' = numbered
    BY <1>6 DEF Drain
  <2>2. CASE topic' = topic
    BY <1>3, <2>1, <2>2
  <2>3. CASE topic' = Append(topic, Head(queue))
    <3>1. PICK e : e = Head(queue)
      OBVIOUS
    <3>2. /\ e \in 1..MaxMessages /\ e = queue[1] /\ 1 \in DOMAIN queue
          /\ \A n \in DOMAIN queue' : n + 1 \in DOMAIN queue /\ queue'[n] = queue[n + 1]
      BY <1>1, <2>1, <3>1, TailFacts
    <3>3. Ascending(queue') /\ \A n \in DOMAIN queue' : e < queue'[n]
      BY <1>1, <2>1, <3>1, TailAscends DEF MessagesAreInOrder
    <3>4. \A m \in DOMAIN topic : topic[m] < e
      BY <3>2 DEF MessagesAreInOrder
    <3>5. Ascending(topic')
      BY <1>1, <2>3, <3>1, <3>2, <3>4, AppendAscends DEF MessagesAreInOrder
    <3>6. \A n \in DOMAIN topic' : topic'[n] = e \/ (n \in DOMAIN topic /\ topic'[n] = topic[n])
      BY <1>1, <2>3, <3>1, <3>2, AppendFacts
    <3>7. \A m \in DOMAIN topic', n \in DOMAIN queue' : topic'[m] < queue'[n]
      BY <3>2, <3>3, <3>6 DEF MessagesAreInOrder
    <3>8. (\A n \in DOMAIN queue' : queue'[n] <= numbered)
          /\ \A n \in DOMAIN topic' : topic'[n] <= numbered
      BY <3>2, <3>6 DEF MessagesAreInOrder
    <3> QED
      BY <2>1, <3>3, <3>5, <3>7, <3>8 DEF MessagesAreInOrder, Ascending
  <2> QED
    BY <1>6, <2>2, <2>3 DEF Drain
<1>7. CASE DrainLoses
  BY <1>3, <1>7 DEF DrainLoses, workerVars
<1>8. CASE PublishAnomaly
  BY <1>2, <1>8 DEF PublishAnomaly, workerVars
<1>9. CASE ~Edge
  BY <1>2, <1>9, Unchanged DEF edgeVars, workerVars
<1> QED
  BY <1>4, <1>5, <1>6, <1>7, <1>8, <1>9 DEF Edge

-----------------------------------------------------------------------------
(***************************************************************************)
(* The ticks in the database.                                              *)
(***************************************************************************)
LEMMA TicksStep ==
  ASSUME TypeOK, WorkerHasTick, MessagesAreInOrder, TicksAreCounted, [Next]_vars
  PROVE  TicksAreCounted'
<1> USE TickFacts DEF TypeOK
<1>1. /\ faults \in Nat /\ stored \in [1..MaxMessages -> Nat]
      /\ Kept \in Nat /\ Kept <= Len(topic)
  BY DEF WorkerTypeOK, Kept, WorkerHasTick
<1>2. CASE UNCHANGED <<workerVars, faults>>
  BY <1>2 DEF workerVars, TicksAreCounted, Kept
<1>3. CASE UNCHANGED <<topic, position, stored, skipped>> /\ Kept' = Kept /\ faults' \in {faults, faults + 1}
  <2>1. \A n \in DOMAIN topic : stored[topic[n]] <= faults' + (IF n <= Kept THEN 1 ELSE 0)
    BY <1>1, <1>3 DEF TicksAreCounted
  <2> QED
    BY <1>3, <2>1 DEF TicksAreCounted
<1>4. CASE UNCHANGED workerVars /\ faults' = faults + 1
  BY <1>3, <1>4 DEF workerVars, Kept
<1>5. CASE Drain
  <2>1. UNCHANGED <<position, worker, stored, skipped, faults>> /\ Kept' = Kept
    BY <1>5 DEF Drain, Kept
  <2>2. CASE topic' = topic
    BY <1>3, <2>1, <2>2
  <2>3. CASE topic' = Append(topic, Head(queue))
    <3>1. PICK e : e = Head(queue)
      OBVIOUS
    <3>2. e \in 1..MaxMessages /\ e = queue[1] /\ 1 \in DOMAIN queue
      BY <1>5, <3>1, TailFacts DEF Drain, QueueTypeOK
    <3>3. /\ DOMAIN topic' = 1..(Len(topic) + 1)
          /\ \A n \in 1..Len(topic) : topic'[n] = topic[n]
          /\ topic'[Len(topic) + 1] = e
      BY <2>3, <3>1, <3>2, AppendFacts DEF WorkerTypeOK
    <3>4. \A m \in 1..Len(topic) : topic[m] # e
      BY <3>2 DEF MessagesAreInOrder
    <3>5. stored[e] = 0
      BY <3>2, <3>4 DEF TicksAreCounted
    <3>6. \A n \in (skipped + 1)..Kept : stored[topic'[n]] > 0
      <4>1. \A n \in (skipped + 1)..Kept : n \in 1..Len(topic) /\ stored[topic[n]] > 0
        BY SMTT(20), <1>1 DEF TicksAreCounted
      <4> QED
        BY <3>3, <4>1
    <3>7. \A n \in DOMAIN topic' : stored[topic'[n]] <= faults + (IF n <= Kept THEN 1 ELSE 0)
      <4>1. \A n \in 1..Len(topic) : stored[topic[n]] <= faults + (IF n <= Kept THEN 1 ELSE 0)
        BY DEF TicksAreCounted
      <4>2. ASSUME NEW n \in DOMAIN topic'
            PROVE  stored[topic'[n]] <= faults + (IF n <= Kept THEN 1 ELSE 0)
        <5>1. CASE n \in 1..Len(topic)
          BY <3>3, <4>1, <5>1
        <5>2. CASE n = Len(topic) + 1
          BY <1>1, <3>3, <3>5, <5>2
        <5> QED
          BY <3>3, <5>1, <5>2
      <4> QED
        BY <4>2
    <3>8. \A f \in 1..MaxMessages : (\A n \in DOMAIN topic' : topic'[n] # f) => stored[f] = 0
      BY <3>3 DEF TicksAreCounted
    <3> QED
      BY <2>1, <3>6, <3>7, <3>8 DEF TicksAreCounted
  <2> QED
    BY <1>5, <2>2, <2>3 DEF Drain
<1>6. CASE Store
  <2>1. PICK e : e = topic[position + 1]
    OBVIOUS
  <2>2. /\ e \in 1..MaxMessages /\ Kept = position /\ Kept' = position + 1
        /\ position + 1 \in 1..Len(topic)
        /\ stored' = [stored EXCEPT ![e] = @ + 1]
        /\ UNCHANGED <<topic, position, skipped, faults>>
    BY <1>6, <2>1 DEF Store, Kept
  <2>3. stored'[e] = stored[e] + 1 /\ \A f \in 1..MaxMessages : f # e => stored'[f] = stored[f]
    BY <1>1, <2>2
  <2>4. \A n \in 1..Len(topic) : n # position + 1 => topic[n] # e
    BY SMTT(20), <2>1, <2>2 DEF MessagesAreInOrder, Ascending
  <2>5. \A n \in (skipped + 1)..Kept' : stored'[topic[n]] > 0
    <3>1. ASSUME NEW n \in (skipped + 1)..Kept' PROVE stored'[topic[n]] > 0
      <4>1. n \in 1..Len(topic) /\ stored[e] \in Nat
        BY SMTT(20), <1>1, <2>2
      <4>2. CASE n = position + 1
        BY <2>1, <2>3, <4>1, <4>2
      <4>3. CASE n # position + 1
        <5>1. n \in (skipped + 1)..Kept
          BY <1>1, <2>2, <4>1, <4>3
        <5> QED
          BY <2>3, <2>4, <4>1, <4>3, <5>1 DEF TicksAreCounted
      <4> QED
        BY <4>2, <4>3
    <3> QED
      BY <3>1
  <2>6. \A n \in 1..Len(topic) : stored'[topic[n]] <= faults + (IF n <= Kept' THEN 1 ELSE 0)
    <3>1. ASSUME NEW n \in 1..Len(topic)
          PROVE  stored'[topic[n]] <= faults + (IF n <= Kept' THEN 1 ELSE 0)
      <4>1. stored[topic[n]] <= faults + (IF n <= Kept THEN 1 ELSE 0) /\ stored[topic[n]] \in Nat
        BY <1>1 DEF TicksAreCounted
      <4>2. CASE n = position + 1
        BY <1>1, <2>1, <2>2, <2>3, <4>1, <4>2
      <4>3. CASE n # position + 1
        BY SMTT(20), <1>1, <2>2, <2>3, <2>4, <4>1, <4>3
      <4> QED
        BY <4>2, <4>3
    <3> QED
      BY <3>1
  <2>7. \A f \in 1..MaxMessages : (\A n \in 1..Len(topic) : topic[n] # f) => stored'[f] = 0
    BY <2>1, <2>2, <2>3 DEF TicksAreCounted
  <2> QED
    BY <2>2, <2>5, <2>6, <2>7 DEF TicksAreCounted
<1>7. CASE Republish
  BY <1>3, <1>7 DEF Republish, Kept
<1>8. CASE RepublishFails
  BY <1>3, <1>8 DEF RepublishFails, Kept
<1>9. CASE CommitOffset
  <2>1. Kept' = Kept /\ UNCHANGED <<topic, stored, skipped, faults>>
    BY <1>9 DEF CommitOffset, Kept
  <2> QED
    BY <2>1 DEF TicksAreCounted
<1>10. CASE WorkerRestarts
  <2>1. /\ faults' = faults + 1 /\ UNCHANGED <<topic, stored>> /\ Kept' = position'
        /\ position' = Resume /\ skipped' = IF committed > 0 THEN skipped ELSE Len(topic)
    BY <1>10 DEF WorkerRestarts, Kept
  <2>2. \A n \in (skipped' + 1)..Kept' : stored[topic[n]] > 0
    <3>1. CASE committed > 0
      <4>1. skipped' = skipped /\ Kept' = committed /\ committed <= Kept
        BY <2>1, <3>1 DEF Resume, Kept, WorkerTypeOK
      <4> QED
        BY <1>1, <4>1 DEF TicksAreCounted
    <3>2. CASE ~(committed > 0)
      BY <2>1, <3>2 DEF Resume
    <3> QED
      BY <3>1, <3>2
  <2>3. \A n \in 1..Len(topic) : stored[topic[n]] <= faults' + (IF n <= Kept' THEN 1 ELSE 0)
    <3>1. ASSUME NEW n \in 1..Len(topic)
          PROVE  stored[topic[n]] <= faults' + (IF n <= Kept' THEN 1 ELSE 0)
      <4>1. stored[topic[n]] <= faults + (IF n <= Kept THEN 1 ELSE 0) /\ stored[topic[n]] \in Nat
        BY <1>1 DEF TicksAreCounted
      <4>2. stored[topic[n]] <= faults'
        BY <1>1, <2>1, <4>1
      <4> QED
        BY SMTT(20), <1>1, <2>1, <4>1, <4>2
    <3> QED
      BY <3>1
  <2> QED
    BY <2>1, <2>2, <2>3 DEF TicksAreCounted
<1> QED
  <2>1. CASE Edge /\ ~Drain
    <3>1. UNCHANGED workerVars /\ faults' \in {faults, faults + 1}
      BY <2>1, Unchanged DEF Edge, Frame, PublishAnomaly, EdgeRestarts, DrainLoses
    <3> QED
      BY <1>2, <1>4, <3>1
  <2> QED
    BY <1>2, <1>5, <1>6, <1>7, <1>8, <1>9, <1>10, <2>1, Unchanged DEF Worker

\* A tick that is stored is in the topic, once, and was stored at most once for each
\* time the worker was made to start over.
LEMMA InvariantStores == TypeOK /\ TicksAreCounted => TicksAreStored
<1> SUFFICES ASSUME TypeOK, TicksAreCounted PROVE TicksAreStored
  OBVIOUS
<1> USE TickFacts DEF TypeOK
<1>1. /\ faults \in Nat /\ stored \in [1..MaxMessages -> Nat]
      /\ committed <= Kept /\ Kept \in Nat
  BY DEF WorkerTypeOK, Kept
<1>2. \A n \in (skipped + 1)..committed : stored[topic[n]] > 0
  BY <1>1 DEF TicksAreCounted
<1>3. ASSUME NEW f \in 1..MaxMessages PROVE stored[f] <= faults + 1
  <2>1. CASE \E n \in DOMAIN topic : topic[n] = f
    <3>1. PICK n \in DOMAIN topic : topic[n] = f
      BY <2>1
    <3>2. stored[f] <= faults + (IF n <= Kept THEN 1 ELSE 0) /\ stored[f] \in Nat
      BY <1>1, <3>1 DEF TicksAreCounted
    <3> QED
      BY <1>1, <3>2
  <2>2. CASE ~\E n \in DOMAIN topic : topic[n] = f
    <3>1. stored[f] = 0
      BY <2>2 DEF TicksAreCounted
    <3> QED
      BY <1>1, <3>1
  <2> QED
    BY <2>1, <2>2
<1> QED
  BY <1>2, <1>3 DEF TicksAreStored

-----------------------------------------------------------------------------
(***************************************************************************)
(* Frames stay in order on their way through a relay.                      *)
(***************************************************************************)
AllCarryInOrder == \A g \in Tasks : task[g] = "running" => CarriesInOrder(g)

\* A step of the pipeline that no relay and no browser notices.
LEMMA CarriersStay ==
  ASSUME UNCHANGED <<task, inbox, frame, shown>>
  PROVE  /\ AllCarryInOrder => AllCarryInOrder'
         /\ \A f : NothingAfter(f) => NothingAfter(f)'
BY DEF AllCarryInOrder, CarriesInOrder, NothingAfter

\* The frames of one relay, as numbers.
LEMMA CarrierFacts ==
  ASSUME HubTypeOK, NEW g \in Tasks
  PROVE  /\ Len(inbox[g]) \in Nat /\ DOMAIN inbox[g] = 1..Len(inbox[g])
         /\ \A n \in DOMAIN inbox[g] : inbox[g][n] \in Nat
         /\ frame[g] \in Nat
         /\ \A s \in Sockets : shown[s] \in Nat
<1>1. inbox[g] \in Seq(Nat \ {None}) /\ frame[g] \in Nat /\ \A s \in Sockets : shown[s] \in Nat
  BY DEF HubTypeOK
<1> QED
  BY <1>1, LenProperties, ElementOfSeq

LEMMA SubscribeCarries ==
  ASSUME HubInv, AllCarryInOrder, NEW s \in Sockets, Subscribe(s)
  PROVE  /\ AllCarryInOrder'
         /\ \A f \in Nat : NothingAfter(f) => NothingAfter(f)'
<1>1. started \in Tasks /\ inbox[started] = <<>> /\ frame[started] = None
  BY DEF HubInv, HubTypeOK, NumbersAreFresh, OneRelay, Subscribe
<1>2. UNCHANGED <<inbox, frame, shown>> /\ \A g \in Tasks : g # started => task'[g] = task[g]
  BY DEF Subscribe, relayVars, HubInv, HubTypeOK
<1>3. DOMAIN inbox[started] = {}
  BY <1>1
<1>4. \A g \in Tasks : task'[g] = "running" => CarriesInOrder(g)'
  BY <1>1, <1>2, <1>3 DEF AllCarryInOrder, CarriesInOrder
<1>5. \A f \in Nat : NothingAfter(f) => NothingAfter(f)'
  BY <1>1, <1>2, <1>3 DEF NothingAfter, None
<1> QED
  BY <1>4, <1>5 DEF AllCarryInOrder

LEMMA RemoveCarries ==
  ASSUME HubInv, AllCarryInOrder, NEW s \in Sockets, Remove(s)
  PROVE  /\ AllCarryInOrder'
         /\ \A f : NothingAfter(f) => NothingAfter(f)'
<1>1. UNCHANGED <<inbox, shown>>
  BY DEF Remove
<1>2. CASE EmptyWithout(s)
  <2>1. \A g \in Tasks : task'[g] =
          IF g = relay /\ task[g] = "running" THEN "cancelled" ELSE task[g]
    BY <1>2 DEF Remove
  <2>2. \A g \in Tasks : task[g] = "running" => g = relay
    BY DEF HubInv, OneRelay
  <2>3. \A g \in Tasks : task'[g] # "running"
    BY <2>1, <2>2
  <2> QED
    BY <1>1, <2>3 DEF AllCarryInOrder, NothingAfter
<1>3. CASE ~EmptyWithout(s)
  BY <1>1, <1>3, CarriersStay DEF Remove
<1> QED
  BY <1>2, <1>3

LEMMA UnsubscribeCarries ==
  ASSUME HubInv, NEW s \in Sockets, Unsubscribe(s)
  PROVE  /\ AllCarryInOrder'
         /\ \A f : NothingAfter(f) => NothingAfter(f)'
<1>1. \A g \in Tasks : task'[g] # "running"
  BY DEF Unsubscribe, HubInv, OneRelay, Locked, Holding
<1> QED
  BY <1>1 DEF Unsubscribe, AllCarryInOrder, NothingAfter

LEMMA TakeCarries ==
  ASSUME HubInv, AllCarryInOrder, NEW g \in Tasks, Take(g)
  PROVE  /\ AllCarryInOrder'
         /\ \A f \in Nat : NothingAfter(f) => NothingAfter(f)'
<1>1. /\ inbox[g] \in Seq(Nat \ {None}) /\ inbox[g] # <<>>
      /\ UNCHANGED <<task, shown>> /\ task[g] = "running"
      /\ inbox'[g] = Tail(inbox[g])
      /\ frame'[g] = None \/ frame'[g] = Head(inbox[g])
      /\ \A h \in Tasks : h # g => inbox'[h] = inbox[h] /\ frame'[h] = frame[h]
  BY DEF Take, HubInv, HubTypeOK
<1>2. PICK q : q = inbox[g]
  OBVIOUS
<1>3. PICK t : t = Tail(q)
  OBVIOUS
<1>4. /\ Head(q) = q[1] /\ 1 \in DOMAIN q
      /\ \A n \in DOMAIN t : n + 1 \in DOMAIN q /\ t[n] = q[n + 1]
      /\ DOMAIN q = 1..Len(q) /\ DOMAIN t = 1..(Len(q) - 1) /\ Len(q) \in Nat
  BY <1>1, <1>2, <1>3, TailFacts
<1>5. /\ \A n \in DOMAIN q : q[n] \in Nat
      /\ \A s \in Sockets : shown[s] \in Nat
  BY <1>2, CarrierFacts DEF HubInv
<1>6. /\ \A m, n \in DOMAIN q : m < n => q[m] <= q[n]
      /\ \A s \in Sockets, n \in DOMAIN q : shown[s] <= q[n]
  BY <1>1, <1>2 DEF AllCarryInOrder, CarriesInOrder
<1>7. CarriesInOrder(g)'
  <2>1. ASSUME NEW m \in DOMAIN t, NEW n \in DOMAIN t, m < n PROVE t[m] <= t[n]
    BY <1>4, <1>6, <2>1
  <2>2. ASSUME NEW n \in DOMAIN t PROVE frame'[g] <= t[n]
    <3>1. q[1] <= q[n + 1] /\ 0 <= q[n + 1]
      BY <1>4, <1>5, <1>6, <2>2
    <3> QED
      BY <1>1, <1>2, <1>4, <3>1, <2>2 DEF None
  <2>3. \A s \in Sockets, n \in DOMAIN t : shown[s] <= t[n]
    BY <1>4, <1>6
  <2>4. \A s \in Sockets : frame'[g] # None => shown[s] <= frame'[g]
    BY <1>1, <1>2, <1>4, <1>6
  <2> QED
    BY <1>1, <1>2, <1>3, <2>1, <2>2, <2>3, <2>4 DEF CarriesInOrder
<1>8. ASSUME NEW f \in Nat, NothingAfter(f) PROVE NothingAfter(f)'
  <2>1. \A n \in DOMAIN q : q[n] <= f
    BY <1>1, <1>2, <1>8 DEF NothingAfter
  <2>2. frame'[g] <= f /\ \A n \in DOMAIN t : t[n] <= f
    BY SMTT(20), <1>1, <1>2, <1>4, <2>1 DEF None
  <2> QED
    BY <1>1, <1>2, <1>3, <1>8, <2>2 DEF NothingAfter
<1> QED
  BY <1>1, <1>7, <1>8 DEF AllCarryInOrder, CarriesInOrder

LEMMA SendToCarries ==
  ASSUME HubInv, AllCarryInOrder, NEW g \in Tasks, NEW s \in Sockets, SendTo(g, s)
  PROVE  /\ AllCarryInOrder'
         /\ \A f \in Nat : NothingAfter(f) => NothingAfter(f)'
         /\ \A t \in Sockets : shown'[t] >= shown[t]
<1>1. /\ task[g] = "running" /\ frame[g] # None
      /\ UNCHANGED <<task, inbox>>
      /\ \A t \in Sockets : shown'[t] = shown[t] \/ shown'[t] = frame[g]
  BY DEF SendTo, HubInv, HubTypeOK
<1>2. frame'[g] = frame[g] \/ frame'[g] = None
  BY DEF SendTo, HubInv, HubTypeOK
<1>3. \A h \in Tasks : task[h] = "running" => h = g
  BY <1>1 DEF HubInv, OneRelay
<1>4. CarriesInOrder(g)
  BY <1>1 DEF AllCarryInOrder
<1>5. /\ \A n \in DOMAIN inbox[g] : inbox[g][n] \in Nat
      /\ frame[g] \in Nat /\ \A t \in Sockets : shown[t] \in Nat
  BY CarrierFacts DEF HubInv
<1>6. \A t \in Sockets : shown[t] <= shown'[t] /\ shown'[t] <= frame[g]
  BY <1>1, <1>4, <1>5 DEF CarriesInOrder
<1>7. CarriesInOrder(g)'
  <2>1. \A n \in DOMAIN inbox[g] : frame'[g] <= inbox[g][n]
    BY <1>2, <1>4, <1>5 DEF CarriesInOrder, None
  <2>2. \A t \in Sockets, n \in DOMAIN inbox[g] : shown'[t] <= inbox[g][n]
    BY <1>1, <1>4 DEF CarriesInOrder
  <2> QED
    BY <1>1, <1>2, <1>4, <1>6, <2>1, <2>2 DEF CarriesInOrder
<1>8. \A f \in Nat : NothingAfter(f) => NothingAfter(f)'
  <2>1. ASSUME NEW f \in Nat, NothingAfter(f) PROVE NothingAfter(f)'
    <3>1. frame[g] <= f /\ frame'[g] <= f
      BY <1>1, <1>2, <2>1 DEF NothingAfter, None
    <3>2. \A t \in Sockets : shown'[t] <= f
      BY <1>1, <2>1, <3>1 DEF NothingAfter
    <3> QED
      BY <1>1, <1>3, <2>1, <3>1, <3>2 DEF NothingAfter
  <2> QED
    BY <2>1
<1> QED
  BY <1>1, <1>3, <1>5, <1>6, <1>7, <1>8 DEF AllCarryInOrder

LEMMA RelayCrashesCarries ==
  ASSUME HubInv, AllCarryInOrder, NEW g \in Tasks, RelayCrashes(g)
  PROVE  /\ AllCarryInOrder'
         /\ \A f : NothingAfter(f) => NothingAfter(f)'
<1>1. \A h \in Tasks : task[h] = "running" => h = g
  BY DEF RelayCrashes, HubInv, OneRelay
<1>2. \A h \in Tasks : task'[h] # "running"
  BY <1>1 DEF RelayCrashes, HubInv, HubTypeOK
<1> QED
  BY <1>2 DEF RelayCrashes, AllCarryInOrder, NothingAfter

LEMMA HubCarries ==
  ASSUME HubInv, AllCarryInOrder, HubNext
  PROVE  /\ AllCarryInOrder'
         /\ \A f \in Nat : NothingAfter(f) => NothingAfter(f)'
         /\ \A t \in Sockets : shown'[t] >= shown[t]
<1>1. \A t \in Sockets : shown[t] \in Nat
  BY DEF HubInv, HubTypeOK
<1>2. ASSUME NEW s \in Sockets,
             Accept(s) \/ Leave(s) \/ Add(s) \/ Disconnect(s) \/ SubscribeFails(s)
      PROVE  UNCHANGED <<task, inbox, frame, shown>>
  BY <1>2 DEF Accept, Leave, Add, Disconnect, SubscribeFails, relayVars
<1>3. ASSUME NEW s \in Sockets, Subscribe(s) \/ Remove(s) \/ Unsubscribe(s)
      PROVE  UNCHANGED shown
  BY <1>3 DEF Subscribe, Remove, Unsubscribe, relayVars
<1>4. ASSUME NEW g \in Tasks, Take(g) \/ RelayCrashes(g)
      PROVE  UNCHANGED shown
  BY <1>4 DEF Take, RelayCrashes
<1>5. CASE UNCHANGED <<task, inbox, frame, shown>>
  BY <1>1, <1>5, CarriersStay
<1>6. CASE \E s \in Sockets : Subscribe(s) \/ Remove(s) \/ Unsubscribe(s)
  BY <1>1, <1>3, <1>6, SubscribeCarries, RemoveCarries, UnsubscribeCarries
<1>7. CASE \E g \in Tasks : Take(g) \/ RelayCrashes(g) \/ \E s \in Sockets : SendTo(g, s)
  BY <1>1, <1>4, <1>7, TakeCarries, RelayCrashesCarries, SendToCarries
<1> QED
  BY <1>2, <1>5, <1>6, <1>7 DEF HubNext, Handle, Relay

\* A message that is not older than anything delivered is delivered in order.
LEMMA DeliverCarries ==
  ASSUME HubInv, AllCarryInOrder, NEW e \in Nat, NothingAfter(e), Deliver(e),
         UNCHANGED <<task, frame, shown>>
  PROVE  /\ AllCarryInOrder'
         /\ \A f \in Nat : NothingAfter(f) /\ e <= f => NothingAfter(f)'
<1>1. ASSUME NEW g \in Tasks, task[g] = "running"
      PROVE  /\ CarriesInOrder(g)'
             /\ \A f \in Nat : NothingAfter(f) /\ e <= f => \A n \in DOMAIN inbox'[g] : inbox'[g][n] <= f
  <2>1. inbox'[g] = Append(inbox[g], e)
    BY <1>1 DEF Deliver, HubInv, OneRelay
  <2>2. PICK q : q = inbox[g]
    OBVIOUS
  <2>3. PICK a : a = Append(q, e)
    OBVIOUS
  <2>4. /\ Len(q) \in Nat /\ DOMAIN q = 1..Len(q) /\ DOMAIN a = 1..(Len(q) + 1)
        /\ \A n \in 1..Len(q) : a[n] = q[n]
        /\ a[Len(q) + 1] = e
    <3>1. q \in Seq(Nat)
      BY <2>2, SeqMonotonic DEF HubInv, HubTypeOK
    <3> QED
      BY <2>3, <3>1, AppendFacts
  <2>5. /\ \A m, n \in DOMAIN q : m < n => q[m] <= q[n]
        /\ \A n \in DOMAIN q : frame[g] <= q[n]
        /\ \A s \in Sockets, n \in DOMAIN q : shown[s] <= q[n]
        /\ \A s \in Sockets : frame[g] # None => shown[s] <= frame[g]
    BY <1>1, <2>2 DEF AllCarryInOrder, CarriesInOrder
  <2>6. /\ frame[g] <= e /\ \A n \in DOMAIN q : q[n] <= e
        /\ \A s \in Sockets : shown[s] <= e
    BY <1>1, <2>2 DEF NothingAfter
  <2>7. ASSUME NEW m \in DOMAIN a, NEW n \in DOMAIN a, m < n PROVE a[m] <= a[n]
    <3>1. m \in 1..Len(q)
      BY <2>4, <2>7
    <3>2. CASE n = Len(q) + 1
      BY <2>4, <2>6, <3>1, <3>2
    <3>3. CASE n # Len(q) + 1
      BY <2>4, <2>5, <2>7, <3>1, <3>3
    <3> QED
      BY <3>2, <3>3
  <2>8. /\ \A n \in DOMAIN a : frame[g] <= a[n]
        /\ \A s \in Sockets, n \in DOMAIN a : shown[s] <= a[n]
    <3>1. \A n \in DOMAIN a : a[n] = e \/ (n \in DOMAIN q /\ a[n] = q[n])
      BY <2>4
    <3> QED
      BY <2>5, <2>6, <3>1
  <2>9. CarriesInOrder(g)'
    BY <2>1, <2>2, <2>3, <2>5, <2>7, <2>8 DEF CarriesInOrder
  <2>10. ASSUME NEW f \in Nat, NothingAfter(f), e <= f
         PROVE  \A n \in DOMAIN a : a[n] <= f
    <3>1. \A n \in DOMAIN q : q[n] <= f
      BY <1>1, <2>2, <2>10 DEF NothingAfter
    <3> QED
      BY <2>4, <2>10, <3>1
  <2> QED
    BY <2>1, <2>2, <2>3, <2>9, <2>10
<1> QED
  BY <1>1 DEF AllCarryInOrder, NothingAfter

\* Faults are never taken back.
LEMMA FaultsGrow ==
  ASSUME TypeOK, [Next]_vars
  PROVE  faults \in Nat /\ (faults' = faults \/ faults' = faults + 1)
<1>1. faults \in Nat
  BY DEF TypeOK
<1> QED
  BY <1>1 DEF Next, Hub, Edge, Frame, PublishAnomaly, EdgeRestarts, Drain, DrainLoses,
     Worker, Store, Republish, RepublishFails, CommitOffset, WorkerRestarts, vars

\* The messages in the queue and the topic, as numbers.
LEMMA NumberFacts ==
  ASSUME TypeOK
  PROVE  /\ \A n \in DOMAIN queue : queue[n] \in Nat
         /\ \A n \in DOMAIN topic : topic[n] \in Nat
         /\ numbered \in Nat /\ Sent \in Nat
         /\ DOMAIN topic = 1..Len(topic) /\ Len(topic) \in Nat
<1>1. queue \in Seq(1..MaxMessages) /\ topic \in Seq(1..MaxMessages) /\ numbered \in Nat
  BY DEF TypeOK, QueueTypeOK, WorkerTypeOK
<1>2. Sent \in Nat
  BY TickFacts DEF TypeOK, Sent
<1> QED
  BY <1>1, <1>2, LenProperties, ElementOfSeq

\* Frame with its overlay message.
LEMMA FrameOvertakesNothing ==
  ASSUME TypeOK, AllCarryInOrder, Frame,
         \A n \in DOMAIN topic : n > Sent => NothingAfter(topic[n]),
         \A n \in DOMAIN queue : NothingAfter(queue[n]),
         NothingAfter(numbered), HubTypeOK
  PROVE  NothingOvertakes'
<1>1. UNCHANGED <<task, inbox, frame, shown, topic>> /\ Sent' = Sent
  BY DEF Frame, hubVars, workerVars, Sent
<1>2. numbered \in Nat /\ numbered' \in Nat /\ numbered <= numbered'
  BY NumberFacts DEF Frame
<1>3. \A g \in Tasks : frame[g] \in Nat /\ \A n \in DOMAIN inbox[g] : inbox[g][n] \in Nat
  BY CarrierFacts
<1>4. NothingAfter(numbered')
  <2>1. \A t \in Sockets : shown[t] \in Nat
    BY DEF HubTypeOK
  <2> QED
    BY <1>2, <1>3, <2>1 DEF NothingAfter
<1>5. \A n \in DOMAIN queue' : queue'[n] = numbered' \/ (n \in DOMAIN queue /\ queue'[n] = queue[n])
  <2>1. CASE queue' = queue
    BY <2>1
  <2>2. CASE queue' = Append(queue, numbered + 1) /\ numbered' = numbered + 1 /\ numbered < MaxMessages
    <3>1. PICK e : e = numbered + 1
      OBVIOUS
    <3>2. e \in 1..MaxMessages /\ queue \in Seq(1..MaxMessages)
      BY <1>2, <2>2, <3>1 DEF TypeOK, QueueTypeOK
    <3>3. \A n \in DOMAIN Append(queue, e) :
            Append(queue, e)[n] = e \/ (n \in DOMAIN queue /\ Append(queue, e)[n] = queue[n])
      BY <3>2, AppendFacts
    <3> QED
      BY <2>2, <3>1, <3>3
  <2> QED
    BY <2>1, <2>2 DEF Frame, Enqueue
<1>6. \A n \in DOMAIN queue' : NothingAfter(queue'[n])
  BY <1>4, <1>5
<1> QED
  BY <1>1, <1>4, <1>6, CarriersStay DEF NothingOvertakes, AllCarryInOrder, CarriesInOrder, NothingAfter

LEMMA DrainOvertakesNothing ==
  ASSUME TypeOK, HubInv, WorkerHasTick, MessagesAreInOrder, AllCarryInOrder, Drain,
         \A n \in DOMAIN topic : n > Sent => NothingAfter(topic[n]),
         \A n \in DOMAIN queue : NothingAfter(queue[n]),
         NothingAfter(numbered)
  PROVE  NothingOvertakes'
<1>1. PICK e : e = Head(queue)
  OBVIOUS
<1>2. queue # <<>> /\ queue' = Tail(queue) /\ queue \in Seq(1..MaxMessages) /\ Sent' = Sent
      /\ numbered' = numbered
  BY DEF Drain, TypeOK, QueueTypeOK, Sent
<1>3. /\ e \in Nat /\ 1 \in DOMAIN queue /\ e = queue[1] /\ e \in 1..MaxMessages
      /\ \A n \in DOMAIN queue' : n + 1 \in DOMAIN queue /\ queue'[n] = queue[n + 1] /\ n \in Nat \ {0}
  BY <1>1, <1>2, TailFacts
<1>4. NothingAfter(e) /\ e <= numbered /\ \A n \in DOMAIN queue' : e <= queue'[n]
  BY <1>3, NumberFacts DEF MessagesAreInOrder, Ascending
<1>5. \A n \in DOMAIN queue' : NothingAfter(queue'[n]) /\ queue'[n] \in Nat
  BY <1>3, NumberFacts
<1>6. CASE kind = "heatmap"
  <2>1. UNCHANGED <<task, inbox, frame, shown>> /\ topic' = Append(topic, e)
    BY <1>1, <1>6 DEF Drain
  <2>2. \A n \in DOMAIN topic' : topic'[n] = e \/ (n \in DOMAIN topic /\ topic'[n] = topic[n])
    <3>1. topic \in Seq(1..MaxMessages) /\ DOMAIN topic = 1..Len(topic)
      BY TickFacts DEF TypeOK, WorkerTypeOK
    <3>2. /\ DOMAIN topic' = 1..(Len(topic) + 1) /\ Len(topic) \in Nat
          /\ \A n \in 1..Len(topic) : topic'[n] = topic[n]
          /\ topic'[Len(topic) + 1] = e
      BY <1>3, <2>1, <3>1, AppendFacts
    <3> QED
      BY <3>1, <3>2
  <2>3. \A n \in DOMAIN topic' : n > Sent => NothingAfter(topic'[n])
    BY <1>4, <2>2
  <2> QED
    BY <1>2, <1>5, <2>1, <2>3 DEF NothingOvertakes, AllCarryInOrder, CarriesInOrder, NothingAfter
<1>7. CASE kind # "heatmap"
  <2>1. Deliver(e) /\ UNCHANGED <<task, frame, shown, topic, kind>>
    BY <1>1, <1>7 DEF Drain
  <2>2. AllCarryInOrder' /\ \A f \in Nat : NothingAfter(f) /\ e <= f => NothingAfter(f)'
    BY <1>3, <1>4, <2>1, DeliverCarries
  <2>3. \A n \in DOMAIN queue' : NothingAfter(queue[n])'
    <3>1. ASSUME NEW n \in DOMAIN queue' PROVE NothingAfter(queue[n])'
      <4>1. PICK f : f = queue'[n]
        OBVIOUS
      <4>2. NothingAfter(f)'
        BY <1>4, <1>5, <2>2, <4>1
      <4> QED
        BY <4>1, <4>2 DEF NothingAfter
    <3> QED
      BY <3>1
  <2>4. NothingAfter(numbered)'
    <3>1. PICK f : f = numbered
      OBVIOUS
    <3>2. NothingAfter(f)'
      BY <1>4, <2>2, <3>1, NumberFacts
    <3> QED
      BY <1>2, <3>1, <3>2 DEF NothingAfter
  <2>5. topic = <<>> /\ DOMAIN topic = {}
    BY <1>7 DEF WorkerHasTick, HubInv, HubTypeOK
  <2> QED
    BY <1>2, <2>1, <2>2, <2>3, <2>4, <2>5 DEF NothingOvertakes, AllCarryInOrder
<1> QED
  BY <1>6, <1>7

LEMMA RepublishOvertakesNothing ==
  ASSUME TypeOK, HubInv, WorkerHasTick, MessagesAreInOrder, AllCarryInOrder, Republish,
         \A n \in DOMAIN topic : n > Sent => NothingAfter(topic[n]),
         \A n \in DOMAIN queue : NothingAfter(queue[n]),
         NothingAfter(numbered)
  PROVE  NothingOvertakes'
<1>1. PICK e : e = topic[position + 1]
  OBVIOUS
<1>2. /\ position + 1 \in DOMAIN topic /\ e \in Nat /\ position \in Nat
      /\ Sent = position /\ Sent' = position + 1
  BY <1>1, TickFacts, NumberFacts DEF Republish, WorkerHasTick, Sent, TypeOK
<1>3. NothingAfter(e) /\ e <= numbered /\ \A n \in DOMAIN queue : e <= queue[n]
  BY <1>1, <1>2, NumberFacts DEF MessagesAreInOrder
<1>4. \A n \in DOMAIN topic : n > position + 1 => e <= topic[n] /\ NothingAfter(topic[n])
  BY <1>1, <1>2, NumberFacts DEF MessagesAreInOrder, Ascending
<1>5. Deliver(e) /\ UNCHANGED <<task, frame, shown, topic, queue, numbered>>
  BY <1>1 DEF Republish, edgeVars
<1>6. AllCarryInOrder' /\ \A f \in Nat : NothingAfter(f) /\ e <= f => NothingAfter(f)'
  BY <1>2, <1>3, <1>5, DeliverCarries
<1>7. ASSUME NEW n \in DOMAIN topic, n > position + 1 PROVE NothingAfter(topic[n])'
  <2>1. PICK f : f = topic[n]
    OBVIOUS
  <2>2. NothingAfter(f)'
    BY <1>4, <1>6, <1>7, <2>1, NumberFacts
  <2> QED
    BY <1>5, <2>1, <2>2 DEF NothingAfter
<1>8. ASSUME NEW n \in DOMAIN queue PROVE NothingAfter(queue[n])'
  <2>1. PICK f : f = queue[n]
    OBVIOUS
  <2>2. NothingAfter(f)'
    BY <1>3, <1>6, <1>8, <2>1, NumberFacts
  <2> QED
    BY <1>5, <2>1, <2>2 DEF NothingAfter
<1>9. NothingAfter(numbered)'
  <2>1. PICK f : f = numbered
    OBVIOUS
  <2>2. NothingAfter(f)'
    BY <1>3, <1>6, <2>1, NumberFacts
  <2> QED
    BY <1>5, <2>1, <2>2 DEF NothingAfter
<1> QED
  BY <1>2, <1>5, <1>6, <1>7, <1>8, <1>9 DEF NothingOvertakes, AllCarryInOrder

\* Hub's steps, given as what they do to the frames on their way.
LEMMA HubOvertakesNothing ==
  ASSUME TypeOK, HubInv, AllCarryInOrder, Hub,
         \A n \in DOMAIN topic : n > Sent => NothingAfter(topic[n]),
         \A n \in DOMAIN queue : NothingAfter(queue[n]),
         NothingAfter(numbered)
  PROVE  NothingOvertakes'
<1>1. UNCHANGED <<topic, queue, numbered>> /\ Sent' = Sent
  BY DEF Hub, edgeVars, workerVars, Sent
<1>2. AllCarryInOrder' /\ \A f \in Nat : NothingAfter(f) => NothingAfter(f)'
  BY HubCarries DEF Hub
<1>3. ASSUME NEW n \in DOMAIN topic, n > Sent PROVE NothingAfter(topic[n])'
  <2>1. PICK f : f = topic[n]
    OBVIOUS
  <2>2. NothingAfter(f)'
    BY <1>2, <1>3, <2>1, NumberFacts
  <2> QED
    BY <1>1, <2>1, <2>2 DEF NothingAfter
<1>4. ASSUME NEW n \in DOMAIN queue PROVE NothingAfter(queue[n])'
  <2>1. PICK f : f = queue[n]
    OBVIOUS
  <2>2. NothingAfter(f)'
    BY <1>2, <1>4, <2>1, NumberFacts
  <2> QED
    BY <1>1, <2>1, <2>2 DEF NothingAfter
<1>5. NothingAfter(numbered)'
  <2>1. PICK f : f = numbered
    OBVIOUS
  <2>2. NothingAfter(f)'
    BY <1>2, <2>1, NumberFacts
  <2> QED
    BY <1>1, <2>1, <2>2 DEF NothingAfter
<1> QED
  BY <1>1, <1>2, <1>3, <1>4, <1>5 DEF NothingOvertakes, AllCarryInOrder

LEMMA OvertakeStep ==
  ASSUME TypeOK, HubInv, WorkerHasTick, MessagesAreInOrder, NothingOvertakes, [Next]_vars
  PROVE  NothingOvertakes'
<1> SUFFICES ASSUME kind' = "detection" \/ faults' = 0 PROVE NothingOvertakes'
  BY DEF NothingOvertakes
<1>1. kind = "detection" \/ faults = 0
  BY KindStays, FaultsGrow
<1>2. /\ AllCarryInOrder
      /\ \A n \in DOMAIN topic : n > Sent => NothingAfter(topic[n])
      /\ \A n \in DOMAIN queue : NothingAfter(queue[n])
      /\ NothingAfter(numbered)
  BY <1>1 DEF NothingOvertakes, AllCarryInOrder
<1>3. ASSUME UNCHANGED <<task, inbox, frame, shown, numbered, topic>>,
             \A n \in DOMAIN topic : n > Sent' => n > Sent,
             \A n \in DOMAIN queue' : \E m \in DOMAIN queue : queue'[n] = queue[m]
      PROVE  NothingOvertakes'
  <2>1. \A n \in DOMAIN queue' : NothingAfter(queue'[n])
    BY <1>2, <1>3
  <2> QED
    BY <1>2, <1>3, <2>1 DEF NothingOvertakes, AllCarryInOrder, CarriesInOrder, NothingAfter
<1>4. CASE Hub
  BY <1>2, <1>4, HubOvertakesNothing
<1>5. CASE Frame
  BY <1>2, <1>5, FrameOvertakesNothing DEF HubInv
<1>6. CASE Drain
  BY <1>2, <1>6, DrainOvertakesNothing
<1>7. CASE Republish
  BY <1>2, <1>7, RepublishOvertakesNothing
<1>8. CASE PublishAnomaly \/ UNCHANGED vars
  <2>1. UNCHANGED <<task, inbox, frame, shown, numbered, topic, queue>> /\ Sent' = Sent
    BY <1>8 DEF PublishAnomaly, vars, hubVars, workerVars, edgeVars, Sent
  <2> QED
    BY <1>3, <2>1
<1>9. CASE EdgeRestarts
  <2>1. UNCHANGED <<task, inbox, frame, shown, numbered, topic>> /\ Sent' = Sent /\ queue' = <<>>
    BY <1>9 DEF EdgeRestarts, hubVars, workerVars, Sent
  <2>2. DOMAIN queue' = {}
    BY <2>1
  <2> QED
    BY <1>3, <2>1, <2>2
<1>10. CASE DrainLoses
  <2>1. UNCHANGED <<task, inbox, frame, shown, numbered, topic>> /\ Sent' = Sent
        /\ queue # <<>> /\ queue' = Tail(queue)
    BY <1>10 DEF DrainLoses, hubVars, workerVars, Sent
  <2>2. \A n \in DOMAIN queue' : n + 1 \in DOMAIN queue /\ queue'[n] = queue[n + 1]
    BY <2>1, TailFacts DEF TypeOK, QueueTypeOK
  <2> QED
    BY <1>3, <2>1, <2>2
<1>11. CASE Store \/ RepublishFails \/ CommitOffset
  <2>1. UNCHANGED <<task, inbox, frame, shown, numbered, topic, queue>>
    BY <1>11 DEF Store, RepublishFails, CommitOffset, hubVars, edgeVars
  <2>2. Sent' \in Nat /\ Sent \in Nat /\ Sent <= Sent'
    BY <1>11, TickFacts DEF Store, RepublishFails, CommitOffset, Sent, TypeOK
  <2>3. \A n \in DOMAIN topic : n > Sent' => n > Sent
    BY <2>2, NumberFacts
  <2> QED
    BY <1>3, <2>1, <2>3
<1>12. CASE WorkerRestarts
  \* A fault: only the detection hub goes on in order, and it uses no topic.
  <2>1. kind = "detection" /\ UNCHANGED <<task, inbox, frame, shown, numbered, topic, queue>>
    BY <1>12, FaultsGrow, KindStays DEF WorkerRestarts, hubVars, edgeVars
  <2>2. topic = <<>>
    BY <2>1 DEF WorkerHasTick
  <2>3. DOMAIN topic = {}
    BY <2>2
  <2> QED
    BY <1>3, <2>1, <2>3
<1> QED
  BY <1>4, <1>5, <1>6, <1>7, <1>8, <1>9, <1>10, <1>11, <1>12 DEF Next, Edge, Worker

\* Only a send changes what a browser shows.
LEMMA ForwardStep ==
  ASSUME TypeOK, HubInv, NothingOvertakes, [Next]_vars
  PROVE  \A s \in Sockets : shown'[s] >= shown[s] \/ (kind = "heatmap" /\ faults > 0)
<1>1. faults \in Nat /\ kind \in {"detection", "heatmap"} /\ \A s \in Sockets : shown[s] \in Nat
  BY FaultsGrow DEF HubInv, HubTypeOK
<1>2. CASE kind = "detection" \/ faults = 0
  <2>1. AllCarryInOrder
    BY <1>2 DEF NothingOvertakes, AllCarryInOrder
  <2>2. CASE Hub
    BY <2>1, <2>2, HubCarries DEF Hub
  <2>3. CASE UNCHANGED shown
    BY <1>1, <2>3
  <2> QED
    BY <2>2, <2>3 DEF Next, Edge, Frame, PublishAnomaly, EdgeRestarts, Drain, DrainLoses,
       Worker, Store, Republish, RepublishFails, CommitOffset, WorkerRestarts, vars, hubVars
<1>3. CASE ~(kind = "detection" \/ faults = 0)
  BY <1>1, <1>3
<1> QED
  BY <1>2, <1>3

-----------------------------------------------------------------------------
(***************************************************************************)
(* The debouncer, with the sets of violating frames in the place of        *)
(* sequences of Booleans.                                                  *)
(***************************************************************************)
Violating(w) == {q \in DOMAIN w : w[q]}

\* Hits and OpenAfter over a set V of violating frames.
HitsOf(V, c, k) == {q \in V : q <= k /\ q > k - Window /\ q > c}

OpenFrom(V, n) ==
  \E k \in 1..n :
    /\ k \in V
    /\ Cardinality(HitsOf(V, 0, k)) >= MofN
    /\ \A e \in (k + 1)..n :
         \E q \in (e - ClearConsecutive + 1)..e : q <= k \/ q \in V

\* HistorySince and OpenedBy, after n frames and with a history of len frames of
\* which those in H are violating.
Since(V, n, H, len, c) ==
  /\ len = IF n - c > Window THEN Window ELSE n - c
  /\ \A i \in 1..len : i \in H <=> n - len + i \in V
  /\ c > 0 => c >= ClearConsecutive /\ \A q \in (c - ClearConsecutive + 1)..c : q \notin V

Opened(V, n, streak, c, k) ==
  /\ k \in V /\ Cardinality(HitsOf(V, c, k)) >= MofN
  /\ streak < ClearConsecutive /\ streak <= n - k
  /\ n - streak \in V
  /\ \A q \in (n - streak + 1)..n : q \notin V
  /\ \A e \in (k + 1)..n :
       \E q \in (e - ClearConsecutive + 1)..e : q <= k \/ q \in V

Closed(V, n, c) == \A k \in (c + 1)..n : Cardinality(HitsOf(V, c, k)) < MofN

LEMMA ViolatingFacts ==
  ASSUME NEW w \in Seq(BOOLEAN)
  PROVE  /\ Len(w) \in Nat /\ DOMAIN w = 1..Len(w)
         /\ Violating(w) \in SUBSET (1..Len(w))
         /\ \A q \in 1..Len(w) : q \in Violating(w) <=> w[q]
<1>1. Len(w) \in Nat /\ DOMAIN w = 1..Len(w)
  BY LenProperties
<1> QED
  BY <1>1 DEF Violating

LEMMA ViolatingAppend ==
  ASSUME NEW w \in Seq(BOOLEAN), NEW v \in BOOLEAN
  PROVE  /\ Append(w, v) \in Seq(BOOLEAN) /\ Len(Append(w, v)) = Len(w) + 1
         /\ v => Violating(Append(w, v)) = Violating(w) \cup {Len(w) + 1}
         /\ ~v => Violating(Append(w, v)) = Violating(w)
<1>1. PICK a : a = Append(w, v)
  OBVIOUS
<1>2. /\ a \in Seq(BOOLEAN) /\ Len(w) \in Nat /\ DOMAIN w = 1..Len(w)
      /\ DOMAIN a = 1..(Len(w) + 1) /\ Len(a) = Len(w) + 1
      /\ \A n \in 1..Len(w) : a[n] = w[n]
      /\ a[Len(w) + 1] = v
  BY <1>1, AppendFacts
<1>3. \A q : q \in Violating(a) <=> (q \in Violating(w) \/ (v /\ q = Len(w) + 1))
  <2>1. \A q \in 1..Len(w) : q \in Violating(a) <=> q \in Violating(w)
    BY <1>2 DEF Violating
  <2>2. Len(w) + 1 \in Violating(a) <=> v
    BY <1>2 DEF Violating
  <2>3. \A q : q \in Violating(a) => q \in 1..Len(w) \/ q = Len(w) + 1
    BY <1>2 DEF Violating
  <2>4. \A q : q \in Violating(w) => q \in 1..Len(w)
    BY <1>2 DEF Violating
  <2> QED
    BY <2>1, <2>2, <2>3, <2>4
<1> QED
  BY <1>1, <1>2, <1>3

LEMMA ViolatingLast ==
  ASSUME NEW w \in Seq(BOOLEAN)
  PROVE  LET t == Last(w, Window) IN
         /\ t \in Seq(BOOLEAN)
         /\ Len(t) = IF Len(w) > Window THEN Window ELSE Len(w)
         /\ \A i \in 1..Len(t) : i \in Violating(t) <=> Len(w) - Len(t) + i \in Violating(w)
<1>1. PICK t : t = Last(w, Window)
  OBVIOUS
<1>2. /\ t \in Seq(BOOLEAN) /\ Len(w) \in Nat
      /\ Len(t) = IF Len(w) > Window THEN Window ELSE Len(w)
      /\ \A i \in 1..Len(t) : t[i] = w[Len(w) - Len(t) + i]
  BY <1>1, LastFacts
<1>3. ASSUME NEW i \in 1..Len(t)
      PROVE  i \in Violating(t) <=> Len(w) - Len(t) + i \in Violating(w)
  <2>1. Len(w) - Len(t) + i \in 1..Len(w)
    BY <1>2, <1>3
  <2>2. t[i] = w[Len(w) - Len(t) + i]
    BY <1>2, <1>3
  <2>3. i \in Violating(t) <=> t[i]
    BY <1>2, <1>3, ViolatingFacts
  <2>4. Len(w) - Len(t) + i \in Violating(w) <=> w[Len(w) - Len(t) + i]
    BY <2>1, ViolatingFacts
  <2> QED
    BY <2>2, <2>3, <2>4
<1> QED
  BY <1>1, <1>2, <1>3

LEMMA IntervalSize ==
  ASSUME NEW a \in Int, NEW b \in Int, a <= b
  PROVE  IsFiniteSet(a..b) /\ Cardinality(a..b) = b - a + 1
<1>1. IsFiniteSet(a..b) /\ Cardinality(a..b) = IF a > b THEN 0 ELSE b - a + 1
  BY FS_Interval
<1> QED
  BY <1>1

\* Counting does not depend on where the counting starts.
Shifted(A, B, lo, len) ==
  /\ A \in SUBSET (1..len) /\ B \in SUBSET ((lo + 1)..(lo + len))
  /\ \A i \in 1..len : i \in A <=> lo + i \in B

LEMMA ShiftCount ==
  ASSUME NEW len \in Nat, NEW lo \in Nat, NEW A, NEW B, Shifted(A, B, lo, len)
  PROVE  Cardinality(A) = Cardinality(B)
<1> USE DEF Shifted
<1>1. IsFiniteSet(A)
  <2>1. IsFiniteSet(1..len)
    BY FS_Interval
  <2> QED
    BY <2>1, FS_Subset
<1>2. PICK f : f = [i \in A |-> lo + i]
  OBVIOUS
<1>3. f \in [A -> B]
  BY <1>2
<1>4. \A i, j \in A : f[i] = f[j] => i = j
  BY <1>2
<1>5. \A b \in B : \E i \in A : f[i] = b
  <2>1. ASSUME NEW b \in B PROVE b - lo \in A /\ f[b - lo] = b
    <3>1. b - lo \in 1..len /\ lo + (b - lo) = b
      OBVIOUS
    <3>2. b - lo \in A
      BY <3>1
    <3> QED
      BY <1>2, <3>1, <3>2
  <2> QED
    BY <2>1
<1>6. f \in Bijection(A, B)
  BY <1>3, <1>4, <1>5 DEF Bijection, Injection, Surjection, IsInjective
<1> QED
  BY <1>1, <1>6, FS_Bijection DEF ExistsBijection

LEMMA HitsMember ==
  ASSUME NEW n \in Nat, NEW V \in SUBSET (1..n), NEW c, NEW k
  PROVE  \A q : q \in HitsOf(V, c, k) <=> q \in 1..n /\ q \in V /\ q <= k /\ q > k - Window /\ q > c
<1>1. \A q \in V : q \in 1..n
  OBVIOUS
<1> QED
  BY <1>1 DEF HitsOf

\* Counts of violating frames are numbers, and more frames count more.
LEMMA HitsFacts ==
  ASSUME NEW n \in Nat, NEW V \in SUBSET (1..n), NEW c \in Nat, NEW k \in Nat
  PROVE  /\ IsFiniteSet(HitsOf(V, c, k)) /\ Cardinality(HitsOf(V, c, k)) \in Nat
         /\ \A U \in SUBSET HitsOf(V, c, k) :
              Cardinality(U) \in Nat /\ Cardinality(U) <= Cardinality(HitsOf(V, c, k))
<1>1. IsFiniteSet(1..n)
  BY FS_Interval
<1>2. HitsOf(V, c, k) \in SUBSET (1..n)
  BY DEF HitsOf
<1>3. IsFiniteSet(HitsOf(V, c, k))
  BY <1>1, <1>2, FS_Subset
<1>4. \A U \in SUBSET HitsOf(V, c, k) :
        IsFiniteSet(U) /\ Cardinality(U) <= Cardinality(HitsOf(V, c, k))
  BY <1>3, FS_Subset
<1> QED
  BY <1>3, <1>4, FS_CardinalityType

\* The window of frame k, read off the frames or off the set of violating ones.
LEMMA WindowCount ==
  ASSUME NEW w \in Seq(BOOLEAN), NEW k \in 1..Len(w)
  PROVE  Violations(Last(SubSeq(w, 1, k), Window)) = Cardinality(HitsOf(Violating(w), 0, k))
<1>1. Len(w) \in Nat /\ k \in Nat
  BY LenProperties
<1>2. PICK u : u = SubSeq(w, 1, k)
  OBVIOUS
<1>3. u \in Seq(BOOLEAN) /\ Len(u) = k /\ \A i \in 1..k : u[i] = w[i]
  <2>1. \A i \in 1..k : w[i] \in BOOLEAN
    BY <1>1, ElementOfSeq
  <2> QED
    BY <1>1, <1>2, <2>1, SubSeqProperties
<1>4. \A i \in 1..k : i \in Violating(u) <=> i \in Violating(w)
  BY SMTT(20), <1>1, <1>3, ViolatingFacts
<1>5. PICK t : t = Last(u, Window)
  OBVIOUS
<1>6. /\ t \in Seq(BOOLEAN)
      /\ Len(t) = IF k > Window THEN Window ELSE k
      /\ \A i \in 1..Len(t) : i \in Violating(t) <=> k - Len(t) + i \in Violating(u)
  BY <1>3, <1>5, ViolatingLast
<1>7. PICK lo \in Nat : lo = k - Len(t) /\ Len(t) \in Nat
  <2>1. Len(t) \in Nat /\ Len(t) <= k
    BY <1>1, <1>6
  <2>2. k - Len(t) \in Nat
    BY <1>1, <2>1
  <2> QED
    BY <2>1, <2>2
<1>8. HitsOf(Violating(w), 0, k) \in SUBSET ((lo + 1)..(lo + Len(t)))
  <2>1. \A q \in Violating(w) : q \in 1..Len(w)
    BY ViolatingFacts
  <2> QED
    BY <1>1, <1>6, <1>7, <2>1 DEF HitsOf
<1>9. \A i \in 1..Len(t) : i \in Violating(t) <=> lo + i \in HitsOf(Violating(w), 0, k)
  <2>1. ASSUME NEW i \in 1..Len(t)
        PROVE  i \in Violating(t) <=> lo + i \in HitsOf(Violating(w), 0, k)
    <3>1. lo + i \in 1..k /\ lo + i > k - Window
      BY <1>1, <1>6, <1>7, <2>1
    <3>2. i \in Violating(t) <=> lo + i \in Violating(w)
      BY <1>4, <1>6, <1>7, <2>1, <3>1
    <3> QED
      BY <1>1, <3>1, <3>2 DEF HitsOf
  <2> QED
    BY <2>1
<1>10. Cardinality(Violating(t)) = Cardinality(HitsOf(Violating(w), 0, k))
  <2>1. PICK A : A = Violating(t)
    OBVIOUS
  <2>2. PICK B : B = HitsOf(Violating(w), 0, k)
    OBVIOUS
  <2>3. PICK len \in Nat : len = Len(t)
    BY <1>7
  <2>4. A \in SUBSET (1..len) /\ B \in SUBSET ((lo + 1)..(lo + len))
    BY <1>6, <1>8, <2>1, <2>2, <2>3, ViolatingFacts
  <2>5. \A i \in 1..len : i \in A <=> lo + i \in B
    BY <1>9, <2>1, <2>2, <2>3
  <2>6. Shifted(A, B, lo, len)
    BY <2>4, <2>5 DEF Shifted
  <2>7. Cardinality(A) = Cardinality(B)
    BY <2>6, ShiftCount
  <2> QED
    BY <2>1, <2>2, <2>7
<1> QED
  BY <1>2, <1>5, <1>10 DEF Violations, Violating

-----------------------------------------------------------------------------
(***************************************************************************)
(* The frames alone: what closes a rule, what opens it, what a new frame   *)
(* changes.                                                                *)
(***************************************************************************)

\* A debouncer that was cleared by a quiet run, and since then had no window with
\* enough violations, has forgotten nothing that would keep the rule open: a window
\* that reaches over the quiet run is too short for it.
LEMMA ClosedIsNotOpen ==
  ASSUME NEW n \in Nat, NEW V \in SUBSET (1..n), NEW c \in 0..n,
         c > 0 => c >= ClearConsecutive /\ \A q \in (c - ClearConsecutive + 1)..c : q \notin V,
         Closed(V, n, c)
  PROVE  ~OpenFrom(V, n)
<1> SUFFICES ASSUME NEW k \in 1..n, k \in V, Cardinality(HitsOf(V, 0, k)) >= MofN,
                    \A e \in (k + 1)..n :
                      \E q \in (e - ClearConsecutive + 1)..e : q <= k \/ q \in V
             PROVE  FALSE
  BY DEF OpenFrom
<1> USE HitsMember
<1>0. c \in Nat /\ k \in Nat /\ 0 \in Nat
      /\ Cardinality(HitsOf(V, 0, k)) \in Nat /\ Cardinality(HitsOf(V, c, k)) \in Nat
  <2>1. c \in Nat /\ k \in Nat /\ 0 \in Nat
    OBVIOUS
  <2> QED
    BY <2>1, HitsFacts
<1>1. CASE k <= c
  <2>1. c > 0 /\ k \notin (c - ClearConsecutive + 1)..c
    BY <1>1
  <2>2. k <= c - ClearConsecutive /\ c \in (k + 1)..n
    BY <1>1, <2>1
  <2>3. PICK q \in (c - ClearConsecutive + 1)..c : q <= k \/ q \in V
    BY <2>2
  <2> QED
    BY <2>1, <2>2, <2>3
<1>2. CASE k > c
  <2>1. Cardinality(HitsOf(V, c, k)) < MofN
    BY <1>2 DEF Closed
  <2>2. HitsOf(V, c, k) # HitsOf(V, 0, k)
    BY <1>0, <2>1
  <2>3. PICK p \in V : p > k - Window /\ p <= c
    <3>1. \A q : q \in HitsOf(V, c, k) => q \in HitsOf(V, 0, k)
      BY <1>0
    <3>2. PICK q : q \in HitsOf(V, 0, k) /\ q \notin HitsOf(V, c, k)
      <4>1. ASSUME \A q : q \in HitsOf(V, 0, k) => q \in HitsOf(V, c, k) PROVE FALSE
        <5>1. \A q : q \in HitsOf(V, 0, k) <=> q \in HitsOf(V, c, k)
          BY <3>1, <4>1
        <5> QED
          BY ZenonT(30), <2>2, <5>1
      <4> QED
        BY <4>1
    <3> QED
      BY <1>0, <3>2
  <2>4. c > 0 /\ p <= c - ClearConsecutive
    <3>1. c > 0 /\ p \notin (c - ClearConsecutive + 1)..c
      BY <2>3
    <3> QED
      BY <2>3, <3>1
  <2> DEFINE S == (k - Window + 1)..k
             Q == (c - ClearConsecutive + 1)..c
  <2>5. IsFiniteSet(S) /\ Cardinality(S) = Window /\ Cardinality(Q) = ClearConsecutive
    <3>1. k - Window + 1 \in Int /\ k \in Int /\ c - ClearConsecutive + 1 \in Int /\ c \in Int
      BY <1>0
    <3>2. /\ Window \in Nat \ {0} /\ ClearConsecutive \in Nat \ {0}
          /\ k - Window + 1 <= k /\ k - (k - Window + 1) + 1 = Window
          /\ c - ClearConsecutive + 1 <= c
          /\ c - (c - ClearConsecutive + 1) + 1 = ClearConsecutive
      BY <1>0, OverlayAssumption
    <3>3. IsFiniteSet(S) /\ Cardinality(S) = k - (k - Window + 1) + 1
      BY <3>1, <3>2, IntervalSize
    <3>4. Cardinality(Q) = c - (c - ClearConsecutive + 1) + 1
      BY <3>1, <3>2, IntervalSize
    <3> QED
      BY <3>2, <3>3, <3>4
  <2>6. S \cap Q = Q
    BY <1>2, <2>3, <2>4
  <2>7. HitsOf(V, 0, k) \in SUBSET (S \ Q)
    <3>1. ASSUME NEW q \in HitsOf(V, 0, k) PROVE q \in S /\ q \notin Q
      <4>1. q \in 1..n /\ q \in V /\ q <= k /\ q > k - Window
        BY <1>0, <3>1
      <4> QED
        BY <1>0, <2>4, <4>1
    <3> QED
      BY <3>1
  <2> HIDE DEF S, Q
  <2>8. IsFiniteSet(S \ Q) /\ Cardinality(S \ Q) = Window - ClearConsecutive
    BY <2>5, <2>6, FS_Difference
  <2>9. Cardinality(HitsOf(V, 0, k)) <= Window - ClearConsecutive
    BY <2>7, <2>8, FS_Subset
  <2> QED
    BY <1>0, <2>9
<1> QED
  BY <1>1, <1>2

\* What the debouncer counts since it was cleared is in the window of the frames.
LEMMA OpenedIsOpen ==
  ASSUME NEW n \in Nat, NEW V \in SUBSET (1..n), NEW c \in 0..n, NEW k \in (c + 1)..n,
         NEW streak \in Nat, Opened(V, n, streak, c, k)
  PROVE  OpenFrom(V, n)
<1>1. c \in Nat /\ k \in Nat /\ 0 \in Nat /\ k \in 1..n
  OBVIOUS
<1>2. HitsOf(V, c, k) \in SUBSET HitsOf(V, 0, k)
  BY <1>1, HitsMember
<1>3. /\ Cardinality(HitsOf(V, c, k)) \in Nat /\ Cardinality(HitsOf(V, 0, k)) \in Nat
      /\ Cardinality(HitsOf(V, c, k)) <= Cardinality(HitsOf(V, 0, k))
  BY <1>1, <1>2, HitsFacts
<1>4. Cardinality(HitsOf(V, 0, k)) >= MofN
  BY <1>3 DEF Opened
<1> QED
  BY <1>1, <1>4 DEF Opened, OpenFrom

\* A new frame changes no earlier window and no earlier state of the rule.
LEMMA PastStays ==
  ASSUME NEW n \in Nat, NEW V \in SUBSET (1..n), NEW U \in SUBSET (1..(n + 1)),
         \A q \in 1..n : q \in U <=> q \in V
  PROVE  /\ \A c, k \in 0..n : HitsOf(U, c, k) = HitsOf(V, c, k)
         /\ \A m \in 0..n : OpenFrom(U, m) <=> OpenFrom(V, m)
<1>1. \A c, k \in 0..n : HitsOf(U, c, k) = HitsOf(V, c, k)
  <2>1. ASSUME NEW c \in 0..n, NEW k \in 0..n PROVE HitsOf(U, c, k) = HitsOf(V, c, k)
    <3>1. \A q : q \in HitsOf(U, c, k) <=> q \in HitsOf(V, c, k)
      <4>1. \A q : q \in HitsOf(U, c, k) <=>
              q \in 1..(n + 1) /\ q \in U /\ q <= k /\ q > k - Window /\ q > c
        BY HitsMember
      <4>2. \A q : q \in HitsOf(V, c, k) <=>
              q \in 1..n /\ q \in V /\ q <= k /\ q > k - Window /\ q > c
        BY HitsMember
      <4> QED
        BY <4>1, <4>2
    <3> QED
      BY <3>1
  <2> QED
    BY <2>1
<1>2. ASSUME NEW m \in 0..n PROVE OpenFrom(U, m) <=> OpenFrom(V, m)
  <2>1. \A k \in 1..m : HitsOf(U, 0, k) = HitsOf(V, 0, k) /\ (k \in U <=> k \in V)
    BY <1>1
  <2>2. \A k \in 1..m : \A e \in (k + 1)..m : \A q \in (e - ClearConsecutive + 1)..e :
          (q <= k \/ q \in U) <=> (q <= k \/ q \in V)
    OBVIOUS
  <2> QED
    BY <2>1, <2>2 DEF OpenFrom
<1> QED
  BY <1>1, <1>2

\* One frame more, and the last Window of m frames.
Adds(U, V, n, v) ==
  /\ U \in SUBSET (1..(n + 1)) /\ \A q \in 1..n : q \in U <=> q \in V
  /\ n + 1 \in U <=> v

Cut(H2, len2, G, m) ==
  /\ len2 = IF m > Window THEN Window ELSE m
  /\ H2 \in SUBSET (1..len2) /\ \A i \in 1..len2 : i \in H2 <=> m - len2 + i \in G

\* The history after a frame: its violations are those of the window.
LEMMA HistoryStep ==
  ASSUME NEW n \in Nat, NEW V \in SUBSET (1..n), NEW c \in 0..n,
         NEW len \in Nat, NEW H \in SUBSET (1..len), Since(V, n, H, len, c),
         NEW v \in BOOLEAN,
         NEW U, Adds(U, V, n, v), NEW G, Adds(G, H, len, v),
         NEW len2 \in Nat, NEW H2, Cut(H2, len2, G, len + 1)
  PROVE  /\ Since(U, n + 1, H2, len2, c)
         /\ Cardinality(H2) = Cardinality(HitsOf(U, c, n + 1))
<1> USE DEF Adds, Cut
<1>1. len = IF n - c > Window THEN Window ELSE n - c
  BY DEF Since
<1>2. len2 = IF n + 1 - c > Window THEN Window ELSE n + 1 - c
  BY <1>1
<1>3. \A i \in 1..len2 : i \in H2 <=> n + 1 - len2 + i \in U
  <2>1. ASSUME NEW i \in 1..len2 PROVE i \in H2 <=> n + 1 - len2 + i \in U
    <3>1. PICK j \in 1..(len + 1) : j = len + 1 - len2 + i
      <4>1. len + 1 - len2 + i \in 1..(len + 1)
        OBVIOUS
      <4> QED
        BY <4>1
    <3>2. CASE j = len + 1
      BY <3>1, <3>2
    <3>3. CASE j # len + 1
      <4>1. j \in 1..len /\ n - len + j \in 1..n /\ n - len + j = n + 1 - len2 + i
        BY <1>1, <3>1, <3>3
      <4>2. j \in H <=> n - len + j \in V
        BY <4>1 DEF Since
      <4> QED
        BY <3>1, <4>1, <4>2
    <3> QED
      BY <3>2, <3>3
  <2> QED
    BY <2>1
<1>4. c > 0 => c >= ClearConsecutive /\ \A q \in (c - ClearConsecutive + 1)..c : q \notin U
  BY DEF Since
<1>5. Since(U, n + 1, H2, len2, c)
  BY <1>2, <1>3, <1>4 DEF Since
<1>6. PICK lo \in Nat : lo = n + 1 - len2
  <2>1. n + 1 - len2 \in Nat
    BY <1>2
  <2> QED
    BY <2>1
<1>7. HitsOf(U, c, n + 1) \in SUBSET ((lo + 1)..(lo + len2))
  <2>1. ASSUME NEW q \in HitsOf(U, c, n + 1) PROVE q \in (lo + 1)..(lo + len2)
    <3>1. q \in 1..(n + 1) /\ q > n + 1 - Window /\ q > c
      BY HitsMember
    <3> QED
      BY <1>2, <1>6, <3>1
  <2> QED
    BY <2>1
<1>8. \A i \in 1..len2 : i \in H2 <=> lo + i \in HitsOf(U, c, n + 1)
  <2>1. ASSUME NEW i \in 1..len2 PROVE i \in H2 <=> lo + i \in HitsOf(U, c, n + 1)
    <3>1. lo + i <= n + 1 /\ lo + i > n + 1 - Window /\ lo + i > c
      BY <1>2, <1>6
    <3> QED
      BY <1>3, <1>6, <3>1 DEF HitsOf
  <2> QED
    BY <2>1
<1>9. PICK B : B = HitsOf(U, c, n + 1)
  OBVIOUS
<1>10. Shifted(H2, B, lo, len2)
  BY <1>7, <1>8, <1>9 DEF Shifted
<1>11. Cardinality(H2) = Cardinality(B)
  BY <1>10, ShiftCount
<1> QED
  BY <1>5, <1>9, <1>11

\* A quiet frame opens nothing.
LEMMA QuietFrameOpensNothing ==
  ASSUME NEW n \in Nat, NEW V \in SUBSET (1..n), NEW c \in 0..n, Closed(V, n, c)
  PROVE  Cardinality(HitsOf(V, c, n + 1)) < MofN
<1>1. CASE n = c
  <2>1. HitsOf(V, c, n + 1) = {}
    BY <1>1, HitsMember
  <2>2. Cardinality(HitsOf(V, c, n + 1)) = 0
    BY <2>1, FS_EmptySet
  <2> QED
    BY <2>2, OverlayAssumption
<1>2. CASE n # c
  <2>1. HitsOf(V, c, n + 1) \in SUBSET HitsOf(V, c, n)
    BY HitsMember
  <2>2. Cardinality(HitsOf(V, c, n)) < MofN
    BY <1>2 DEF Closed
  <2>3. c \in Nat /\ n + 1 \in Nat
    OBVIOUS
  <2>4. /\ Cardinality(HitsOf(V, c, n)) \in Nat /\ Cardinality(HitsOf(V, c, n + 1)) \in Nat
        /\ Cardinality(HitsOf(V, c, n + 1)) <= Cardinality(HitsOf(V, c, n))
    BY <2>1, <2>3, HitsFacts
  <2> QED
    BY <2>2, <2>4
<1> QED
  BY <1>1, <1>2

-----------------------------------------------------------------------------
(***************************************************************************)
(* What the debouncer remembers, and what it has counted.                  *)
(***************************************************************************)
Remembers(V, n, H, len, open, streak) ==
  \E c \in 0..n :
    /\ Since(V, n, H, len, c)
    /\ IF open THEN \E k \in (c + 1)..n : Opened(V, n, streak, c, k) ELSE Closed(V, n, c)

Openings(V, n) == {m \in 1..n : OpenFrom(V, m) /\ ~OpenFrom(V, m - 1)}

\* A debouncer that remembers this is open exactly when the frames say so.
LEMMA OpenIsExact ==
  ASSUME NEW n \in Nat, NEW V \in SUBSET (1..n), NEW H, NEW len, NEW open \in BOOLEAN,
         NEW streak \in Nat, Remembers(V, n, H, len, open, streak)
  PROVE  open <=> OpenFrom(V, n)
<1>1. PICK c \in 0..n :
        /\ Since(V, n, H, len, c)
        /\ IF open THEN \E k \in (c + 1)..n : Opened(V, n, streak, c, k) ELSE Closed(V, n, c)
  BY DEF Remembers
<1>2. CASE open
  <2>1. PICK k \in (c + 1)..n : Opened(V, n, streak, c, k)
    BY <1>1, <1>2
  <2> QED
    BY <1>2, <2>1, OpenedIsOpen
<1>3. CASE ~open
  <2>1. Closed(V, n, c)
    BY <1>1, <1>3
  <2>2. c > 0 => c >= ClearConsecutive /\ \A q \in (c - ClearConsecutive + 1)..c : q \notin V
    BY <1>1 DEF Since
  <2> QED
    BY <1>3, <2>1, <2>2, ClosedIsNotOpen
<1> QED
  BY <1>2, <1>3

\* A frame that leaves the rule closed.
LEMMA StaysClosed ==
  ASSUME NEW n \in Nat, NEW V \in SUBSET (1..n), NEW U \in SUBSET (1..(n + 1)),
         \A q \in 1..n : q \in U <=> q \in V,
         NEW c \in 0..n, Closed(V, n, c), ~(Cardinality(HitsOf(U, c, n + 1)) >= MofN)
  PROVE  Closed(U, n + 1, c)
<1>1. c \in Nat /\ n + 1 \in Nat
  OBVIOUS
<1>2. Cardinality(HitsOf(U, c, n + 1)) \in Nat
  BY <1>1, HitsFacts
<1>3. ASSUME NEW k \in (c + 1)..(n + 1) PROVE Cardinality(HitsOf(U, c, k)) < MofN
  <2>1. CASE k = n + 1
    BY <1>2, <2>1
  <2>2. CASE k # n + 1
    <3>1. k \in 0..n /\ k \in (c + 1)..n
      BY <2>2
    <3>2. HitsOf(U, c, k) = HitsOf(V, c, k)
      BY <3>1, PastStays
    <3> QED
      BY <3>1, <3>2 DEF Closed
  <2> QED
    BY <2>1, <2>2
<1> QED
  BY <1>3 DEF Closed

\* A frame that opens the rule is a violating one.
LEMMA Opens ==
  ASSUME NEW n \in Nat, NEW V \in SUBSET (1..n), NEW U \in SUBSET (1..(n + 1)),
         \A q \in 1..n : q \in U <=> q \in V,
         NEW c \in 0..n, Closed(V, n, c), Cardinality(HitsOf(U, c, n + 1)) >= MofN
  PROVE  Opened(U, n + 1, 0, c, n + 1)
<1>1. n + 1 \in U
  <2> SUFFICES ASSUME n + 1 \notin U PROVE FALSE
    OBVIOUS
  <2>1. U = V
    <3>1. ASSUME NEW q \in U PROVE q \in 1..n
      <4>1. q \in 1..(n + 1) /\ q # n + 1
        OBVIOUS
      <4> QED
        BY <4>1
    <3>2. \A q : q \in U <=> q \in V
      BY <3>1
    <3> QED
      BY <3>2
  <2>2. Cardinality(HitsOf(U, c, n + 1)) < MofN
    BY <2>1, QuietFrameOpensNothing
  <2>3. c \in Nat /\ n + 1 \in Nat
    OBVIOUS
  <2>4. Cardinality(HitsOf(U, c, n + 1)) \in Nat
    BY <2>3, HitsFacts
  <2> QED
    BY <2>2, <2>4
<1> QED
  BY <1>1 DEF Opened

\* A frame that leaves the rule open.
LEMMA StaysOpen ==
  ASSUME NEW n \in Nat, NEW V \in SUBSET (1..n), NEW U \in SUBSET (1..(n + 1)),
         \A q \in 1..n : q \in U <=> q \in V,
         NEW v \in BOOLEAN, n + 1 \in U <=> v,
         NEW c \in 0..n, NEW k \in (c + 1)..n, NEW streak \in Nat,
         Opened(V, n, streak, c, k),
         NEW after \in Nat, after = IF v THEN 0 ELSE streak + 1, after < ClearConsecutive
  PROVE  Opened(U, n + 1, after, c, k)
<1>1. c \in 0..n /\ k \in 0..n /\ k \in 1..n
  OBVIOUS
<1>2. HitsOf(U, c, k) = HitsOf(V, c, k)
  BY SMTT(20), <1>1, PastStays
<1>3. k \in U /\ Cardinality(HitsOf(U, c, k)) >= MofN
  BY <1>1, <1>2 DEF Opened
<1>4. after <= n + 1 - k /\ n + 1 - after \in U
      /\ \A q \in (n + 1 - after + 1)..(n + 1) : q \notin U
  <2>1. CASE v
    BY <2>1
  <2>2. CASE ~v
    <3>1. n + 1 - after = n - streak /\ n - streak \in V /\ streak <= n - k
      BY <2>2 DEF Opened
    <3>2. \A q \in (n - streak + 1)..(n + 1) : q \notin U
      BY <2>2, <3>1 DEF Opened
    <3> QED
      BY <2>2, <3>1, <3>2
  <2> QED
    BY <2>1, <2>2
<1>5. ASSUME NEW e \in (k + 1)..(n + 1)
      PROVE  \E q \in (e - ClearConsecutive + 1)..e : q <= k \/ q \in U
  <2>1. CASE e = n + 1
    <3>1. n + 1 - after \in (e - ClearConsecutive + 1)..e
      BY <2>1
    <3> QED
      BY <1>4, <3>1
  <2>2. CASE e # n + 1
    <3>1. e \in (k + 1)..n
      BY <2>2
    <3>2. PICK q \in (e - ClearConsecutive + 1)..e : q <= k \/ q \in V
      BY <3>1 DEF Opened
    <3>3. q <= k \/ q \in U
      BY <3>2
    <3> QED
      BY <3>3
  <2> QED
    BY <2>1, <2>2
<1> QED
  BY <1>3, <1>4, <1>5 DEF Opened

\* The quiet frame that clears the rule ends a run of ClearConsecutive.
LEMMA Clears ==
  ASSUME NEW n \in Nat, NEW V \in SUBSET (1..n), NEW U \in SUBSET (1..(n + 1)),
         \A q \in 1..n : q \in U <=> q \in V,
         n + 1 \notin U,
         NEW c \in 0..n, NEW k \in (c + 1)..n, NEW streak \in Nat,
         Opened(V, n, streak, c, k), streak + 1 >= ClearConsecutive
  PROVE  Since(U, n + 1, {}, 0, n + 1) /\ Closed(U, n + 1, n + 1)
<1>1. streak + 1 = ClearConsecutive /\ streak <= n - k /\ n + 1 >= ClearConsecutive
  BY DEF Opened
<1>2. \A q \in (n - streak + 1)..(n + 1) : q \notin U
  BY <1>1 DEF Opened
<1>3. n + 1 - ClearConsecutive + 1 = n - streak + 1
  BY <1>1
<1> QED
  BY <1>1, <1>2, <1>3 DEF Since, Closed

\* What observe makes of a frame v, a history with that frame (G) and its last
\* window (H2).
Decides(V, n, H, len, open, streak, v, U, G, H2, len2, after, opens, clears,
        H3, len3, open3, streak3) ==
  /\ n \in Nat /\ V \in SUBSET (1..n)
  /\ len \in Nat /\ H \in SUBSET (1..len)
  /\ open \in BOOLEAN /\ streak \in Nat /\ v \in BOOLEAN
  /\ Adds(U, V, n, v) /\ Adds(G, H, len, v)
  /\ len2 \in Nat /\ Cut(H2, len2, G, len + 1)
  /\ after = IF v THEN 0 ELSE streak + 1
  /\ opens <=> ~open /\ Cardinality(H2) >= MofN
  /\ clears <=> open /\ after >= ClearConsecutive
  /\ H3 = IF clears THEN {} ELSE H2
  /\ len3 = IF clears THEN 0 ELSE len2
  /\ open3 = ((open \/ opens) /\ ~clears)
  /\ streak3 = IF opens \/ clears THEN 0 ELSE after

\* The debouncer's step.
LEMMA ObserveRemembers ==
  ASSUME NEW V, NEW n, NEW H, NEW len, NEW open, NEW streak, NEW v, NEW U, NEW G, NEW H2,
         NEW len2, NEW after, NEW opens \in BOOLEAN, NEW clears \in BOOLEAN,
         NEW H3, NEW len3, NEW open3 \in BOOLEAN, NEW streak3,
         Remembers(V, n, H, len, open, streak),
         Decides(V, n, H, len, open, streak, v, U, G, H2, len2, after, opens, clears,
                 H3, len3, open3, streak3)
  PROVE  Remembers(U, n + 1, H3, len3, open3, streak3)
<1>0. /\ n \in Nat /\ V \in SUBSET (1..n)
      /\ len \in Nat /\ H \in SUBSET (1..len)
      /\ open \in BOOLEAN /\ streak \in Nat /\ v \in BOOLEAN
      /\ Adds(U, V, n, v) /\ Adds(G, H, len, v)
      /\ len2 \in Nat /\ Cut(H2, len2, G, len + 1)
      /\ after \in Nat /\ after = IF v THEN 0 ELSE streak + 1
      /\ opens <=> ~open /\ Cardinality(H2) >= MofN
      /\ clears <=> open /\ after >= ClearConsecutive
      /\ H3 = IF clears THEN {} ELSE H2
      /\ len3 = IF clears THEN 0 ELSE len2
      /\ open3 <=> ((open \/ opens) /\ ~clears)
      /\ streak3 = IF opens \/ clears THEN 0 ELSE after
  BY DEF Decides
<1> USE <1>0
<1>1. PICK c \in 0..n :
        /\ Since(V, n, H, len, c)
        /\ IF open THEN \E k \in (c + 1)..n : Opened(V, n, streak, c, k) ELSE Closed(V, n, c)
  BY DEF Remembers
<1>2. /\ Since(U, n + 1, H2, len2, c)
      /\ Cardinality(H2) = Cardinality(HitsOf(U, c, n + 1))
  BY <1>1, HistoryStep
<1> USE DEF Adds
<1>3. c \in 0..(n + 1) /\ n + 1 \in 0..(n + 1) /\ n + 1 \in (c + 1)..(n + 1)
  OBVIOUS
<1>4. CASE ~open /\ ~opens
  <2>1. Closed(V, n, c) /\ ~(Cardinality(HitsOf(U, c, n + 1)) >= MofN)
    BY <1>1, <1>2, <1>4
  <2>2. Closed(U, n + 1, c)
    BY <2>1, StaysClosed
  <2> QED
    BY <1>2, <1>3, <1>4, <2>2 DEF Remembers
<1>5. CASE ~open /\ opens
  <2>1. Closed(V, n, c) /\ Cardinality(HitsOf(U, c, n + 1)) >= MofN
    BY <1>1, <1>2, <1>5
  <2>2. Opened(U, n + 1, 0, c, n + 1)
    BY <2>1, Opens
  <2>3. \E k \in (c + 1)..(n + 1) : Opened(U, n + 1, 0, c, k)
    BY <1>3, <2>2
  <2> QED
    BY <1>2, <1>3, <1>5, <2>3 DEF Remembers
<1>6. CASE open
  <2>1. PICK k \in (c + 1)..n : Opened(V, n, streak, c, k)
    BY <1>1, <1>6
  <2>2. CASE clears
    <3>1. n + 1 \notin U /\ streak + 1 >= ClearConsecutive
      BY <2>2
    <3>2. Since(U, n + 1, {}, 0, n + 1) /\ Closed(U, n + 1, n + 1)
      BY <2>1, <3>1, Clears
    <3> QED
      BY <1>3, <2>2, <3>2 DEF Remembers
  <2>3. CASE ~clears
    <3>1. after < ClearConsecutive
      BY <1>6, <2>3
    <3>2. Opened(U, n + 1, after, c, k)
      BY <2>1, <3>1, StaysOpen
    <3>3. \E m \in (c + 1)..(n + 1) : Opened(U, n + 1, after, c, m)
      BY <3>2
    <3> QED
      BY <1>2, <1>3, <1>6, <2>3, <3>3 DEF Remembers
  <2> QED
    BY <2>2, <2>3
<1> QED
  BY <1>4, <1>5, <1>6

\* One more opening, or none.
LEMMA OpeningsGrow ==
  ASSUME NEW n \in Nat, NEW V \in SUBSET (1..n), NEW U \in SUBSET (1..(n + 1)),
         \A q \in 1..n : q \in U <=> q \in V
  PROVE  /\ Cardinality(Openings(V, n)) \in Nat
         /\ OpenFrom(U, n + 1) /\ ~OpenFrom(V, n) =>
              Cardinality(Openings(U, n + 1)) = Cardinality(Openings(V, n)) + 1
         /\ ~(OpenFrom(U, n + 1) /\ ~OpenFrom(V, n)) =>
              Cardinality(Openings(U, n + 1)) = Cardinality(Openings(V, n))
<1>1. \A m \in 0..n : OpenFrom(U, m) <=> OpenFrom(V, m)
  BY PastStays
<1>2. IsFiniteSet(Openings(V, n)) /\ Cardinality(Openings(V, n)) \in Nat /\ n + 1 \notin Openings(V, n)
  <2>1. IsFiniteSet(1..n)
    BY FS_Interval
  <2>2. Openings(V, n) \in SUBSET (1..n)
    BY DEF Openings
  <2>3. IsFiniteSet(Openings(V, n))
    BY <2>1, <2>2, FS_Subset
  <2> QED
    BY <2>2, <2>3, FS_CardinalityType
<1>3. \A m \in 1..n : m \in Openings(U, n + 1) <=> m \in Openings(V, n)
  <2>1. \A m \in 1..n : m \in 0..n /\ m - 1 \in 0..n /\ m \in 1..(n + 1)
    OBVIOUS
  <2> QED
    BY <1>1, <2>1 DEF Openings
<1>4. n + 1 \in Openings(U, n + 1) <=> OpenFrom(U, n + 1) /\ ~OpenFrom(V, n)
  <2>1. n \in 0..n /\ n + 1 - 1 = n /\ n + 1 \in 1..(n + 1)
    OBVIOUS
  <2> QED
    BY <1>1, <2>1 DEF Openings
<1>5. \A m : (m \in Openings(U, n + 1) => m \in 1..n \/ m = n + 1) /\ (m \in Openings(V, n) => m \in 1..n)
  BY DEF Openings
<1>6. CASE OpenFrom(U, n + 1) /\ ~OpenFrom(V, n)
  <2>1. Openings(U, n + 1) = Openings(V, n) \cup {n + 1}
    BY <1>3, <1>4, <1>5, <1>6
  <2>2. Cardinality(Openings(V, n) \cup {n + 1}) = Cardinality(Openings(V, n)) + 1
    BY <1>2, FS_AddElement
  <2> QED
    BY <1>2, <1>6, <2>1, <2>2
<1>7. CASE ~(OpenFrom(U, n + 1) /\ ~OpenFrom(V, n))
  <2>1. \A m : m \in Openings(U, n + 1) <=> m \in Openings(V, n)
    BY <1>3, <1>4, <1>5, <1>7
  <2>2. Openings(U, n + 1) = Openings(V, n)
    BY <2>1
  <2> QED
    BY <1>2, <1>7, <2>2
<1> QED
  BY <1>6, <1>7

-----------------------------------------------------------------------------
(***************************************************************************)
(* The state of the module in the place of the sets.                       *)
(***************************************************************************)
\* OpenAfter, of any frames.
OpenIn(w, n) ==
  \E k \in 1..n :
    /\ w[k]
    /\ Violations(Last(SubSeq(w, 1, k), Window)) >= MofN
    /\ \A e \in (k + 1)..n :
         \E q \in (e - ClearConsecutive + 1)..e : q <= k \/ w[q]

LEMMA OpenInIsOpenFrom ==
  ASSUME NEW w \in Seq(BOOLEAN), NEW n \in 0..Len(w)
  PROVE  OpenIn(w, n) <=> OpenFrom(Violating(w), n)
<1>1. /\ Len(w) \in Nat
      /\ \A k \in 1..n : k \in 1..Len(w) /\ (w[k] <=> k \in Violating(w))
  BY ViolatingFacts
<1>2. \A k \in 1..n :
        Violations(Last(SubSeq(w, 1, k), Window)) = Cardinality(HitsOf(Violating(w), 0, k))
  BY <1>1, WindowCount
<1>3. \A k \in 1..n : \A e \in (k + 1)..n : \A q \in (e - ClearConsecutive + 1)..e :
        (q <= k \/ w[q]) <=> (q <= k \/ q \in Violating(w))
  <2> SUFFICES ASSUME NEW k \in 1..n, NEW e \in (k + 1)..n,
                      NEW q \in (e - ClearConsecutive + 1)..e, ~(q <= k)
               PROVE  w[q] <=> q \in Violating(w)
    OBVIOUS
  <2>1. q \in 1..n
    BY <1>1
  <2> QED
    BY <1>1, <2>1
<1> QED
  BY ZenonT(30), <1>1, <1>2, <1>3 DEF OpenIn, OpenFrom

OpeningsIn(w) == {n \in 1..Len(w) : OpenIn(w, n) /\ ~OpenIn(w, n - 1)}

LEMMA OpeningsInIsOpenings ==
  ASSUME NEW w \in Seq(BOOLEAN)
  PROVE  OpeningsIn(w) = Openings(Violating(w), Len(w))
<1>1. Len(w) \in Nat /\ \A n \in 1..Len(w) : n \in 0..Len(w) /\ n - 1 \in 0..Len(w)
  BY LenProperties
<1> QED
  BY <1>1, OpenInIsOpenFrom DEF OpeningsIn, Openings

\* DebounceIsExact of any state.
Exact(w, open, count) ==
  /\ open <=> OpenFrom(Violating(w), Len(w))
  /\ count = Cardinality(Openings(Violating(w), Len(w)))

LEMMA ExactIn ==
  ASSUME NEW w \in Seq(BOOLEAN), NEW open, NEW count
  PROVE  Exact(w, open, count) <=>
           (open <=> OpenIn(w, Len(w))) /\ count = Cardinality(OpeningsIn(w))
<1>1. Len(w) \in 0..Len(w)
  BY LenProperties
<1> QED
  BY <1>1, OpenInIsOpenFrom, OpeningsInIsOpenings DEF Exact

\* DebouncerRemembers of any state: Hits, HistorySince, OpenedBy.
HitsIn(w, c, k) == {q \in 1..k : q > k - Window /\ q > c /\ w[q]}

HistoryIn(h, w, c) ==
  /\ Len(h) = IF Len(w) - c > Window THEN Window ELSE Len(w) - c
  /\ \A n \in DOMAIN h : h[n] = w[Len(w) - Len(h) + n]
  /\ c > 0 => c >= ClearConsecutive /\ \A q \in (c - ClearConsecutive + 1)..c : ~w[q]

OpenedIn(w, streak, c, k) ==
  /\ w[k] /\ Cardinality(HitsIn(w, c, k)) >= MofN
  /\ streak < ClearConsecutive /\ streak <= Len(w) - k
  /\ w[Len(w) - streak]
  /\ \A q \in (Len(w) - streak + 1)..Len(w) : ~w[q]
  /\ \A e \in (k + 1)..Len(w) :
       \E q \in (e - ClearConsecutive + 1)..e : q <= k \/ w[q]

RemembersIn(h, w, open, streak) ==
  \E c \in 0..Len(w) :
    /\ HistoryIn(h, w, c)
    /\ IF open THEN \E k \in (c + 1)..Len(w) : OpenedIn(w, streak, c, k)
               ELSE \A k \in (c + 1)..Len(w) : Cardinality(HitsIn(w, c, k)) < MofN

LEMMA HitsInAreHits ==
  ASSUME NEW w \in Seq(BOOLEAN), NEW k \in 1..Len(w), NEW c \in 0..Len(w)
  PROVE  HitsIn(w, c, k) = HitsOf(Violating(w), c, k)
<1>1. Len(w) \in Nat /\ \A q \in 1..Len(w) : w[q] <=> q \in Violating(w)
  BY ViolatingFacts
<1>2. \A q \in Violating(w) : q \in 1..Len(w)
  BY ViolatingFacts
<1>3. \A q : q \in HitsIn(w, c, k) <=> q \in 1..k /\ q > k - Window /\ q > c /\ w[q]
  BY DEF HitsIn
<1>4. \A q : q \in HitsOf(Violating(w), c, k) <=>
               q \in Violating(w) /\ q <= k /\ q > k - Window /\ q > c
  BY DEF HitsOf
<1>5. ASSUME NEW q PROVE q \in HitsIn(w, c, k) <=> q \in HitsOf(Violating(w), c, k)
  <2>1. CASE q \in 1..Len(w)
    <3>1. q \in 1..k <=> q <= k
      BY <1>1, <2>1
    <3> QED
      BY <1>1, <1>3, <1>4, <2>1, <3>1
  <2>2. CASE q \notin 1..Len(w)
    <3>1. q \notin 1..k
      BY <1>1, <2>2
    <3> QED
      BY <1>2, <1>3, <1>4, <2>2, <3>1
  <2> QED
    BY <2>1, <2>2
<1> QED
  BY <1>5

LEMMA HistoryInIsSince ==
  ASSUME NEW h \in Seq(BOOLEAN), NEW w \in Seq(BOOLEAN), NEW c \in 0..Len(w),
         Len(h) <= Len(w)
  PROVE  HistoryIn(h, w, c) <=> Since(Violating(w), Len(w), Violating(h), Len(h), c)
<1>1. /\ Len(w) \in Nat /\ Len(h) \in Nat /\ DOMAIN h = 1..Len(h)
      /\ \A q \in 1..Len(w) : w[q] \in BOOLEAN /\ (w[q] <=> q \in Violating(w))
      /\ \A q \in 1..Len(h) : h[q] \in BOOLEAN /\ (h[q] <=> q \in Violating(h))
  BY ViolatingFacts, ElementOfSeq
<1>2. ASSUME NEW n \in 1..Len(h)
      PROVE  h[n] = w[Len(w) - Len(h) + n] <=>
             (n \in Violating(h) <=> Len(w) - Len(h) + n \in Violating(w))
  <2>1. Len(w) - Len(h) + n \in 1..Len(w)
    BY <1>1
  <2> QED
    BY <1>1, <2>1
<1>3. c > 0 /\ c >= ClearConsecutive =>
        \A q \in (c - ClearConsecutive + 1)..c : w[q] <=> q \in Violating(w)
  <2>1. \A q \in (c - ClearConsecutive + 1)..c : c >= ClearConsecutive => q \in 1..Len(w)
    BY <1>1
  <2> QED
    BY <1>1, <2>1
<1> QED
  BY <1>1, <1>2, <1>3 DEF HistoryIn, Since

LEMMA OpenedInIsOpened ==
  ASSUME NEW w \in Seq(BOOLEAN), NEW streak \in Nat, NEW c \in 0..Len(w),
         NEW k \in (c + 1)..Len(w)
  PROVE  OpenedIn(w, streak, c, k) <=> Opened(Violating(w), Len(w), streak, c, k)
<1>1. /\ Len(w) \in Nat /\ k \in 1..Len(w)
      /\ \A q \in 1..Len(w) : w[q] <=> q \in Violating(w)
  BY ViolatingFacts
<1>2. HitsIn(w, c, k) = HitsOf(Violating(w), c, k)
  BY <1>1, HitsInAreHits
<1>3. streak <= Len(w) - k =>
        /\ Len(w) - streak \in 1..Len(w)
        /\ \A q \in (Len(w) - streak + 1)..Len(w) : q \in 1..Len(w)
  BY <1>1
<1>4. \A e \in (k + 1)..Len(w) : \A q \in (e - ClearConsecutive + 1)..e :
        (q <= k \/ w[q]) <=> (q <= k \/ q \in Violating(w))
  <2> SUFFICES ASSUME NEW e \in (k + 1)..Len(w),
                      NEW q \in (e - ClearConsecutive + 1)..e, ~(q <= k)
               PROVE  w[q] <=> q \in Violating(w)
    OBVIOUS
  <2>1. q \in 1..Len(w)
    BY <1>1
  <2> QED
    BY <1>1, <2>1
<1> QED
  BY <1>1, <1>2, <1>3, <1>4 DEF OpenedIn, Opened

LEMMA RemembersInIsRemembers ==
  ASSUME NEW h \in Seq(BOOLEAN), NEW w \in Seq(BOOLEAN), NEW open \in BOOLEAN,
         NEW streak \in Nat
  PROVE  RemembersIn(h, w, open, streak) <=>
           Remembers(Violating(w), Len(w), Violating(h), Len(h), open, streak)
<1>1. Len(w) \in Nat /\ Len(h) \in Nat
  BY LenProperties
<1>2. ASSUME NEW c \in 0..Len(w)
      PROVE  HistoryIn(h, w, c) <=> Since(Violating(w), Len(w), Violating(h), Len(h), c)
  <2>1. CASE Len(h) <= Len(w)
    BY <2>1, HistoryInIsSince
  <2>2. CASE ~(Len(h) <= Len(w))
    BY <1>1, <2>2 DEF HistoryIn, Since
  <2> QED
    BY <2>1, <2>2
<1>3. \A c \in 0..Len(w) : \A k \in (c + 1)..Len(w) :
        /\ OpenedIn(w, streak, c, k) <=> Opened(Violating(w), Len(w), streak, c, k)
        /\ HitsIn(w, c, k) = HitsOf(Violating(w), c, k)
  <2>1. ASSUME NEW c \in 0..Len(w), NEW k \in (c + 1)..Len(w)
        PROVE  /\ OpenedIn(w, streak, c, k) <=> Opened(Violating(w), Len(w), streak, c, k)
               /\ HitsIn(w, c, k) = HitsOf(Violating(w), c, k)
    <3>1. k \in 1..Len(w)
      BY <1>1
    <3> QED
      BY <3>1, OpenedInIsOpened, HitsInAreHits
  <2> QED
    BY <2>1
<1> QED
  BY <1>2, <1>3 DEF RemembersIn, Remembers, Closed

LEMMA StateReads ==
  /\ DebouncerRemembers <=> RemembersIn(history, seen, isOpen, clearStreak)
  /\ DebounceIsExact <=>
       /\ isOpen <=> OpenIn(seen, Len(seen))
       /\ anomalies + (IF engine = "publish" THEN 1 ELSE 0) = Cardinality(OpeningsIn(seen))
BY DEF DebouncerRemembers, RemembersIn, HistorySince, HistoryIn, OpenedBy, OpenedIn, Hits, HitsIn,
   DebounceIsExact, OpenAfter, OpenIn, OpeningsIn

LEMMA StateReadsNext ==
  /\ DebouncerRemembers' <=> RemembersIn(history', seen', isOpen', clearStreak')
  /\ DebounceIsExact' <=>
       /\ isOpen' <=> OpenIn(seen', Len(seen'))
       /\ anomalies' + (IF engine' = "publish" THEN 1 ELSE 0) = Cardinality(OpeningsIn(seen'))
BY DEF DebouncerRemembers, RemembersIn, HistorySince, HistoryIn, OpenedBy, OpenedIn, Hits, HitsIn,
   DebounceIsExact, OpenAfter, OpenIn, OpeningsIn

-----------------------------------------------------------------------------
(***************************************************************************)
(* The steps of the debouncer.                                             *)
(***************************************************************************)
LEMMA NothingSeen ==
  ASSUME history = <<>>, seen = <<>>, isOpen = FALSE, clearStreak = 0, anomalies = 0,
         engine = "frame"
  PROVE  DebouncerRemembers /\ DebounceIsExact
<1>1. Len(seen) = 0 /\ Len(history) = 0 /\ DOMAIN history = {}
  OBVIOUS
<1>2. HistorySince(0)
  BY <1>1 DEF HistorySince
<1>3. DebouncerRemembers
  BY <1>1, <1>2 DEF DebouncerRemembers
<1>4. ~OpenAfter(Len(seen))
  BY <1>1 DEF OpenAfter
<1>5. {n \in 1..Len(seen) : OpenAfter(n) /\ ~OpenAfter(n - 1)} = {}
  BY <1>1
<1>6. DebounceIsExact
  BY <1>4, <1>5, FS_EmptySet DEF DebounceIsExact
<1> QED
  BY <1>3, <1>6

LEMMA NothingSeenNext ==
  ASSUME history' = <<>>, seen' = <<>>, isOpen' = FALSE, clearStreak' = 0, anomalies' = 0,
         engine' = "frame"
  PROVE  DebouncerRemembers' /\ DebounceIsExact'
<1>1. Len(seen') = 0 /\ Len(history') = 0 /\ DOMAIN history' = {}
  OBVIOUS
<1>2. HistorySince(0)'
  BY <1>1 DEF HistorySince
<1>3. DebouncerRemembers'
  BY <1>1, <1>2 DEF DebouncerRemembers, HistorySince
<1>4. ~OpenIn(seen', Len(seen'))
  BY <1>1 DEF OpenIn
<1>5. OpeningsIn(seen') = {}
  BY <1>1 DEF OpeningsIn
<1>6. Cardinality(OpeningsIn(seen')) = 0
  BY <1>5, FS_EmptySet
<1>7. DebounceIsExact'
  BY <1>4, <1>6, StateReadsNext
<1> QED
  BY <1>3, <1>7

LEMMA ObserveIsExact ==
  ASSUME DebouncerTypeOK, DebouncerTypeOK', DebouncerRemembers, DebounceIsExact,
         engine = "frame", anomalies' = anomalies, NEW v \in BOOLEAN, Observe(v)
  PROVE  DebouncerRemembers' /\ DebounceIsExact'
<1>1. /\ history \in Seq(BOOLEAN) /\ seen \in Seq(BOOLEAN) /\ isOpen \in BOOLEAN
      /\ clearStreak \in Nat /\ anomalies \in Nat
      /\ history' \in Seq(BOOLEAN) /\ seen' \in Seq(BOOLEAN) /\ isOpen' \in BOOLEAN
      /\ clearStreak' \in Nat
  BY DEF DebouncerTypeOK
<1>2. PICK n \in Nat : n = Len(seen)
  BY <1>1, LenProperties
<1>3. PICK len \in Nat : len = Len(history)
  BY <1>1, LenProperties
<1>4. PICK V : V = Violating(seen)
  OBVIOUS
<1>5. PICK H : H = Violating(history)
  OBVIOUS
<1>6. V \in SUBSET (1..n) /\ H \in SUBSET (1..len)
  BY <1>1, <1>2, <1>3, <1>4, <1>5, ViolatingFacts
<1>7. Remembers(V, n, H, len, isOpen, clearStreak)
  BY <1>1, <1>2, <1>3, <1>4, <1>5, StateReads, RemembersInIsRemembers
<1>8. (isOpen <=> OpenFrom(V, n)) /\ anomalies = Cardinality(Openings(V, n))
  <2>1. Exact(seen, isOpen, anomalies)
    BY <1>1, StateReads, ExactIn
  <2> QED
    BY <1>2, <1>4, <2>1 DEF Exact
<1>9. PICK a : a = Append(history, v)
  OBVIOUS
<1>10. PICK h : h = Last(a, Window)
  OBVIOUS
<1>11. PICK G : G = Violating(a)
  OBVIOUS
<1>12. PICK U : U = Violating(seen')
  OBVIOUS
<1>13. seen' = Append(seen, v)
  BY DEF Observe
<1>14. Adds(U, V, n, v) /\ Len(seen') = n + 1
  <2>1. /\ Len(seen') = n + 1
        /\ v => U = V \cup {n + 1}
        /\ ~v => U = V
    BY <1>1, <1>2, <1>4, <1>12, <1>13, ViolatingAppend
  <2>2. \A q \in V : q \in 1..n
    BY <1>6
  <2> QED
    BY <2>1, <2>2 DEF Adds
<1>15. Adds(G, H, len, v) /\ a \in Seq(BOOLEAN) /\ Len(a) = len + 1
  <2>1. /\ a \in Seq(BOOLEAN) /\ Len(a) = len + 1
        /\ v => G = H \cup {len + 1}
        /\ ~v => G = H
    BY <1>1, <1>3, <1>5, <1>9, <1>11, ViolatingAppend
  <2>2. \A q \in H : q \in 1..len
    BY <1>6
  <2> QED
    BY <2>1, <2>2 DEF Adds
<1>16. h \in Seq(BOOLEAN) /\ Cut(Violating(h), Len(h), G, len + 1)
  <2>1. /\ h \in Seq(BOOLEAN)
        /\ Len(h) = IF len + 1 > Window THEN Window ELSE len + 1
        /\ \A i \in 1..Len(h) : i \in Violating(h) <=> len + 1 - Len(h) + i \in G
    <3>1. /\ h \in Seq(BOOLEAN)
          /\ Len(h) = IF Len(a) > Window THEN Window ELSE Len(a)
          /\ \A i \in 1..Len(h) : i \in Violating(h) <=> Len(a) - Len(h) + i \in Violating(a)
      BY <1>10, <1>15, ViolatingLast
    <3> QED
      BY <1>11, <1>15, <3>1
  <2>2. Violating(h) \in SUBSET (1..Len(h))
    BY <2>1, ViolatingFacts
  <2> QED
    BY <2>1, <2>2 DEF Cut
<1>17. PICK len2 \in Nat : len2 = Len(h)
  BY <1>16, LenProperties
<1>18. PICK H2 : H2 = Violating(h)
  OBVIOUS
<1>19. PICK opens \in BOOLEAN : opens <=> ~isOpen /\ Cardinality(H2) >= MofN
  OBVIOUS
<1>20. PICK after \in Nat : after = Streak(v) /\ after = IF v THEN 0 ELSE clearStreak + 1
  BY <1>1 DEF Streak
<1>21. PICK clears \in BOOLEAN : clears <=> isOpen /\ after >= ClearConsecutive
  OBVIOUS
<1>22. PICK H3 : H3 = Violating(history')
  OBVIOUS
<1>23. /\ isOpen' = ((isOpen \/ opens) /\ ~clears)
       /\ H3 = IF clears THEN {} ELSE H2
       /\ Len(history') = IF clears THEN 0 ELSE len2
       /\ clearStreak' = IF opens \/ clears THEN 0 ELSE after
       /\ engine' = IF opens THEN "publish" ELSE "frame"
  <2>1. Violations(h) = Cardinality(H2)
    BY <1>18 DEF Violations, Violating
  <2>2. /\ isOpen' = ((isOpen \/ opens) /\ ~clears)
        /\ history' = IF clears THEN <<>> ELSE h
        /\ clearStreak' = IF opens \/ clears THEN 0 ELSE after
        /\ engine' = IF opens THEN "publish" ELSE "frame"
    BY <1>9, <1>10, <1>19, <1>20, <1>21, <2>1 DEF Observe
  <2>3. Violating(<<>>) = {} /\ Len(<<>>) = 0
    BY DEF Violating
  <2>4. CASE clears
    <3>1. history' = <<>>
      BY <2>2, <2>4
    <3>2. H3 = {} /\ Len(history') = 0
      BY <1>22, <2>3, <3>1
    <3> QED
      BY <2>2, <2>4, <3>2
  <2>5. CASE ~clears
    <3>1. history' = h
      BY <2>2, <2>5
    <3>2. H3 = H2 /\ Len(history') = len2
      BY <1>17, <1>18, <1>22, <3>1
    <3> QED
      BY <2>2, <2>5, <3>2
  <2> QED
    BY <2>4, <2>5
<1>24. Remembers(U, n + 1, H3, Len(history'), isOpen', clearStreak')
  <2>1. PICK open \in BOOLEAN : open = isOpen
    BY <1>1
  <2>2. PICK streak \in Nat : streak = clearStreak
    BY <1>1
  <2>3. PICK open3 \in BOOLEAN : open3 = isOpen'
    BY <1>1
  <2>4. PICK len3 : len3 = Len(history')
    OBVIOUS
  <2>5. PICK streak3 : streak3 = clearStreak'
    OBVIOUS
  <2>6. /\ Remembers(V, n, H, len, open, streak)
        /\ Adds(U, V, n, v) /\ Adds(G, H, len, v) /\ Cut(H2, len2, G, len + 1)
        /\ V \in SUBSET (1..n) /\ H \in SUBSET (1..len)
    BY <1>6, <1>7, <1>14, <1>15, <1>16, <1>17, <1>18, <2>1, <2>2
  <2>7. Decides(V, n, H, len, open, streak, v, U, G, H2, len2, after, opens, clears,
                H3, len3, open3, streak3)
    BY <1>19, <1>20, <1>21, <1>23, <2>1, <2>2, <2>3, <2>4, <2>5, <2>6 DEF Decides
  <2>8. Remembers(U, n + 1, H3, len3, open3, streak3)
    BY <2>6, <2>7, ObserveRemembers
  <2> QED
    BY <2>3, <2>4, <2>5, <2>8
<1>25. DebouncerRemembers'
  BY <1>1, <1>12, <1>14, <1>22, <1>24, StateReadsNext, RemembersInIsRemembers
<1>26. U \in SUBSET (1..(n + 1)) /\ \A q \in 1..n : q \in U <=> q \in V
  BY <1>14 DEF Adds
<1>27. isOpen' <=> OpenFrom(U, n + 1)
  <2>1. n + 1 \in Nat
    OBVIOUS
  <2> QED
    BY <1>1, <1>24, <1>26, <2>1, OpenIsExact
<1>28. OpenFrom(U, n + 1) /\ ~OpenFrom(V, n) <=> opens
  BY <1>8, <1>19, <1>21, <1>23, <1>27
<1>29. anomalies' + (IF engine' = "publish" THEN 1 ELSE 0) = Cardinality(Openings(U, n + 1))
  <2>1. /\ Cardinality(Openings(V, n)) \in Nat
        /\ opens => Cardinality(Openings(U, n + 1)) = Cardinality(Openings(V, n)) + 1
        /\ ~opens => Cardinality(Openings(U, n + 1)) = Cardinality(Openings(V, n))
    BY <1>6, <1>26, <1>28, OpeningsGrow
  <2>2. (IF engine' = "publish" THEN 1 ELSE 0) = IF opens THEN 1 ELSE 0
    BY <1>23
  <2> QED
    BY <1>8, <2>1, <2>2
<1>30. DebounceIsExact'
  <2>1. Exact(seen', isOpen', anomalies' + (IF engine' = "publish" THEN 1 ELSE 0))
    BY <1>12, <1>14, <1>27, <1>29 DEF Exact
  <2> QED
    BY <1>1, <2>1, StateReadsNext, ExactIn
<1> QED
  BY <1>25, <1>30

LEMMA DebounceUnchanged ==
  ASSUME UNCHANGED <<history, isOpen, clearStreak, seen>>,
         anomalies' + (IF engine' = "publish" THEN 1 ELSE 0) =
           anomalies + (IF engine = "publish" THEN 1 ELSE 0),
         DebouncerRemembers, DebounceIsExact
  PROVE  DebouncerRemembers' /\ DebounceIsExact'
BY StateReads, StateReadsNext

LEMMA DebounceStep ==
  ASSUME TypeOK, TypeOK', DebouncerRemembers, DebounceIsExact, [Next]_vars
  PROVE  DebouncerRemembers' /\ DebounceIsExact'
<1>1. DebouncerTypeOK /\ DebouncerTypeOK'
  BY DEF TypeOK
<1>2. CASE UNCHANGED <<history, isOpen, clearStreak, seen, anomalies, engine>>
  BY <1>2, DebounceUnchanged
<1>3. CASE Frame
  <2>1. CASE UNCHANGED <<history, isOpen, clearStreak, seen, engine>>
    BY <1>3, <2>1, DebounceUnchanged DEF Frame
  <2>2. CASE ~UNCHANGED <<history, isOpen, clearStreak, seen, engine>>
    <3>1. engine = "frame" /\ anomalies' = anomalies /\ \E v \in BOOLEAN : Observe(v)
      BY <1>3, <2>2 DEF Frame
    <3>2. PICK v \in BOOLEAN : Observe(v)
      BY <3>1
    <3> QED
      BY <1>1, <3>1, <3>2, ObserveIsExact
  <2> QED
    BY <2>1, <2>2
<1>4. CASE PublishAnomaly
  <2>1. anomalies \in Nat
    BY <1>1 DEF DebouncerTypeOK
  <2> QED
    BY <1>4, <2>1, DebounceUnchanged DEF PublishAnomaly
<1>5. CASE EdgeRestarts
  BY <1>5, NothingSeenNext DEF EdgeRestarts
<1>6. CASE Hub \/ Worker \/ Drain \/ DrainLoses \/ UNCHANGED vars
  BY <1>2, <1>6 DEF Hub, Worker, Store, Republish, RepublishFails, CommitOffset, WorkerRestarts,
     Drain, DrainLoses, vars, edgeVars
<1> QED
  BY <1>3, <1>4, <1>5, <1>6 DEF Next, Edge

-----------------------------------------------------------------------------
(***************************************************************************)
(* The invariant and what follows from it.                                 *)
(***************************************************************************)
LEMMA IInvInit == Init => IInv
<1> SUFFICES ASSUME Init PROVE IInv
  OBVIOUS
<1>1. TypeOK
  BY TypesInit
<1>2. HubInv
  BY HubInitInv DEF Init
<1>3. DOMAIN topic = {} /\ DOMAIN queue = {}
  BY DEF Init
<1>4. WorkerHasTick /\ MessagesAreInOrder
  BY <1>3 DEF Init, WorkerHasTick, MessagesAreInOrder, Ascending
<1>5. TicksAreCounted
  BY <1>3 DEF Init, TicksAreCounted, Kept
<1>6. NothingOvertakes
  <2>1. \A g \in Tasks : task[g] # "running"
    BY DEF Init, HubInit
  <2>2. NothingAfter(numbered)
    BY <2>1 DEF NothingAfter, Init, HubInit, None
  <2> QED
    BY <1>3, <2>1, <2>2 DEF NothingOvertakes
<1>7. DebouncerRemembers /\ DebounceIsExact
  BY NothingSeen DEF Init
<1> QED
  BY <1>1, <1>2, <1>4, <1>5, <1>6, <1>7 DEF IInv

LEMMA IInvStep == IInv /\ [Next]_vars => IInv'
<1> SUFFICES ASSUME IInv, [Next]_vars PROVE IInv'
  OBVIOUS
<1> USE DEF IInv
<1>1. TypeOK'
  BY TypesStep
<1>2. HubInv'
  BY HubInvStep
<1>3. WorkerHasTick'
  BY TickStep
<1>4. MessagesAreInOrder'
  BY OrderStep
<1>5. TicksAreCounted'
  BY TicksStep
<1>6. NothingOvertakes'
  BY OvertakeStep
<1>7. DebouncerRemembers' /\ DebounceIsExact'
  BY <1>1, DebounceStep
<1> QED
  BY <1>1, <1>2, <1>3, <1>4, <1>5, <1>6, <1>7

\* The strengthened invariant holds in every behaviour.
THEOREM InductiveInvariant == Spec => []IInv
BY IInvInit, IInvStep, PTL DEF Spec

\* No queue is longer than its bound, and the heatmap worker is never behind the
\* offset it has committed.
THEOREM TypeCorrect == Spec => []TypeOK
<1>1. IInv => TypeOK
  BY DEF IInv
<1> QED
  BY <1>1, InductiveInvariant, PTL

\* A browser that its handler has added, and that nobody found dead, has a relay on a
\* live subscription, unless that relay crashed: whatever the order in which browsers
\* come, go and die while add, remove and the relay wait.
THEOREM SocketsAreServed == Spec => []AddedIsServed
<1>1. IInv => AddedIsServed
  BY InvariantServes DEF IInv
<1> QED
  BY <1>1, InductiveInvariant, PTL

\* When every handler is through, no relay runs, Redis holds no subscription and the
\* hub has no socket left.
THEOREM NothingStays == Spec => []NothingLeftBehind
<1>1. IInv => NothingLeftBehind
  BY InvariantCleansUp DEF IInv
<1> QED
  BY <1>1, InductiveInvariant, PTL

\* Ticks below the committed offset are in the database, and none more often than
\* the worker was made to start over.
THEOREM TicksStored == Spec => []TicksAreStored
<1>1. IInv => TicksAreStored
  BY InvariantStores DEF IInv
<1> QED
  BY <1>1, InductiveInvariant, PTL

\* The incremental debouncer agrees with the reading of all frames, and Kafka has one
\* anomaly for each opening.
THEOREM DebouncerExact == Spec => []DebounceIsExact
<1>1. IInv => DebounceIsExact
  BY DEF IInv
<1> QED
  BY <1>1, InductiveInvariant, PTL

\* No browser goes back to an older overlay, after whatever faults; heatmaps are held to
\* it until the first one.
THEOREM GoesForward == Spec => OverlayGoesForward
<1>1. IInv /\ [Next]_vars =>
        [\A s \in Sockets : shown'[s] >= shown[s] \/ (kind = "heatmap" /\ faults > 0)]_vars
  BY ForwardStep DEF IInv
<1> QED
  BY <1>1, InductiveInvariant, PTL DEF Spec, OverlayGoesForward
=============================================================================
