--------------------------- MODULE RelayHubProofs ---------------------------
(***************************************************************************)
(* What a relay hub guarantees for any number of connections that come and *)
(* go, and any number of failed subscribes and crashed relays: a socket is *)
(* never left without its relay, and no relay or subscription is left      *)
(* behind.                                                                 *)
(***************************************************************************)
EXTENDS RelayHub, FiniteSetTheorems, SequenceTheorems, TLAPS

USE RelayHubAssumption

-----------------------------------------------------------------------------
(***************************************************************************)
(* Tasks are numbered, and there is a number for every connection.         *)
(***************************************************************************)
LEMMA TasksAreNumbers ==
  /\ Cardinality(Sockets) \in Nat
  /\ Tasks \subseteq Nat /\ None \notin Tasks
  /\ \A n \in Nat : n \in Tasks <=> n # None /\ n <= Cardinality(Sockets)
BY FS_CardinalityType DEF Tasks, None

\* A started number is one of a task, and so is the next one while a connection has
\* still to be added.
LEMMA NumbersSuffice ==
  ASSUME HubTypeOK, StartsAreCounted
  PROVE  /\ IsFiniteSet(Added) /\ Cardinality(Added) \in Nat
         /\ \A s \in Sockets : s \notin Added =>
              /\ started + 1 \in Tasks
              /\ IsFiniteSet(Added \cup {s})
              /\ started + 1 <= Cardinality(Added \cup {s})
<1>1. Added \in SUBSET Sockets
  BY DEF Added
<1>2. IsFiniteSet(Added) /\ Cardinality(Added) \in Nat
  BY <1>1, FS_Subset, FS_CardinalityType
<1>3. started \in Nat /\ started <= Cardinality(Added)
  BY TasksAreNumbers DEF HubTypeOK, StartsAreCounted, None
<1>4. ASSUME NEW s \in Sockets, s \notin Added
      PROVE  /\ started + 1 \in Tasks
             /\ IsFiniteSet(Added \cup {s})
             /\ started + 1 <= Cardinality(Added \cup {s})
  <2>1. IsFiniteSet(Added \cup {s}) /\ Cardinality(Added \cup {s}) = Cardinality(Added) + 1
    BY <1>2, <1>4, FS_AddElement
  <2>2. Cardinality(Added \cup {s}) <= Cardinality(Sockets)
    <3>1. Added \cup {s} \in SUBSET Sockets
      BY <1>1
    <3> QED
      BY <3>1, FS_Subset
  <2> QED
    BY <1>2, <1>3, <2>1, <2>2, TasksAreNumbers DEF None
<1> QED
  BY <1>2, <1>4

\* Connections that are added stay so; the count of started tasks only moves in add.
LEMMA CountsStay ==
  ASSUME HubTypeOK, StartsAreCounted, started' = started, Added \subseteq Added'
  PROVE  StartsAreCounted'
<1>1. Added' \in SUBSET Sockets
  BY DEF Added
<1>2. IsFiniteSet(Added') /\ Cardinality(Added') \in Nat
  BY <1>1, FS_Subset, FS_CardinalityType
<1>3. Cardinality(Added) \in Nat /\ Cardinality(Added) <= Cardinality(Added')
  BY <1>2, FS_Subset, NumbersSuffice
<1>4. started \in Nat
  BY TasksAreNumbers DEF HubTypeOK, None
<1> QED
  BY <1>2, <1>3, <1>4 DEF StartsAreCounted

-----------------------------------------------------------------------------
(***************************************************************************)
(* The hub's invariant, action by action.                                  *)
(***************************************************************************)
LEMMA HubInitInv == HubInit => HubInv
<1> SUFFICES ASSUME HubInit PROVE HubInv
  OBVIOUS
<1>1. HubTypeOK
  BY TasksAreNumbers DEF HubInit, HubTypeOK, None
<1>2. StartsAreCounted
  <2>1. Added = {}
    BY DEF HubInit, Added
  <2> QED
    BY <2>1, FS_EmptySet DEF HubInit, StartsAreCounted
<1>3. OneHandlerLocks /\ NumbersAreFresh /\ OneRelay /\ SocketsAreHandled
  BY DEF HubInit, OneHandlerLocks, Holding, NumbersAreFresh, OneRelay, SocketsAreHandled
<1> QED
  BY <1>1, <1>2, <1>3 DEF HubInv

\* A step that leaves the hub alone.
LEMMA HubStutters == HubInv /\ UNCHANGED hubVars => HubInv'
BY DEF HubInv, hubVars, HubTypeOK, OneHandlerLocks, Holding, StartsAreCounted, Added,
       NumbersAreFresh, OneRelay, Locked, SocketsAreHandled

LEMMA AcceptKeepsHubInv == \A s \in Sockets : HubInv /\ Accept(s) => HubInv'
<1> SUFFICES ASSUME NEW s \in Sockets, HubInv, Accept(s) PROVE HubInv'
  OBVIOUS
<1> USE DEF HubInv
<1>1. HubTypeOK'
  BY DEF Accept, relayVars, HubTypeOK
<1>2. Holding' = Holding
  BY DEF Accept, Holding, HubTypeOK
<1>3. StartsAreCounted'
  <2>1. Added \subseteq Added'
    BY DEF Accept, Added, HubTypeOK
  <2> QED
    BY <1>1, <2>1, CountsStay DEF Accept, HubTypeOK
<1>4. OneHandlerLocks'
  BY <1>2 DEF OneHandlerLocks
<1>5. NumbersAreFresh'
  BY DEF Accept, relayVars, NumbersAreFresh, HubTypeOK
<1>6. OneRelay'
  BY <1>2 DEF Accept, relayVars, OneRelay, Locked, HubTypeOK
<1>7. SocketsAreHandled'
  BY DEF Accept, SocketsAreHandled, HubTypeOK
<1> QED
  BY <1>1, <1>3, <1>4, <1>5, <1>6, <1>7

LEMMA AddKeepsHubInv == \A s \in Sockets : HubInv /\ Add(s) => HubInv'
<1> SUFFICES ASSUME NEW s \in Sockets, HubInv, Add(s) PROVE HubInv'
  OBVIOUS
<1> USE DEF HubInv
<1>1. s \notin Added /\ Added' = Added \cup {s}
  BY DEF Add, Added, HubTypeOK
<1>2. started' \in {started, started + 1} /\ (NeedsRelay => started' = started + 1)
      /\ (~NeedsRelay => started' = started)
  BY DEF Add
<1>3. started + 1 \in Tasks
  BY <1>1, NumbersSuffice
<1>4. HubTypeOK'
  BY <1>2, <1>3 DEF Add, relayVars, HubTypeOK
<1>5. StartsAreCounted'
  <2>1. CASE started' = started
    BY <1>1, <2>1, CountsStay
  <2>2. CASE started' = started + 1
    BY <1>1, <2>2, NumbersSuffice DEF StartsAreCounted
  <2> QED
    BY <1>2, <2>1, <2>2
<1>6. OneHandlerLocks'
  BY DEF Add, OneHandlerLocks, Holding, Locked, HubTypeOK
<1>7. NeedsRelay => \A g \in Tasks : task[g] # "running"
  BY TasksAreNumbers DEF NeedsRelay, OneRelay, HubTypeOK
<1>8. CASE NeedsRelay
  <2>1. subs = {}
    BY <1>7, <1>8 DEF Add, OneRelay, Locked, Holding, HubTypeOK
  <2>2. NumbersAreFresh'
    <3>1. started \in Nat
      BY TasksAreNumbers DEF HubTypeOK, None
    <3>2. started' = started + 1 /\ started' # None /\ task' = task /\ subs' = subs /\ inbox' = inbox
      BY <1>3, <1>8, TasksAreNumbers DEF Add, relayVars
    <3>3. \A g \in Tasks : g > started => task[g] = "none"
      BY DEF NumbersAreFresh
    <3>4. started' \in Tasks /\ task'[started'] = "none"
      BY <1>3, <3>1, <3>2, <3>3
    <3>5. \A g \in Tasks : g > started' => task'[g] = "none"
      BY <3>1, <3>2, <3>3, TasksAreNumbers
    <3> QED
      BY <3>2, <3>4, <3>5 DEF NumbersAreFresh
  <2>3. OneRelay'
    BY <1>7, <2>1 DEF Add, relayVars, OneRelay
  <2>4. SocketsAreHandled'
    BY <1>7, <1>8 DEF Add, SocketsAreHandled, HubTypeOK
  <2> QED
    BY <1>4, <1>5, <1>6, <2>2, <2>3, <2>4
<1>9. CASE ~NeedsRelay
  <2>1. NumbersAreFresh'
    BY <1>9 DEF Add, relayVars, NumbersAreFresh, HubTypeOK
  <2>2. OneRelay'
    BY <1>9 DEF Add, relayVars, OneRelay, Locked, Holding, HubTypeOK
  <2>3. SocketsAreHandled'
    BY <1>9 DEF Add, NeedsRelay, SocketsAreHandled, HubTypeOK
  <2> QED
    BY <1>4, <1>5, <1>6, <2>1, <2>2, <2>3
<1> QED
  BY <1>8, <1>9

LEMMA SubscribeKeepsHubInv == \A s \in Sockets : HubInv /\ Subscribe(s) => HubInv'
<1> SUFFICES ASSUME NEW s \in Sockets, HubInv, Subscribe(s) PROVE HubInv'
  OBVIOUS
<1> USE DEF HubInv
<1>1. started \in Tasks /\ started # None /\ task[started] = "none"
  BY DEF Subscribe, NumbersAreFresh, HubTypeOK
<1>2. Holding = {s} /\ Holding' = {}
  BY DEF Subscribe, OneHandlerLocks, Holding, HubTypeOK
<1>3. subs = {} /\ \A g \in Tasks : task[g] # "running"
  BY <1>2 DEF Subscribe, OneRelay, Locked, Holding, HubTypeOK
<1>4. HubTypeOK'
  BY <1>1 DEF Subscribe, relayVars, HubTypeOK
<1>5. StartsAreCounted'
  <2>1. Added \subseteq Added'
    BY DEF Subscribe, Added, HubTypeOK
  <2> QED
    BY <2>1, CountsStay DEF Subscribe
<1>6. OneHandlerLocks'
  BY <1>2 DEF OneHandlerLocks
<1>7. NumbersAreFresh'
  <2>1. \A g \in Tasks : g > started => task'[g] = "none"
    BY <1>1, TasksAreNumbers DEF Subscribe, NumbersAreFresh, HubTypeOK
  <2> QED
    BY <1>1, <1>2, <2>1 DEF Subscribe, relayVars, NumbersAreFresh, HubTypeOK, Holding
<1>8. OneRelay'
  BY <1>1, <1>2, <1>3 DEF Subscribe, relayVars, OneRelay, Locked, HubTypeOK
<1>9. SocketsAreHandled'
  BY <1>1 DEF Subscribe, SocketsAreHandled, HubTypeOK
<1> QED
  BY <1>4, <1>5, <1>6, <1>7, <1>8, <1>9

LEMMA SubscribeFailsKeepsHubInv == \A s \in Sockets : HubInv /\ SubscribeFails(s) => HubInv'
<1> SUFFICES ASSUME NEW s \in Sockets, HubInv, SubscribeFails(s) PROVE HubInv'
  OBVIOUS
<1> USE DEF HubInv
<1>1. Holding = {s} /\ Holding' = {}
  BY DEF SubscribeFails, OneHandlerLocks, Holding, HubTypeOK
<1>2. subs = {} /\ \A g \in Tasks : task[g] # "running"
  BY <1>1 DEF SubscribeFails, OneRelay, Locked, Holding, HubTypeOK
<1>3. HubTypeOK'
  BY DEF SubscribeFails, relayVars, HubTypeOK
<1>4. StartsAreCounted'
  <2>1. Added \subseteq Added'
    BY DEF SubscribeFails, Added, HubTypeOK
  <2> QED
    BY <2>1, CountsStay DEF SubscribeFails
<1>5. OneHandlerLocks'
  BY <1>1 DEF OneHandlerLocks
<1>6. NumbersAreFresh'
  BY <1>1 DEF SubscribeFails, relayVars, NumbersAreFresh, HubTypeOK, Holding
<1>7. OneRelay'
  BY <1>2 DEF SubscribeFails, relayVars, OneRelay
<1>8. SocketsAreHandled'
  BY <1>2 DEF SubscribeFails, SocketsAreHandled, HubTypeOK
<1> QED
  BY <1>3, <1>4, <1>5, <1>6, <1>7, <1>8

LEMMA LeaveKeepsHubInv == \A s \in Sockets : HubInv /\ Leave(s) => HubInv'
<1> SUFFICES ASSUME NEW s \in Sockets, HubInv, Leave(s) PROVE HubInv'
  OBVIOUS
<1> QED
  BY DEF HubInv, Leave, relayVars, HubTypeOK, OneHandlerLocks, Holding, StartsAreCounted, Added,
         NumbersAreFresh, OneRelay, Locked, SocketsAreHandled

LEMMA DisconnectKeepsHubInv == \A s \in Sockets : HubInv /\ Disconnect(s) => HubInv'
<1> SUFFICES ASSUME NEW s \in Sockets, HubInv, Disconnect(s) PROVE HubInv'
  OBVIOUS
<1> USE DEF HubInv
<1>1. HubTypeOK'
  BY DEF Disconnect, relayVars, HubTypeOK
<1>2. Holding' = Holding
  BY DEF Disconnect, Holding, HubTypeOK
<1>3. StartsAreCounted'
  <2>1. Added \subseteq Added'
    BY DEF Disconnect, Added, HubTypeOK
  <2> QED
    BY <2>1, CountsStay DEF Disconnect
<1>4. OneHandlerLocks'
  BY <1>2 DEF OneHandlerLocks
<1>5. NumbersAreFresh'
  BY DEF Disconnect, relayVars, NumbersAreFresh, HubTypeOK
<1>6. OneRelay'
  BY <1>2 DEF Disconnect, relayVars, OneRelay, Locked, HubTypeOK
<1>7. SocketsAreHandled'
  BY DEF Disconnect, SocketsAreHandled, HubTypeOK
<1> QED
  BY <1>1, <1>3, <1>4, <1>5, <1>6, <1>7

LEMMA RemoveKeepsHubInv == \A s \in Sockets : HubInv /\ Remove(s) => HubInv'
<1> SUFFICES ASSUME NEW s \in Sockets, HubInv, Remove(s) PROVE HubInv'
  OBVIOUS
<1> USE DEF HubInv
<1>1. HubTypeOK'
  <2>1. CASE EmptyWithout(s)
    <3>1. task' \in [Tasks -> {"none", "running", "crashed", "cancelled"}]
      BY <2>1 DEF Remove, HubTypeOK
    <3>2. /\ frame' \in [Tasks -> Nat]
          /\ todo' \in [Tasks -> SUBSET Sockets] /\ dead' \in [Tasks -> SUBSET Sockets]
          /\ \A g \in Tasks : frame'[g] = None => todo'[g] = {} /\ dead'[g] = {}
      <4>1. /\ frame' = [g \in Tasks |-> IF g = relay THEN None ELSE frame[g]]
            /\ todo' = [g \in Tasks |-> IF g = relay THEN {} ELSE todo[g]]
            /\ dead' = [g \in Tasks |-> IF g = relay THEN {} ELSE dead[g]]
        BY <2>1 DEF Remove
      <4>2. /\ frame \in [Tasks -> Nat]
            /\ todo \in [Tasks -> SUBSET Sockets] /\ dead \in [Tasks -> SUBSET Sockets]
            /\ \A g \in Tasks : frame[g] = None => todo[g] = {} /\ dead[g] = {}
        BY DEF HubTypeOK
      <4> QED
        BY <4>1, <4>2 DEF None
    <3>3. relay' \in Tasks \cup {None} /\ sockets' \subseteq Sockets
      BY <2>1 DEF Remove, HubTypeOK
    <3> QED
      BY <2>1, <3>1, <3>2, <3>3 DEF Remove, HubTypeOK
  <2>2. CASE ~EmptyWithout(s)
    BY <2>2 DEF Remove, HubTypeOK
  <2> QED
    BY <2>1, <2>2
<1>2. StartsAreCounted'
  <2>1. Added \subseteq Added'
    BY DEF Remove, Added, HubTypeOK
  <2> QED
    BY <2>1, CountsStay DEF Remove
<1>3. Holding = {} /\ Holding' \subseteq {s}
  BY DEF Remove, Locked, Holding, HubTypeOK
<1>4. OneHandlerLocks'
  BY <1>3 DEF OneHandlerLocks
<1>5. NumbersAreFresh'
  BY <1>3 DEF Remove, NumbersAreFresh, HubTypeOK, Holding
<1>6. CASE EmptyWithout(s)
  <2>1. \A g \in Tasks : task'[g] # "running"
    <3>1. \A g \in Tasks : task'[g] =
            IF g = relay /\ task[g] = "running" THEN "cancelled" ELSE task[g]
      BY <1>6 DEF Remove
    <3>2. \A g \in Tasks : task[g] = "running" => g = relay
      BY DEF OneRelay
    <3> QED
      BY <3>1, <3>2
  <2>2. OneRelay'
    <3>1. handler'[s] = "stopping" /\ subs' = subs /\ pubsub' = pubsub
      BY <1>6 DEF Remove, HubTypeOK
    <3>2. \A g \in Tasks : frame'[g] = None
      BY <1>6 DEF Remove, OneRelay, HubTypeOK
    <3>3. relay' # None => task'[relay'] \in {"running", "crashed"}
      BY <1>6 DEF Remove, OneRelay, HubTypeOK
    <3> QED
      BY <2>1, <3>1, <3>2, <3>3 DEF OneRelay
  <2>3. SocketsAreHandled'
    BY <1>6, <2>1 DEF Remove, EmptyWithout, SocketsAreHandled, HubTypeOK
  <2> QED
    BY <1>1, <1>2, <1>4, <1>5, <2>2, <2>3
<1>7. CASE ~EmptyWithout(s)
  <2>1. OneRelay'
    BY <1>3, <1>7 DEF Remove, OneRelay, Locked, Holding, HubTypeOK
  <2>2. SocketsAreHandled'
    <3>1. PICK t \in sockets : t # s
      BY <1>7 DEF EmptyWithout
    <3>2. handler[t] \in {"open", "remove", "failed"} /\ handler'[t] = handler[t]
      BY <1>3, <1>7, <3>1 DEF Remove, SocketsAreHandled, Holding, HubTypeOK
    <3> QED
      BY <1>7, <3>2 DEF Remove, SocketsAreHandled, HubTypeOK
  <2> QED
    BY <1>1, <1>2, <1>4, <1>5, <2>1, <2>2
<1> QED
  BY <1>6, <1>7

LEMMA UnsubscribeKeepsHubInv == \A s \in Sockets : HubInv /\ Unsubscribe(s) => HubInv'
<1> SUFFICES ASSUME NEW s \in Sockets, HubInv, Unsubscribe(s) PROVE HubInv'
  OBVIOUS
<1> USE DEF HubInv
<1>1. HubTypeOK'
  BY DEF Unsubscribe, HubTypeOK, None
<1>2. StartsAreCounted'
  <2>1. Added \subseteq Added'
    BY DEF Unsubscribe, Added, HubTypeOK
  <2> QED
    BY <2>1, CountsStay DEF Unsubscribe
<1>3. Holding = {s} /\ Holding' = {}
  BY DEF Unsubscribe, OneHandlerLocks, Holding, HubTypeOK
<1>4. OneHandlerLocks'
  BY <1>3 DEF OneHandlerLocks
<1>5. NumbersAreFresh'
  BY <1>3 DEF Unsubscribe, NumbersAreFresh, HubTypeOK, Holding
<1>6. \A g \in Tasks : task[g] # "running"
  BY <1>3 DEF OneRelay, Locked
<1>7. OneRelay'
  BY <1>6 DEF Unsubscribe, OneRelay
<1>8. SocketsAreHandled'
  BY <1>6 DEF Unsubscribe, SocketsAreHandled, HubTypeOK
<1> QED
  BY <1>1, <1>2, <1>4, <1>5, <1>7, <1>8

LEMMA TakeKeepsHubInv == \A g \in Tasks : HubInv /\ Take(g) => HubInv'
<1> SUFFICES ASSUME NEW g \in Tasks, HubInv, Take(g) PROVE HubInv'
  OBVIOUS
<1> USE DEF HubInv
<1>1. /\ inbox[g] \in Seq(Nat \ {None}) /\ inbox[g] # <<>>
      /\ Head(inbox[g]) \in Nat \ {None} /\ Tail(inbox[g]) \in Seq(Nat \ {None})
  BY HeadTailProperties DEF Take, HubTypeOK
<1>2. HubTypeOK'
  <2>1. \A h \in Tasks : frame'[h] = None => todo'[h] = {} /\ dead'[h] = {}
    BY <1>1 DEF Take, HubTypeOK
  <2> QED
    BY <1>1, <2>1 DEF Take, HubTypeOK, None
<1>3. StartsAreCounted'
  BY CountsStay DEF Take, Added
<1>4. OneHandlerLocks'
  BY DEF Take, OneHandlerLocks, Holding
<1>5. NumbersAreFresh'
  BY DEF Take, NumbersAreFresh, HubTypeOK
<1>6. OneRelay'
  BY DEF Take, OneRelay, Locked, Holding, HubTypeOK
<1>7. SocketsAreHandled'
  BY DEF Take, SocketsAreHandled
<1> QED
  BY <1>2, <1>3, <1>4, <1>5, <1>6, <1>7

LEMMA SendToKeepsHubInv ==
  \A g \in Tasks, s \in Sockets : HubInv /\ SendTo(g, s) => HubInv'
<1> SUFFICES ASSUME NEW g \in Tasks, NEW s \in Sockets, HubInv, SendTo(g, s) PROVE HubInv'
  OBVIOUS
<1> USE DEF HubInv
<1>1. PICK raised \in {{}} \cup (IF s \in here THEN {} ELSE {{s}}) :
        IF todo[g] = {s}
          THEN /\ sockets' = sockets \ (dead[g] \cup raised)
               /\ dead' = [dead EXCEPT ![g] = {}]
               /\ frame' = [frame EXCEPT ![g] = None]
          ELSE /\ dead' = [dead EXCEPT ![g] = @ \cup raised]
               /\ UNCHANGED <<sockets, frame>>
  BY DEF SendTo
<1>2. raised \subseteq Sockets /\ sockets' \subseteq sockets
  BY <1>1
<1>3. HubTypeOK'
  <2>1. /\ todo' = [todo EXCEPT ![g] = @ \ {s}] /\ todo' \in [Tasks -> SUBSET Sockets]
        /\ shown' \in [Sockets -> Nat]
    BY DEF SendTo, HubTypeOK
  <2>2. /\ frame' \in [Tasks -> Nat] /\ dead' \in [Tasks -> SUBSET Sockets]
        /\ \A h \in Tasks : frame'[h] = None => todo'[h] = {} /\ dead'[h] = {}
    <3>1. CASE todo[g] = {s}
      <4>1. /\ dead' = [dead EXCEPT ![g] = {}] /\ frame' = [frame EXCEPT ![g] = None]
            /\ todo'[g] = {} /\ \A h \in Tasks : h # g => todo'[h] = todo[h]
        BY <1>1, <2>1, <3>1 DEF HubTypeOK
      <4>2. frame' \in [Tasks -> Nat] /\ dead' \in [Tasks -> SUBSET Sockets]
        BY <4>1 DEF HubTypeOK, None
      <4>3. \A h \in Tasks : h # g => frame'[h] = frame[h] /\ dead'[h] = dead[h]
        BY <4>1 DEF HubTypeOK
      <4>4. dead'[g] = {}
        BY <4>1 DEF HubTypeOK
      <4> QED
        BY <4>1, <4>2, <4>3, <4>4 DEF HubTypeOK
    <3>2. CASE todo[g] # {s}
      <4>1. frame[g] # None
        BY DEF SendTo, HubTypeOK
      <4>2. frame' = frame /\ dead' = [dead EXCEPT ![g] = @ \cup raised]
        BY <1>1, <3>2
      <4>3. dead' \in [Tasks -> SUBSET Sockets]
        BY <1>2, <4>2 DEF HubTypeOK
      <4>4. \A h \in Tasks : h # g => todo'[h] = todo[h] /\ dead'[h] = dead[h]
        BY <2>1, <4>2 DEF HubTypeOK
      <4> QED
        BY <4>1, <4>2, <4>3, <4>4 DEF HubTypeOK
    <3> QED
      BY <3>1, <3>2
  <2> QED
    BY <1>2, <2>1, <2>2 DEF SendTo, HubTypeOK
<1>4. StartsAreCounted'
  BY CountsStay DEF SendTo, Added
<1>5. OneHandlerLocks'
  BY DEF SendTo, OneHandlerLocks, Holding
<1>6. NumbersAreFresh'
  BY DEF SendTo, NumbersAreFresh
<1>7. OneRelay'
  <2>1. \A h \in Tasks : h # g => frame'[h] = frame[h]
    BY <1>1 DEF HubTypeOK
  <2>2. task[g] = "running"
    BY DEF SendTo
  <2> QED
    BY <2>1, <2>2 DEF SendTo, OneRelay, Locked, Holding
<1>8. SocketsAreHandled'
  BY <1>2 DEF SendTo, SocketsAreHandled
<1> QED
  BY <1>3, <1>4, <1>5, <1>6, <1>7, <1>8

LEMMA RelayCrashesKeepsHubInv == \A g \in Tasks : HubInv /\ RelayCrashes(g) => HubInv'
<1> SUFFICES ASSUME NEW g \in Tasks, HubInv, RelayCrashes(g) PROVE HubInv'
  OBVIOUS
<1> USE DEF HubInv
<1>1. HubTypeOK'
  BY DEF RelayCrashes, HubTypeOK
<1>2. StartsAreCounted'
  BY CountsStay DEF RelayCrashes, Added
<1>3. OneHandlerLocks'
  BY DEF RelayCrashes, OneHandlerLocks, Holding
<1>4. NumbersAreFresh'
  BY DEF RelayCrashes, NumbersAreFresh, HubTypeOK
<1>5. OneRelay'
  BY DEF RelayCrashes, OneRelay, Locked, Holding, HubTypeOK
<1>6. SocketsAreHandled'
  BY DEF RelayCrashes, SocketsAreHandled, HubTypeOK
<1> QED
  BY <1>1, <1>2, <1>3, <1>4, <1>5, <1>6

\* What Append does to a sequence.
LEMMA AppendFacts ==
  ASSUME NEW S, NEW q \in Seq(S), NEW e \in S
  PROVE  LET t == Append(q, e) IN
         /\ t \in Seq(S) /\ Len(q) \in Nat
         /\ DOMAIN q = 1..Len(q)
         /\ DOMAIN t = 1..(Len(q) + 1) /\ Len(t) = Len(q) + 1
         /\ \A n \in 1..Len(q) : t[n] = q[n]
         /\ t[Len(q) + 1] = e
BY AppendProperties

\* Redis hands out a message, whoever published it.
LEMMA DeliverKeepsHubInv ==
  ASSUME HubInv, NEW f \in Nat \ {None}, Deliver(f),
         UNCHANGED <<kind, handler, here, sockets, relay, pubsub, started, task, subs, frame,
                     todo, dead, shown, hubFaults>>
  PROVE  HubInv'
<1> USE DEF HubInv
<1>1. inbox' \in [Tasks -> Seq(Nat \ {None})]
  <2>1. \A g \in Tasks : Append(inbox[g], f) \in Seq(Nat \ {None})
    BY AppendFacts DEF HubTypeOK
  <2> QED
    BY <2>1 DEF Deliver, HubTypeOK
<1>2. HubTypeOK'
  BY <1>1 DEF HubTypeOK
<1>3. NumbersAreFresh'
  BY DEF Deliver, NumbersAreFresh
<1> QED
  BY <1>2, <1>3
  DEF OneHandlerLocks, Holding, StartsAreCounted, Added, OneRelay, Locked, SocketsAreHandled

\* Every step of the hub keeps its invariant.
LEMMA HubStep == HubInv /\ HubNext => HubInv'
<1> SUFFICES ASSUME HubInv, HubNext PROVE HubInv'
  OBVIOUS
<1>1. ASSUME NEW s \in Sockets, Accept(s) \/ Leave(s) \/ Handle(s) \/ SubscribeFails(s)
      PROVE  HubInv'
  BY <1>1, AcceptKeepsHubInv, LeaveKeepsHubInv, AddKeepsHubInv, SubscribeKeepsHubInv,
     DisconnectKeepsHubInv, RemoveKeepsHubInv, UnsubscribeKeepsHubInv, SubscribeFailsKeepsHubInv
  DEF Handle
<1>2. ASSUME NEW g \in Tasks, Relay(g) \/ RelayCrashes(g)
      PROVE  HubInv'
  BY <1>2, TakeKeepsHubInv, SendToKeepsHubInv, RelayCrashesKeepsHubInv DEF Relay
<1> QED
  BY <1>1, <1>2 DEF HubNext

-----------------------------------------------------------------------------
(***************************************************************************)
(* What the invariant gives.                                               *)
(***************************************************************************)
LEMMA InvariantServes == HubInv => AddedIsServed
BY TasksAreNumbers DEF HubInv, OneRelay, SocketsAreHandled, HubTypeOK, AddedIsServed

LEMMA InvariantCleansUp == HubInv => NothingLeftBehind
<1> SUFFICES ASSUME HubInv, \A s \in Sockets : handler[s] \in {"new", "ended"}
             PROVE  subs = {} /\ (\A g \in Tasks : task[g] # "running") /\ sockets = {}
  BY DEF NothingLeftBehind
<1>1. \A g \in Tasks : task[g] # "running"
  BY DEF HubInv, SocketsAreHandled
<1>2. subs = {}
  BY <1>1 DEF HubInv, OneRelay, HubTypeOK
<1>3. sockets = {}
  BY DEF HubInv, SocketsAreHandled, HubTypeOK
<1> QED
  BY <1>1, <1>2, <1>3
=============================================================================
