------------------------------ MODULE RelayHub ------------------------------
(***************************************************************************)
(* A relay hub of the API: WebSocket handlers come and go, the first one   *)
(* subscribes to a Redis channel and starts a relay task, the last one     *)
(* stops it, and the task sends what the channel brings to every socket.   *)
(*                                                                         *)
(*   cloud/common/ws/detection_hub.py   kind "detection", one camera       *)
(*   cloud/common/ws/heatmap_hub.py     kind "heatmap"                     *)
(*   cloud/api/ws.py                    ws_detections, ws_heatmap          *)
(*                                                                         *)
(* add and remove hold the hub's lock over their awaits: a handler that is *)
(* "subscribing" or "stopping" holds it.  Relay tasks, and the Redis       *)
(* subscriptions they read, are numbered in the order of their start.      *)
(***************************************************************************)
EXTENDS Integers, Sequences, FiniteSets

CONSTANTS
  Sockets,      \* WebSocket connections, each made at most once
  MaxHubFaults  \* bound on failed subscribes and crashed relays

ASSUME RelayHubAssumption ==
  /\ IsFiniteSet(Sockets)
  /\ MaxHubFaults \in Nat

None  == 0
Tasks == 1..Cardinality(Sockets)

VARIABLES
  kind,      \* which of the two hubs this is
  handler,   \* where the handler of a connection is
  here,      \* connections whose browser is there
  sockets,   \* the hub's set of sockets
  relay,     \* _relay_tasks[camera] or _relay_task
  pubsub,    \* _pubsubs[camera] or _pubsub
  started,   \* tasks started so far, or about to
  task,      \* what each of them does
  inbox,     \* what its subscription has brought and it has not read
  subs,      \* subscriptions that Redis holds
  frame, todo, dead,  \* the frame a relay is sending, the sockets still to get
                      \* it, and those whose send raised
  shown,     \* the latest frame a browser got
  hubFaults

hubVars == <<kind, handler, here, sockets, relay, pubsub, started, task, inbox,
             subs, frame, todo, dead, shown, hubFaults>>

HubInit ==
  /\ kind \in {"detection", "heatmap"}
  /\ handler = [s \in Sockets |-> "new"]
  /\ here = {}
  /\ sockets = {}
  /\ relay = None
  /\ pubsub = None
  /\ started = 0
  /\ task = [g \in Tasks |-> "none"]
  /\ inbox = [g \in Tasks |-> <<>>]
  /\ subs = {}
  /\ frame = [g \in Tasks |-> None]
  /\ todo = [g \in Tasks |-> {}]
  /\ dead = [g \in Tasks |-> {}]
  /\ shown = [s \in Sockets |-> None]
  /\ hubFaults = 0

\* Handlers that hold the hub's lock, over the awaits of add and remove.
Holding == {s \in Sockets : handler[s] \in {"subscribing", "stopping"}}

Locked == Holding # {}

relayVars == <<inbox, frame, todo, dead, shown>>

-----------------------------------------------------------------------------
(***************************************************************************)
(* The handler of a connection: accept, add, receive until the browser is  *)
(* gone, remove.                                                           *)
(***************************************************************************)
Accept(s) ==
  /\ handler[s] = "new"
  /\ handler' = [handler EXCEPT ![s] = "add"]
  /\ here' = here \cup {s}
  /\ UNCHANGED <<kind, sockets, relay, pubsub, started, task, subs, relayVars, hubFaults>>

\* Mutant: a relay for every socket.
NeedsRelayAlways == started \in Nat

\* The detection hub looks for a task, the heatmap hub for one that is not done.
NeedsRelay ==
  \/ relay = None
  \/ kind = "heatmap" /\ task[relay] # "running"

Add(s) ==
  /\ handler[s] = "add"
  /\ ~Locked
  /\ sockets' = sockets \cup {s}
  /\ IF NeedsRelay
       THEN /\ handler' = [handler EXCEPT ![s] = "subscribing"]
            /\ started' = started + 1
            /\ pubsub' = IF kind = "heatmap" THEN started + 1 ELSE pubsub
       ELSE /\ handler' = [handler EXCEPT ![s] = "open"]
            /\ UNCHANGED <<started, pubsub>>
  /\ UNCHANGED <<kind, here, relay, task, subs, relayVars, hubFaults>>

Subscribe(s) ==
  /\ handler[s] = "subscribing"
  /\ handler' = [handler EXCEPT ![s] = "open"]
  /\ subs' = subs \cup {started}
  /\ pubsub' = started
  /\ relay' = started
  /\ task' = [task EXCEPT ![started] = "running"]
  /\ UNCHANGED <<kind, here, sockets, started, relayVars, hubFaults>>

\* Redis refuses: the exception ends the handler before its try, so the socket
\* stays in the set and no remove will follow.
SubscribeFails(s) ==
  /\ hubFaults < MaxHubFaults
  /\ handler[s] = "subscribing"
  /\ handler' = [handler EXCEPT ![s] = "failed"]
  /\ here' = here \ {s}
  /\ hubFaults' = hubFaults + 1
  /\ UNCHANGED <<kind, sockets, relay, pubsub, started, task, subs, relayVars>>

Leave(s) ==
  /\ s \in here
  /\ here' = here \ {s}
  /\ UNCHANGED <<kind, handler, sockets, relay, pubsub, started, task, subs, relayVars, hubFaults>>

\* receive_text raises.
Disconnect(s) ==
  /\ handler[s] = "open"
  /\ s \notin here
  /\ handler' = [handler EXCEPT ![s] = "remove"]
  /\ UNCHANGED <<kind, here, sockets, relay, pubsub, started, task, subs, relayVars, hubFaults>>

\* Mutant: whoever leaves stops the relay.
EmptyWithoutAlways(s) == s \in Sockets

\* Nobody is left once s is gone.
EmptyWithout(s) == sockets \subseteq {s}

\* The task is cancelled at its await; the heatmap hub forgets only one that runs.
Remove(s) ==
  /\ handler[s] = "remove"
  /\ ~Locked
  /\ sockets' = sockets \ {s}
  /\ IF EmptyWithout(s)
       THEN /\ handler' = [handler EXCEPT ![s] = "stopping"]
            /\ task' = [g \in Tasks |->
                 IF g = relay /\ task[g] = "running" THEN "cancelled" ELSE task[g]]
            /\ relay' = IF kind = "heatmap" /\ relay # None /\ task[relay] # "running"
                          THEN relay ELSE None
            /\ frame' = [g \in Tasks |-> IF g = relay THEN None ELSE frame[g]]
            /\ todo' = [g \in Tasks |-> IF g = relay THEN {} ELSE todo[g]]
            /\ dead' = [g \in Tasks |-> IF g = relay THEN {} ELSE dead[g]]
       ELSE /\ handler' = [handler EXCEPT ![s] = "ended"]
            /\ UNCHANGED <<task, relay, frame, todo, dead>>
  /\ UNCHANGED <<kind, here, pubsub, started, subs, inbox, shown, hubFaults>>

\* Mutant: the handle is dropped and Redis not told.
UnsubscribeNothing(s) ==
  /\ handler[s] = "stopping"
  /\ handler' = [handler EXCEPT ![s] = "ended"]
  /\ pubsub' = None
  /\ UNCHANGED <<kind, here, sockets, relay, started, task, subs, relayVars, hubFaults>>

\* The subscription is closed and the lock given back.
Unsubscribe(s) ==
  /\ handler[s] = "stopping"
  /\ handler' = [handler EXCEPT ![s] = "ended"]
  /\ subs' = subs \ {pubsub}
  /\ inbox' = [g \in Tasks |-> IF g = pubsub THEN <<>> ELSE inbox[g]]
  /\ pubsub' = None
  /\ UNCHANGED <<kind, here, sockets, relay, started, task, frame, todo, dead, shown, hubFaults>>

-----------------------------------------------------------------------------
(***************************************************************************)
(* The relay task.                                                         *)
(***************************************************************************)
\* get_message: the sockets are those of this moment.
Take(g) ==
  /\ task[g] = "running"
  /\ frame[g] = None
  /\ inbox[g] # <<>>
  /\ inbox' = [inbox EXCEPT ![g] = Tail(@)]
  /\ frame' = [frame EXCEPT ![g] = IF sockets = {} THEN None ELSE Head(inbox[g])]
  /\ todo' = [todo EXCEPT ![g] = sockets]
  /\ UNCHANGED <<kind, handler, here, sockets, relay, pubsub, started, task, subs, dead,
                 shown, hubFaults>>

\* Mutant: the first send that raises ends the round.
SendToFirst(g, s) ==
  /\ task[g] = "running"
  /\ s \in todo[g]
  /\ todo' = [todo EXCEPT ![g] = IF s \in here THEN @ \ {s} ELSE {}]
  /\ shown' = [shown EXCEPT ![s] = IF s \in here THEN frame[g] ELSE @]
  /\ sockets' = IF s \in here THEN sockets ELSE sockets \ {s}
  /\ frame' = [frame EXCEPT ![g] = IF todo'[g] = {} THEN None ELSE @]
  /\ UNCHANGED <<kind, handler, here, relay, pubsub, started, task, subs, inbox, dead,
                 hubFaults>>

\* One send; a browser that has gone makes it raise, or the bytes are lost.  After
\* the last one the sockets that raised are dropped from the set, which may leave
\* it empty under a running relay.
SendTo(g, s) ==
  /\ task[g] = "running"
  /\ s \in todo[g]
  /\ todo' = [todo EXCEPT ![g] = @ \ {s}]
  /\ shown' = [shown EXCEPT ![s] = IF s \in here THEN frame[g] ELSE @]
  /\ \E raised \in {{}} \cup (IF s \in here THEN {} ELSE {{s}}) :
       IF todo[g] = {s}
         THEN /\ sockets' = sockets \ (dead[g] \cup raised)
              /\ dead' = [dead EXCEPT ![g] = {}]
              /\ frame' = [frame EXCEPT ![g] = None]
         ELSE /\ dead' = [dead EXCEPT ![g] = @ \cup raised]
              /\ UNCHANGED <<sockets, frame>>
  /\ UNCHANGED <<kind, handler, here, relay, pubsub, started, task, subs, inbox, hubFaults>>

\* The connection to Redis is lost for good: get_message raises, the task is done
\* and its subscription gone.
RelayCrashes(g) ==
  /\ hubFaults < MaxHubFaults
  /\ task[g] = "running"
  /\ frame[g] = None
  /\ task' = [task EXCEPT ![g] = "crashed"]
  /\ subs' = subs \ {g}
  /\ inbox' = [inbox EXCEPT ![g] = <<>>]
  /\ hubFaults' = hubFaults + 1
  /\ UNCHANGED <<kind, handler, here, sockets, relay, pubsub, started, frame, todo, dead, shown>>

-----------------------------------------------------------------------------
\* Redis hands a message to every subscription of the channel, and keeps nothing.
Deliver(f) ==
  inbox' = [g \in Tasks |-> IF g \in subs THEN Append(inbox[g], f) ELSE inbox[g]]

Handle(s) == Add(s) \/ Subscribe(s) \/ Disconnect(s) \/ Remove(s) \/ Unsubscribe(s)
Relay(g)  == Take(g) \/ \E s \in Sockets : SendTo(g, s)

HubNext ==
  \/ \E s \in Sockets : Accept(s) \/ Leave(s) \/ Handle(s) \/ SubscribeFails(s)
  \/ \E g \in Tasks : Relay(g) \/ RelayCrashes(g)

\* The event loop runs every task and Redis answers.
HubFairness ==
  /\ \A s \in Sockets : WF_hubVars(Handle(s))
  /\ \A g \in Tasks : WF_hubVars(Relay(g))
-----------------------------------------------------------------------------
(***************************************************************************)
(* Properties.                                                             *)
(***************************************************************************)
\* The hub's fields and the tasks' local variables hold values of their types; a
\* relay between two frames has no socket left to serve.
HubTypeOK ==
  /\ kind \in {"detection", "heatmap"}
  /\ handler \in [Sockets -> {"new", "add", "subscribing", "open", "remove", "stopping",
                               "ended", "failed"}]
  /\ here \subseteq Sockets
  /\ sockets \subseteq Sockets
  /\ relay \in Tasks \cup {None}
  /\ pubsub \in Tasks \cup {None}
  /\ started \in Tasks \cup {None}
  /\ task \in [Tasks -> {"none", "running", "crashed", "cancelled"}]
  /\ inbox \in [Tasks -> Seq(Nat \ {None})]
  /\ subs \subseteq Tasks
  /\ frame \in [Tasks -> Nat]
  /\ todo \in [Tasks -> SUBSET Sockets]
  /\ dead \in [Tasks -> SUBSET Sockets]
  /\ shown \in [Sockets -> Nat]
  /\ hubFaults \in 0..MaxHubFaults
  /\ \A g \in Tasks : frame[g] = None => todo[g] = {} /\ dead[g] = {}

\* A socket that its handler has added, and that nobody found dead, has a relay
\* behind it, running on a live subscription, unless that relay has crashed: no
\* order of comings and goings stops a relay under a socket.
AddedIsServed ==
  \A s \in sockets : handler[s] = "open" /\ s \in here =>
    /\ relay # None
    /\ task[relay] = "crashed" \/ (task[relay] = "running" /\ relay \in subs)

\* When the last handler is through, no relay runs and Redis holds no subscription,
\* even if relays crashed or dropped sockets before; only a socket whose own add
\* failed stays in the set and keeps the relay of others alive.
NothingLeftBehind ==
  (\A s \in Sockets : handler[s] \in {"new", "ended"}) =>
    subs = {} /\ (\A g \in Tasks : task[g] # "running") /\ sockets = {}
-----------------------------------------------------------------------------
(***************************************************************************)
(* The inductive invariant of the proofs.                                  *)
(***************************************************************************)
OneHandlerLocks == \A s, t \in Holding : s = t

\* A task is started in an add, and a connection is added once.
Added == {s \in Sockets : handler[s] \notin {"new", "add"}}

StartsAreCounted == started <= Cardinality(Added)

\* A task that has not been started has no subscription and no message, and the
\* number that the handler inside add has taken is one of those.
NumbersAreFresh ==
  /\ \A g \in Tasks : g > started => task[g] = "none"
  /\ \A g \in Tasks : task[g] = "none" => g \notin subs /\ inbox[g] = <<>>
  /\ \A s \in Sockets : handler[s] = "subscribing" =>
       started # None /\ task[started] = "none"

\* Only the task the hub knows runs, on the subscription the hub knows, never while
\* a handler holds the lock; and Redis holds no other subscription than that task's
\* or the one a handler is about to close.
OneRelay ==
  /\ relay # None => task[relay] \in {"running", "crashed"}
  /\ \A g \in Tasks : task[g] = "running" => relay = g /\ g \in subs /\ ~Locked
  /\ \A g \in subs : pubsub = g /\ (task[g] = "running" \/ \E s \in Sockets : handler[s] = "stopping")
  /\ \A g \in Tasks : task[g] # "running" => frame[g] = None

\* A socket in the set has a handler that is not through with it, or that failed; an
\* open one has a relay; and whoever made the relay run is not gone.
SocketsAreHandled ==
  /\ \A s \in sockets : handler[s] \in {"subscribing", "open", "remove", "failed"}
  /\ \A s \in sockets : handler[s] = "open" => relay # None
  /\ (\E g \in Tasks : task[g] = "running") =>
       \E s \in Sockets : handler[s] \in {"open", "remove", "failed"}

HubInv ==
  /\ HubTypeOK
  /\ OneHandlerLocks
  /\ StartsAreCounted
  /\ NumbersAreFresh
  /\ OneRelay
  /\ SocketsAreHandled
=============================================================================
