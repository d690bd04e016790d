------------------------------ MODULE Overlay -------------------------------
(***************************************************************************)
(* From a camera to the browsers: the vision engine of an edge node looks  *)
(* at a frame, puts an overlay message into a bounded queue and debounces  *)
(* the rule; a drain task takes the queue to Redis, for the heatmap by way *)
(* of Kafka and the heatmap worker; a hub of RelayHub takes it on.         *)
(*                                                                         *)
(*   edge/vision/engine.py             VisionEngine.run                    *)
(*   edge/vision/debounce.py           TrackDebouncer.observe              *)
(*   edge/publisher/detection_sink.py, heatmap_sink.py, run_edge.py        *)
(*   cloud/heatmap_worker/consumer.py  store, republish, commit            *)
(*                                                                         *)
(* One camera, and one track in one zone: trackers, debouncers and the     *)
(* state of a (track, rule) key are separate in the code.  Overlay         *)
(* messages are numbered over the lives of the edge process, as the        *)
(* payload's seq is not.                                                   *)
(***************************************************************************)
EXTENDS RelayHub

CONSTANTS
  Window, MofN, ClearConsecutive,  \* DebounceConfig
  MaxQueue,     \* maxq of the sink
  MaxFrames,    \* bound on the frames that have the track, in one life: MaxFrames[e]
                \* when overlay messages are emitted (e = TRUE) or not
  MaxMessages,  \* bound on the overlay messages
  MaxFaults     \* bound on failed publishes, and restarts of edge and worker

ASSUME OverlayAssumption ==
  /\ Window \in Nat \ {0}
  /\ MofN \in 1..Window
  /\ ClearConsecutive \in Nat \ {0}
  /\ MofN + ClearConsecutive > Window
  /\ MaxQueue \in Nat \ {0}
  /\ MaxFrames \in [BOOLEAN -> Nat]
  /\ MaxMessages \in Nat
  /\ MaxFaults \in Nat

VARIABLES
  \* the debouncer's state of the key
  history, isOpen, clearStreak,
  \* the setting emit_detections or emit_heatmap
  emits,
  \* the engine: between frames, or waiting for Kafka to take an anomaly
  engine,
  \* anomaly events of this life that Kafka has taken
  anomalies,
  \* the sink's queue, and the messages put into it or dropped so far
  queue, numbered,
  \* the heatmap topic, the committed offset, the worker's place in it and what
  \* it has done with the tick there, the rows stored for each tick, and the ticks
  \* passed over by a worker that found no committed offset: history
  topic, committed, position, worker, stored, skipped,
  faults,
  \* everything that was observed in this life of the edge process: history
  seen

edgeVars   == <<emits, history, isOpen, clearStreak, engine, anomalies, queue, numbered, seen>>
workerVars == <<topic, committed, position, worker, stored, skipped>>
vars       == <<hubVars, edgeVars, workerVars, faults>>

Init ==
  /\ HubInit
  /\ history = <<>>
  /\ isOpen = FALSE
  /\ clearStreak = 0
  /\ engine = "frame"
  /\ anomalies = 0
  /\ queue = <<>>
  /\ seen = <<>>
  /\ emits \in BOOLEAN
  /\ numbered = 0
  /\ topic = <<>>
  /\ committed = 0
  /\ position = 0
  /\ worker = "idle"
  /\ skipped = 0
  /\ stored = [f \in 1..MaxMessages |-> 0]
  /\ faults = 0

-----------------------------------------------------------------------------
(***************************************************************************)
(* The edge node.                                                          *)
(***************************************************************************)
Last(h, n) == SubSeq(h, IF Len(h) > n THEN Len(h) - n + 1 ELSE 1, Len(h))

Violations(h) == Cardinality({k \in DOMAIN h : h[k]})

\* Mutant: the streak is not broken by a violating frame.
StreakKept(violating) == IF violating THEN clearStreak ELSE clearStreak + 1

Streak(violating) == IF violating THEN 0 ELSE clearStreak + 1

\* observe for a frame that has the track.
Observe(violating) ==
  LET h == Last(Append(history, violating), Window)
      opens  == ~isOpen /\ Violations(h) >= MofN
      clears == isOpen /\ Streak(violating) >= ClearConsecutive
  IN  /\ isOpen' = ((isOpen \/ opens) /\ ~clears)
      /\ history' = IF clears THEN <<>> ELSE h
      /\ clearStreak' = IF opens \/ clears THEN 0 ELSE Streak(violating)
      /\ seen' = Append(seen, violating)
      /\ engine' = IF opens THEN "publish" ELSE "frame"

\* Mutant: a queue without a bound.
EnqueueUnbounded(f) == queue' = Append(queue, f)

\* put_nowait: a full queue drops the new message.
Enqueue(f) == queue' = IF Len(queue) < MaxQueue THEN Append(queue, f) ELSE queue

\* One frame: the throttle lets an overlay message through or does not, and the
\* tracker has the track or has not.
Frame ==
  /\ engine = "frame"
  /\ \/ /\ emits
        /\ numbered < MaxMessages
        /\ numbered' = numbered + 1
        /\ Enqueue(numbered + 1)
     \/ UNCHANGED <<numbered, queue>>
  /\ \/ /\ Len(seen) < MaxFrames[emits]
        /\ \E violating \in BOOLEAN : Observe(violating)
     \/ UNCHANGED <<history, isOpen, clearStreak, seen, engine>>
  /\ UNCHANGED <<emits, anomalies, hubVars, workerVars, faults>>

\* await publish: the broker has the event.
PublishAnomaly ==
  /\ engine = "publish"
  /\ engine' = "frame"
  /\ anomalies' = anomalies + 1
  /\ UNCHANGED <<emits, history, isOpen, clearStreak, queue, numbered, seen, hubVars,
                 workerVars, faults>>

\* A publish or a camera that fails ends its engine, gather raises, and the process
\* goes down with all its queues and debouncers; it is started again.
EdgeRestarts ==
  /\ faults < MaxFaults
  /\ history' = <<>>
  /\ isOpen' = FALSE
  /\ clearStreak' = 0
  /\ engine' = "frame"
  /\ anomalies' = 0
  /\ queue' = <<>>
  /\ seen' = <<>>
  /\ faults' = faults + 1
  /\ UNCHANGED <<emits, numbered, hubVars, workerVars>>

\* Only one message of a drain task is on its way at a time.
Drain ==
  /\ queue # <<>>
  /\ queue' = Tail(queue)
  /\ IF kind = "heatmap"
       THEN topic' = Append(topic, Head(queue)) /\ UNCHANGED inbox
       ELSE Deliver(Head(queue)) /\ UNCHANGED topic
  /\ UNCHANGED <<kind, handler, here, sockets, relay, pubsub, started, task, subs, frame,
                 todo, dead, shown, hubFaults, emits, history, isOpen, clearStreak, engine,
                 anomalies, numbered, seen, committed, position, worker, stored,
                 skipped, faults>>

\* The publish raises, which the sink swallows.
DrainLoses ==
  /\ faults < MaxFaults
  /\ queue # <<>>
  /\ queue' = Tail(queue)
  /\ faults' = faults + 1
  /\ UNCHANGED <<hubVars, emits, history, isOpen, clearStreak, engine, anomalies, numbered, seen,
                 workerVars>>

-----------------------------------------------------------------------------
(***************************************************************************)
(* The heatmap worker.                                                     *)
(***************************************************************************)
\* Mutant: a database that refuses is a warning, too.
StoreOrWarn ==
  /\ worker = "idle"
  /\ position < Len(topic)
  /\ stored' \in {stored, [stored EXCEPT ![topic[position + 1]] = @ + 1]}
  /\ worker' = "stored"
  /\ UNCHANGED <<topic, committed, position, skipped, hubVars, edgeVars, faults>>

\* The rows of the next tick are committed to the database.
Store ==
  /\ worker = "idle"
  /\ position < Len(topic)
  /\ stored' = [stored EXCEPT ![topic[position + 1]] = @ + 1]
  /\ worker' = "stored"
  /\ UNCHANGED <<topic, committed, position, skipped, hubVars, edgeVars, faults>>

Republish ==
  /\ worker = "stored"
  /\ Deliver(topic[position + 1])
  /\ worker' = "published"
  /\ UNCHANGED <<kind, handler, here, sockets, relay, pubsub, started, task, subs, frame,
                 todo, dead, shown, hubFaults, topic, committed, position, stored, skipped,
                 edgeVars, faults>>

\* Redis refuses: a warning.
RepublishFails ==
  /\ faults < MaxFaults
  /\ worker = "stored"
  /\ worker' = "published"
  /\ faults' = faults + 1
  /\ UNCHANGED <<topic, committed, position, stored, skipped, hubVars, edgeVars>>

CommitOffset ==
  /\ worker = "published"
  /\ position' = position + 1
  /\ committed' = position + 1
  /\ worker' = "idle"
  /\ UNCHANGED <<topic, stored, skipped, hubVars, edgeVars, faults>>

\* Where a worker begins: at the committed offset, and at the end of the topic
\* when there is none.
Resume == IF committed > 0 THEN committed ELSE Len(topic)

\* It dies, or the database or the commit fails: it is started again.
WorkerRestarts ==
  /\ faults < MaxFaults
  /\ worker' = "idle"
  /\ position' = Resume
  /\ skipped' = IF committed > 0 THEN skipped ELSE Len(topic)
  /\ faults' = faults + 1
  /\ UNCHANGED <<topic, committed, stored, hubVars, edgeVars>>

-----------------------------------------------------------------------------
Hub == HubNext /\ UNCHANGED <<edgeVars, workerVars, faults>>

Edge   == Frame \/ PublishAnomaly \/ EdgeRestarts \/ Drain \/ DrainLoses
Worker == Store \/ Republish \/ RepublishFails \/ CommitOffset \/ WorkerRestarts

Next == Hub \/ Edge \/ Worker

Spec == Init /\ [][Next]_vars

FairSpec == Spec /\ HubFairness
-----------------------------------------------------------------------------
(***************************************************************************)
(* Properties.                                                             *)
(***************************************************************************)
DebouncerTypeOK ==
  /\ history \in Seq(BOOLEAN) /\ Len(history) <= Window
  /\ isOpen \in BOOLEAN
  /\ clearStreak \in Nat
  /\ engine \in {"frame", "publish"}
  /\ anomalies \in Nat
  /\ seen \in Seq(BOOLEAN)

QueueTypeOK ==
  /\ queue \in Seq(1..MaxMessages) /\ Len(queue) <= MaxQueue
  /\ numbered \in 0..MaxMessages

WorkerTypeOK ==
  /\ topic \in Seq(1..MaxMessages)
  /\ committed \in 0..Len(topic)
  /\ position \in committed..Len(topic)
  /\ worker \in {"idle", "stored", "published"}
  /\ stored \in [1..MaxMessages -> Nat]
  /\ skipped \in 0..Len(topic)

\* The hub's types and the pipeline's: no queue is longer than its bound, and the
\* worker is never behind the offset it has committed.
TypeOK ==
  /\ HubTypeOK
  /\ DebouncerTypeOK
  /\ QueueTypeOK
  /\ WorkerTypeOK
  /\ emits \in BOOLEAN
  /\ faults \in 0..MaxFaults

\* The rule's state after n observed frames, told from the frames alone: one that
\* violated made MofN in its window, and no quiet run has followed it since.
OpenAfter(n) ==
  \E k \in 1..n :
    /\ seen[k]
    /\ Violations(Last(SubSeq(seen, 1, k), Window)) >= MofN
    /\ \A e \in (k + 1)..n :
         \E q \in (e - ClearConsecutive + 1)..e : q <= k \/ seen[q]

\* A violation is reported exactly once per opening: the incremental debouncer
\* with its streak and cleared history agrees with that reading of all frames,
\* and Kafka has one event for each time the rule opened in this life.
DebounceIsExact ==
  /\ isOpen <=> OpenAfter(Len(seen))
  /\ anomalies + (IF engine = "publish" THEN 1 ELSE 0) =
       Cardinality({n \in 1..Len(seen) : OpenAfter(n) /\ ~OpenAfter(n - 1)})

\* A browser never sees an older overlay after a newer one, on whatever way the
\* message came.  Heatmaps are held to it as long as there was no fault of any kind,
\* since a worker that starts over repeats ticks; detections always.
OverlayGoesForward ==
  [][\A s \in Sockets : shown'[s] >= shown[s] \/ (kind = "heatmap" /\ faults > 0)]_vars

\* The database has a tick once, and again at most once for each time the worker
\* was made to start over; nothing below the committed offset is missing that the
\* worker did not pass over before its group had committed an offset at all.
TicksAreStored ==
  /\ \A n \in (skipped + 1)..committed : stored[topic[n]] > 0
  /\ \A f \in 1..MaxMessages : stored[f] <= faults + 1

\* What a subscription has brought while a socket is open reaches its browser, or
\* something newer does, however many other sockets die in the same round, unless
\* the browser goes or the relay crashes.
FramesArrive ==
  \A s \in Sockets, f \in 1..MaxMessages :
    /\ s \in sockets /\ handler[s] = "open"
    /\ \E g \in Tasks : task[g] = "running" /\ \E n \in DOMAIN inbox[g] : inbox[g][n] = f
    ~> shown[s] >= f \/ s \notin here \/ \A g \in Tasks : task[g] # "running"
-----------------------------------------------------------------------------
(***************************************************************************)
(* The inductive invariant of the proofs.                                  *)
(***************************************************************************)
\* The worker is busy with a tick of the topic; only heatmap messages go there.
WorkerHasTick ==
  /\ worker # "idle" => position < Len(topic)
  /\ kind = "detection" => topic = <<>>

Ascending(q) == \A m, n \in DOMAIN q : m < n => q[m] < q[n]

\* Messages leave the engine in the order of their numbers, and none is in the topic
\* or the queue twice.
MessagesAreInOrder ==
  /\ Ascending(topic) /\ Ascending(queue)
  /\ \A m \in DOMAIN topic, n \in DOMAIN queue : topic[m] < queue[n]
  /\ \A n \in DOMAIN queue : queue[n] <= numbered
  /\ \A n \in DOMAIN topic : topic[n] <= numbered

\* Ticks that the worker has stored, and those it has done with for Redis, counted
\* from the start of the topic.
Kept == IF worker = "idle" THEN position ELSE position + 1
Sent == IF worker = "published" THEN position + 1 ELSE position

TicksAreCounted ==
  /\ \A n \in (skipped + 1)..Kept : stored[topic[n]] > 0
  /\ \A n \in DOMAIN topic : stored[topic[n]] <= faults + (IF n <= Kept THEN 1 ELSE 0)
  /\ \A f \in 1..MaxMessages : (\A n \in DOMAIN topic : topic[n] # f) => stored[f] = 0

\* No browser has, and no running relay carries, a newer frame than f.
NothingAfter(f) ==
  /\ \A s \in Sockets : shown[s] <= f
  /\ \A g \in Tasks : task[g] = "running" =>
       frame[g] <= f /\ \A n \in DOMAIN inbox[g] : inbox[g][n] <= f

\* A running relay carries its frames in order, and no browser is ahead of them.
CarriesInOrder(g) ==
  /\ \A m, n \in DOMAIN inbox[g] : m < n => inbox[g][m] <= inbox[g][n]
  /\ \A n \in DOMAIN inbox[g] : frame[g] <= inbox[g][n]
  /\ \A s \in Sockets, n \in DOMAIN inbox[g] : shown[s] <= inbox[g][n]
  /\ \A s \in Sockets : frame[g] # None => shown[s] <= frame[g]

\* What has still to be sent comes after everything that was, unless a fault made
\* the heatmap worker repeat a tick.
NothingOvertakes ==
  kind = "detection" \/ faults = 0 =>
    /\ \A g \in Tasks : task[g] = "running" => CarriesInOrder(g)
    /\ \A n \in DOMAIN topic : n > Sent => NothingAfter(topic[n])
    /\ \A n \in DOMAIN queue : NothingAfter(queue[n])
    /\ NothingAfter(numbered)

\* The violating frames of a window that ends with frame k and reaches back at most
\* to the frame after c.
Hits(c, k) == {q \in 1..k : q > k - Window /\ q > c /\ seen[q]}

\* The debouncer's history are the last frames of its window since frame c, when it
\* cleared the rule after a quiet run (or since the first frame, with c = 0).
HistorySince(c) ==
  /\ Len(history) = IF Len(seen) - c > Window THEN Window ELSE Len(seen) - c
  /\ \A n \in DOMAIN history : history[n] = seen[Len(seen) - Len(history) + n]
  /\ c > 0 => c >= ClearConsecutive /\ \A q \in (c - ClearConsecutive + 1)..c : ~seen[q]

\* An open rule was opened by frame k, and the streak counts the quiet frames since.
OpenedBy(c, k) ==
  /\ seen[k] /\ Cardinality(Hits(c, k)) >= MofN
  /\ clearStreak < ClearConsecutive /\ clearStreak <= Len(seen) - k
  /\ seen[Len(seen) - clearStreak]
  /\ \A q \in (Len(seen) - clearStreak + 1)..Len(seen) : ~seen[q]
  /\ \A e \in (k + 1)..Len(seen) :
       \E q \in (e - ClearConsecutive + 1)..e : q <= k \/ seen[q]

DebouncerRemembers ==
  \E c \in 0..Len(seen) :
    /\ HistorySince(c)
    /\ IF isOpen THEN \E k \in (c + 1)..Len(seen) : OpenedBy(c, k)
                 ELSE \A k \in (c + 1)..Len(seen) : Cardinality(Hits(c, k)) < MofN

IInv ==
  /\ TypeOK
  /\ HubInv
  /\ WorkerHasTick
  /\ MessagesAreInOrder
  /\ TicksAreCounted
  /\ NothingOvertakes
  /\ DebouncerRemembers
  /\ DebounceIsExact
=============================================================================
