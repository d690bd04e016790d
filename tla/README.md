# Verification of factory-monitor-ai

TLA+ models, TLC runs and TLAPS proofs for the factory-floor monitor in
`src/factory-monitor-ai`: cameras at the edge detect missing protective
equipment, an incident is opened, and unless somebody acknowledges it the
system pages one responder after the other until it gives up. All paths below
are relative to `src/factory-monitor-ai`.

## 1. The system

    edge (engine, debouncer) --Kafka--> ingest worker --> Postgres <-- API (acknowledge, resolve)
        |                                                 ^   ^   ^          <-- Twilio webhook (1/2)
        |                        escalation workers ------+   |
        |                        notifier relays -------------+--> provider chain (Twilio)
        |                                                     |
        +--Redis--> detection / heatmap hubs      Redis pub/sub or polling --> WebSocket --> browser

Postgres is the only shared state of the back end: workers talk through rows,
row locks, leases written into rows, and unique keys. Redis pub/sub carries
best-effort hints. Everything else is one process per component with asyncio
concurrency inside it.

| Component | Source | State | Operations | What makes it correct |
|---|---|---|---|---|
| Escalation worker (N) | `cloud/escalation_worker/` | `incidents.status, current_tier, next_fire_at, claimed_until`; `escalation_idempotency`; `outbox`; `incident_events` | claim a batch under a lease, re-check each row under its lock, fire one tier, release after a failure | each tier once and in order, never after a close, never early, none forgotten |
| Incident actions | `cloud/common/incident_actions.py`, `cloud/api/routes.py` | the same rows | acknowledge, resolve | only from a status that allows it; ends the paging |
| Tier config, on-call | `cloud/common/escalation.py`, `cloud/common/on_call_resolver.py` | `escalation_tiers`, `on_call_assignments` (read) | most specific row | deterministic preference |
| Ingest worker (N) | `cloud/ingest_worker/` | `incidents`, `incident_events`, Kafka offsets | check, insert, commit, commit offset | one open incident per dedup key, one incident per event, no event lost |
| Notifier relay (N) | `cloud/notifier_worker/relay.py` | `outbox.status, attempts, next_attempt_at, claimed_until`; `messages` | claim, send, settle, retry, give up | each row recorded once, sent at least once or given up on, duplicates only after faults |
| Provider chain | `cloud/notifications/` | none | try providers in order | stops at the first that sends |
| Twilio webhook | `cloud/api/twilio_webhook.py` | `messages`, `incidents` | match a reply, acknowledge or resolve | a reply closes only what the phone was paged about; replies of one phone take turns |
| Live feed, server | `cloud/common/ws*`, `cloud/api/ws.py` | connections with their sequence numbers, the supervisor's subscriber or poller | publish, broadcast, snapshot, fall back to polling | clients converge to the database |
| Live feed, browser | `frontend/src/lib/liveReducer.ts`, `frontend/src/hooks/useLiveIncidents.ts` | incidents map, last sequence number | apply envelope, detect gaps, reconnect | never older than what it has shown; converges |
| Optimistic actions | `frontend/src/hooks/useIncidentActions.ts` | query cache | optimistic write, rollback, refetch | overlapping actions do not undo each other |
| Detection and heatmap hubs | `cloud/common/ws/detection_hub.py`, `heatmap_hub.py` | sockets and one relay task per camera | add, remove, relay | a camera with sockets has one live relay, one without has none |
| Edge | `edge/vision/`, `edge/publisher/` | per-track history, bounded queues | observe, emit, drop when full | one event per violation, opened at m of n frames |

**Interactions.** Ingest inserts an incident with a grace timer and, if an
operator is on call, an outbox row. Escalation workers find it by its timer,
insert further outbox rows, and stop when an API request or a reply to a message
has closed it. Relays drain the outbox. Every commit is followed by a
best-effort publish that the live feed turns into envelopes for browsers.

**Hard behaviours.** Claims are leases, not locks: the work is done later, in
another transaction, by a process that may have stalled. Requests decide on a
plain read. Crashes fall between two commits. Deliveries repeat. Counters meet
their maxima. Browsers lose, reorder and re-request. `PROJECT.json` lists each
such place as a hazard at its line, with the properties that cover it.

## 2. Modules

| Module | Models | Composed with |
|---|---|---|
| `EscalationLadder` | what escalation promises: one rung at a time, at most one page per rung, nobody left waiting | implemented by `Escalation`; names the statuses of `LiveFeed` |
| `Escalation` | escalation workers, acknowledge and resolve, the row ingest creates | |
| `Delivery` | what the notifier promises about a page | implemented by `Notifier`, relied on by `Replies` |
| `Notifier` | relays, provider chain, outbox rows | |
| `Replies` | the Twilio webhook: replies matched to pages | extends `Delivery` |
| `Ingest` | consumers, rebalances, unique indexes, offsets | |
| `LiveFeed` | publish, supervisor, poll fallback, connections, the browser's reducer | |
| `RelayHub` | sockets, relay tasks and subscriptions of a hub | |
| `Overlay` | camera to browser: engine, debouncer, sink, heatmap worker | extends `RelayHub` |
| `MC<Module>` | TLC instances | |
| `EscalationProofs`, `NotifierProofs`, `IngestProofs`, `RepliesProofs`, `RelayHubProofs`, `OverlayProofs`, `LiveFeedProofs` | proofs | each extends its module; `OverlayProofs` extends `RelayHubProofs` too |

The order in which they were written is by what the system is for: getting the
right person paged, once, in time; then not missing or doubling an incident; then
showing it and hearing the answer.

What is left: `OptimisticActions` (overlapping mutations of the browser's query
cache) and the `ORDER BY` preference of on-call assignments. Every safety property
that a passing run checks is proved; what could be proved beyond them is a bound on
how far a screen that stays connected may fall behind, and what survives of the
properties that findings 1 to 3 refute.

### 2.1 Escalation

One variable per column or local that matters; `Incidents`, `Workers` and
`Requests` are sets of model values.

| Model | Code |
|---|---|
| `status, tier, timer, lease` | `status`, `current_tier`, `next_fire_at`, `claimed_until` of `incidents` |
| `TierRows`, `FetchTierConfig` | `escalation_tiers` of the site and its lookup: a row for the anomaly type before one for all types, and any of several of those, since NULLs do not collide under the unique key |
| `fired`, `outbox`, `log` | rows of `escalation_idempotency`, `outbox`, `incident_events` |
| `pc, batch, row, newTimer` | where a worker is in `poll_once_ids`, the ids it has claimed and not visited, the row it is on, the timer it computed |
| `request` | an API call between its `SELECT` and its `UPDATE`: what it read |
| `Claim` | `_CLAIM_SQL` and its commit: locked rows are skipped, a batch is full or takes all |
| `OpenTransition` | `SELECT ... FOR UPDATE` and the re-check; waits for the row lock |
| `SkipRow` | the re-check fails |
| `CommitTransition` | `fire_transition` and commit: all four tables in one step |
| `VisitFails`, `ReleaseClaim`, `ReleaseFails` | the `except` branch of the loop |
| `Crash` | the process dies; its transaction is rolled back, its claims stay |
| `ReadForAck`, `ReadForResolve`, `WriteAck`, `WriteResolve`, `RequestDies` | `acknowledge_incident`, `resolve_incident`: read, guard, and the `UPDATE` of the attributes the ORM saw change |
| `Tick` | time: every timer and lease one tick nearer |

A transaction that is open shows only in the worker's own variables; the row
lock is `Locked`. The `UPDATE` of a request waits for that lock and overwrites
by id what it read before. `next_fire_at` is in it only if the copy that was
read had a timer (`armed`), because the ORM sends no unchanged attribute: the
invariant `RequestsRemember` is what makes that harmless.

Left out: `claimed_by` (written, read by nothing); the wording of events; which
person is paged (the roster is a choice between somebody and nobody); events
that the webhook adds without changing the incident. One clock is assumed:
skew between hosts shifts the delays, which the properties leave open.

### 2.2 Notifier

| Model | Code |
|---|---|
| `status, attempts, due, lease` | `status`, `attempts`, `next_attempt_at`, `claimed_until` of `outbox` |
| `messages` | rows of `messages` with direction `out` for the row |
| `delivered` | messages a provider has really sent for the row: the outside world |
| `pc, batch, ticket, row, hop, result` | where a relay is in `run_once` and `_settle_row`, its claimed rows, the `attempts` each was claimed with, the row in hand, the providers tried, the chain's answer |
| `Claim` | `_CLAIM_SQL` and commit: due `PENDING` rows and `SENDING` rows with an expired lease |
| `CallProvider`, `LoseAnswer` | one provider call; it answers, or the message goes out and the call raises |
| `Settle` | `SELECT ... FOR UPDATE`, the status check, and the outcome, one transaction |
| `Crash` | the relay dies, or an exception ends `run_once`, anywhere between claim and settle |
| `Enqueue` | ingest or escalation commits a row |

`ticket` is a history variable: nothing in the code compares it. It is there so
that a property can say *whose* claim a settle ends. Which due rows a poll takes
when there are more than a batch is left open (the code orders by
`next_attempt_at`); the free-form branch of the WhatsApp provider is left out
because every outbox row this code writes is a template.

### 2.3 Ingest

One partition of the anomalies topic, because the edge keys its events by camera
and the camera is part of the dedup key: whatever can collide is in one partition.

| Model | Code |
|---|---|
| `log, committed, owner` | the partition, the group's offset, the consumer it is assigned to |
| `created`, `open` | incidents whose `CREATED` event has this `source_event_id`; incidents of a key in `_OPEN_STATUSES` |
| `dlq` | the dead letter topic |
| `pc, event, pos` | where a consumer is in `handle_message`, the message in hand, its next offset |
| `Poll`, `SendToDlq` | the next message; one that does not validate is sent on |
| `CheckSeen`, `CheckOpen` | the two queries, before the insert and again in the `except IntegrityError` branch |
| `InsertIncident`, `InsertAudit` | the two flushes under `uq_incident_open_dedup` and `uq_event_source`; each waits for an uncommitted row with its key and fails on a committed one |
| `CommitIncident` | the rest of the transaction and its commit |
| `CommitOffset` | `consumer.commit()`; no effect for a consumer that has lost the partition |
| `Rebalance`, `Assign` | the group's decisions; a consumer that loses the partition goes on with the event it has |
| `Fail` | a crash, or an exception that `run_forever` logs and raises |
| `Close` | an incident leaves the open statuses: section 2.1 in one step |

Queries see committed rows only. The tier-0 outbox row is part of
`CommitIncident` and appears in `Notifier` as `Enqueue`; the publish after the
commit changes no state here.

### 2.4 LiveFeed

A row is its status and tier, and, as history, how often it has been written
(`version`). `updated_at` is a stamp taken when a transaction begins, because the
writers set the column before they commit; so stamps do not follow the order of
commits. Any number of transactions may be open on a row. An acknowledgement or a
resolution decides on the row as it was read and writes its status by id when it
commits, whatever the row is then: `RESOLVED` may turn into `ACK` here as in finding
2. A climb looks at the row again under its lock (`Skips`).

| Model | Code |
|---|---|
| `row, updated, txn, clock` | `status`, `current_tier`, `updated_at` of `incidents`; the open transactions; the stamps given out |
| `announce` | changes committed whose `publish_incident_event` is still to come |
| `inbox, hand` | the subscriber's buffer; by task the rows read and not yet broadcast |
| `sup, cursor` | where `FanoutSupervisor.run` is, and the cursor of `PostgresPollFallback.run` |
| `link, views, beat, seq` | a connection in `ConnectionManager` and `ws_live`: its state, the views read for a snapshot or a timer snapshot, its last number |
| `wire, known, lastSeq` | envelopes under way; `incidents` and `lastSeq` of the reducer's state |
| `lost, failed, raced` | history: why an incident may be missing from a screen |
| `BeginCreate`, `BeginClimb`, `BeginClose`, `Commit` | the writers: ingest, escalation, and the API or the webhook; a begin is the read and the stamp, the commit the write |
| `Publish`, `WriterDies` | the publish after the commit, and the process that does not get there |
| `Probe`, `Subscribe`, `SubscriberEnds`, `WindowEnds`, `Drained`, `PollHangs` | one turn of the supervision loop: Redis or the poll, and what ends either |
| `Receive`, `Poll`, `Broadcast` | `handle_raw` re-reads the row; `poll_changes_once` reads a page; `manager.broadcast` |
| `ReceiveFails`, `PollFails` | the `except` branches: a change that cannot be decoded, re-read or broadcast is logged and gone while the subscriber listens on; a page that fails in the middle leaves the cursor where it was and is sent again by the next poll |
| `Connect`, `QuerySnapshot`, `SendSnapshot`, `Heartbeat`, `ReadTimers`, `SendTimers`, `Drop` | `ws_live`, `_receive_loop` and `_broadcast_loop` |
| `Deliver` | `onmessage` and `applyEnvelope` |

`known` is the reducer's state; after a reconnect the page shows the old list
until the first envelope, which is its snapshot or something newer. The REST list
that the page shows before its first envelope is left out, and so is the envelope
`incident.resolved`, for which no writer publishes a change. Heartbeats and timers
are spent from the same bound as faults, since each adds a number to the wire and
nothing else.

### 2.5 Delivery and Replies

`Delivery` says what becomes of a page as those who read the messages table see
it: `stage` and `reached`, four actions. `Notifier!Promise` maps an outbox row's
status to a stage (`PENDING` and `SENDING` are `OPEN`) and `delivered > 0` to
`reached`.

| Model | Code |
|---|---|
| `page` | incident and phone of an outbox row |
| `begun` | the settles in the order in which their transactions began: `created_at`, the column's default `now()`, is the time of that |
| `messages` | the positions in `begun` of the settles that have put an `out` message into the table |
| `incident, closes` | `incidents.status`; the `ACK` and `RESOLVED` events the webhook has written |
| `handler` | a request in `twilio_inbound`: where it is, what it has matched and read |
| `Page`, `Send` | an outbox row is committed; it is sent or given up |
| `BeginSettle`, `Settle` | `_settle_row` opens its transaction, and commits; two relays may settle one row, and the later one finds it settled |
| `Arrive` | a message comes in; a repeated delivery is another `Arrive`, since nothing compares the `MessageSid` |
| `Match`, `OpenWindow`, `ReadIncident`, `Commit`, `HandlerDies` | the newest message to the phone; the upsert of `whatsapp_sessions`, which waits for another request of the phone; the read; the writes and the commit; a rollback |
| `Elsewhere` | the API and the escalation workers: section 2.1 in one step |

A settle that began early may commit late, so messages appear in another order than
that of `created_at`, by which the webhook sorts: a reply may be matched to a page that
the person has not meant, or to one older than another that will appear next. Which page
a reply is about is not in the model because the code cannot know it; what can be asked
is whether the phone was sent a page about the incident its reply closes
(`ClosedByThePaged`).

### 2.6 RelayHub and Overlay

| Model | Code |
|---|---|
| `kind` | which hub: they differ in when they start a task and what they forget |
| `sockets, relay, pubsub` | `_sockets`, `_relay_tasks`, `_pubsubs` of a camera, or the heatmap hub's single ones |
| `handler, here` | where a WebSocket handler is; whether its browser is there |
| `task, inbox, subs, frame, todo, dead` | relay tasks, subscriptions in Redis, the round of sends a task is in |
| `shown` | the latest overlay a browser got |
| `Add`, `Subscribe`, `SubscribeFails`, `Remove`, `Unsubscribe` | `add` and `remove`, which hold the lock over their awaits |
| `Take`, `SendTo`, `RelayCrashes` | the relay task |
| `history, isOpen, clearStreak` | the debouncer's state of one (track, rule) key |
| `engine, queue` | between frames or waiting for Kafka; the sink's queue |
| `topic, committed, position, worker, stored, skipped` | the heatmap topic and its worker |
| `Frame`, `PublishAnomaly`, `EdgeRestarts`, `Drain`, `DrainLoses` | `VisionEngine.run`, the drain task of either sink, the process |
| `Store`, `Republish`, `RepublishFails`, `CommitOffset`, `WorkerRestarts` | `consumer.py` of the heatmap worker, with `auto_offset_reset` latest |

One camera and one track: cameras share only the hub's lock, keys share nothing.
Overlay messages are numbered over all lives of the edge process, as the payload's
`seq` is not. Left out: `close()` at shutdown, and a socket that accepts bytes so
slowly that the send blocks (`heatmap_hub.py:6` says such a socket is dropped; the
code drops one whose send raises, and awaits each send without a timeout).

## 3. What the runs check

All runs are small instances of the modules above; symmetry is used only where
no liveness is checked. `Lease` is one or two ticks, because only "has it run
out" matters; `Grace` and the delays are at most two, because only "reached or
not" matters. `TierRows` has a row for the anomaly type beside a site-wide one for one
tier and a site-wide one alone for another; in `EscalationPrompt` a tier has only a
row for another type.

| Run | Instance | Shows |
|---|---|---|
| `EscalationSafety` | 1 incident, 2 fair workers, 2 requests, 2 faults | `TiersAreAccountedFor`, `AuditTellsTheClimb`, `LockedRowsCanFire`, the refinement `ImplementsLadder` with its fairness and `EveryIncidentSettles`, with workers that may stall past their leases |
| `EscalationPrompt` | leases hold; batches of 2, a request, a fault; no configuration row for tier 2 | claims are exclusive, no tier fires early, closing silences (`EndedIsQuiet`), and only missing configuration leaves an active incident without a timer (`StrandedOnlyWithoutConfig`) |
| `EscalationEarlyFire` | leases may run out | **violated**: a tier fires early (finding 1) |
| `EscalationStaleAction` | 2 requests, no fault | **violated**: `ActionsRespectStatus` (finding 2) |
| `NotifierRace` | 2 rows, 2 relays that may stall, 2 providers, a fault, 3 claims | `OneRecordPerRow` survives late settles, and the relays implement `Delivery` (`ImplementsDelivery`) |
| `NotifierPrompt` | leases hold, fair relays, batches of 2, 2 providers, 2 faults | duplicates and attempts are bounded by faults; only the holder settles; settled is final; every row settles |
| `NotifierLateSettle` | leases may run out, no fault | **violated**: `OnlyHolderSettles` (finding 3) |
| `Ingest` | 3 events of one key, a malformed one, 2 consumers, a fault | one open incident per key, one per event, nothing lost below the committed offset, and `EveryEventIsConsumed` |
| `LiveFeed` | 2 incidents and 2 transactions, or 1 and 3; 1 browser, polls of 1 row, 1 upset | sequence numbers never gap or repeat (`EveryEnvelopeApplies`); broadcasts follow the commits of the row, a stale acknowledgement included (`BroadcastsNeverGoBack`); an incident missing from a screen has one of the known causes (`MissingIsExplained`); what was heard or polled arrives; the feed returns to Redis |
| `LiveFeedSilentClose` | nothing goes wrong | **violated**: `ClosedIncidentsAreShown` (finding 4) |
| `Replies` | 2 pages, 2 incidents, 2 phones, 2 settles, 2 requests at once, 3 replies, one failing | replies of a phone take turns; only who was paged closes, in whatever order messages appear |
| `Overlay` | either hub, 2 connections, a hub fault; a queue of 1, 2 overlay messages, a restart or a lost publish; or every sequence of 7 observations of a 2-of-3 rule | no socket without its relay, no relay without a socket; overlays go forward and arrive; ticks are stored; the debouncer reports each opening once |

**Bounds.** Two workers and two requests give every pairwise race, and a third
worker only repeats what the second can do to a row that is held or not held.
Two faults allow a failure and then the failure of its release, or a crash of
each worker. Two incidents in one batch show that one row's fate does not leak
into another's; the row-wise properties are otherwise about one row. `MaxFaults`
and `MaxClaims` are bounds of the model and not of the code. `Ingest` needs three events of one
key before the index on open incidents does anything: a consumer that has lost the
partition must still hold the second event, already dropped by its successor, while
the third is inserted. An incident of `LiveFeed` needs two transactions for a change
to follow its creation, and a third for two closes that both read it open;
two creations fill more than one page of the poll. `MCLiveFeed` allows the second
incident or the third transaction, not both, and the third only for that race
(`SmallNext`); it cuts off nothing but transactions that would begin, of which no
fairness is assumed. One upset suffices for a fallback, a snapshot race, a reconnect
or an error of the subscriber or of a poll, and does not combine them (the safety
properties have been checked with two upsets too, and are proved for any number); a poll
that hangs ends the supervisor and needs no bound. In `Replies` two settles
are one for each page, whose messages may appear in either order, or both for the
same page, of which one only records it.
In `Overlay` the frames that carry the track and the overlay
messages exclude each other (`FramesOfTrack`): the two halves share no state but the
restart, and seven frames open a 2-of-3 rule, clear it and open it again. The hub's
first task is stopped and a second one started by two connections. `Ingest` and the
two runs of `LiveFeed` do not check deadlock: when every event is consumed, or every
announcement made and every envelope delivered, nothing is left to do. `MaxClaims` is
reached only where relays may stall (`NotifierRace`, `NotifierLateSettle`); in
the other runs `attempts` stays below it.

**Fairness.** `run_until_stopped` and `run_forever` are loops that log any
exception and poll again, so a worker or relay that can do something in the end
does (weak fairness on its whole `Work` action), and time passes. A consumer
takes its next step, is started again when it ends (`restart: unless-stopped` in
`compose.yaml`), and the group assigns a partition that nobody has. Nothing is
assumed of the edge, of requests or of the people. Faults are bounded: a worker
that fails on every poll for ever settles nothing. `EveryRowSettles` assumes also
that leases hold: a relay that always outlives its lease lets others re-send and
count attempts for ever. In `LiveFeed` a transaction that has begun commits and is
announced, the supervisor and its tasks run, sockets deliver and a browser reconnects
with a growing delay for ever; nobody assumes that Redis comes back. In `Overlay` only
the handlers and relay tasks of the hub are fair, which is what an event loop gives
and what `FramesArrive` needs; nothing is assumed of browsers, edge or worker.

**Findings.**

1. *A stalled worker fires early.* The re-check under the lock asks for an
   active status and some timer, not for a timer that has been reached nor for
   its own claim. A worker that was paused past its lease, while another fired
   the tier, fires the next one at once. The idempotency row does not help: it
   is keyed by the tier, and the tier is the next one. `LockedRowsCanFire` says
   this in general: the insert never conflicts.
2. *Acknowledge and resolve decide on a stale read.* Two requests, or a request
   and the last tier, can both succeed; a `RESOLVED` or `CRITICAL_UNRESOLVED`
   incident turns back into `ACK`. Paging stops in any case (`EndedIsQuiet`).
3. *A late relay settles another's claim.* The comment asks for the claim, the
   code for the status.
4. *A close is silent.* The routes pass the Redis client where `_publish_after`
   expects a callable, and the webhook announces nothing, so no acknowledgement and
   no resolution reaches a screen while Redis is up. The poll fallback does show
   them, having read the row.

**Further observations**, for which no run is kept:

- `README.md:76-79` calls delivery exactly-once by the provider's idempotency key;
  no provider call passes one. What holds is that every extra message is paid for by
  a fault (`DuplicatesNeedAFault`), with leases that hold.
- An event dropped because an incident of its key is open leaves nothing behind
  that knows its id (`service.py:109`). Delivered again after that incident was
  closed, it opens a new one; still at most one (`OncePerEvent`).
- A connection is registered before its snapshot is read. An incident created and
  broadcast between the query and the send is taken off the screen again by the
  snapshot: the `raced` of `MissingIsExplained`.
- The subscriber re-reads the row of each change it hears and logs what goes wrong
  (`subscriber.py:50-55`). A creation dropped so is shown only after the next connect,
  or when a poll happens to read it: the `failed` of `MissingIsExplained`.
- The screens follow the table, and the table may go from `RESOLVED` to `ACK`
  (finding 2): `BroadcastsNeverGoBack` is about the writes of a row, not about its
  statuses.
- `created_at` of a message is not the order in which messages appear, and the webhook
  takes the newest: a reply can close another incident than the one it was meant for,
  though only one that the phone was paged about (`ClosedByThePaged`).
- A poll that takes more than five seconds to stop raises `TimeoutError` out of
  `FanoutSupervisor.run` (`fanout.py:62`), after which neither push nor poll feeds
  the screens: the `"dead"` of `FeedComesBack`, against `fanout.py:5-6`.
- A hub whose subscribe fails keeps the socket in its set, and its relay is not
  stopped when the others leave: the `"failed"` that `NothingLeftBehind` excludes.
- The detection hub does not start a crashed relay again while a socket is there.
- An incident whose announcement nobody heard, and that the poll's window missed,
  is shown only after the next connect, or when a poll reads a later change of it:
  `incident.tier_advanced` patches a row the screen knows and adds none.

## 4. What is proved

For every value of the constants that satisfies the named assumptions
(`EscalationAssumption`, `NotifierAssumption`, `IngestAssumption`, `RepliesAssumption`,
`RelayHubAssumption`, `OverlayAssumption`, `LiveFeedAssumption`), checked by TLAPS. Two of them say more than that a bound is a number. `LiveFeed` has finitely
many incidents, so that a page of the poll can be counted. `Overlay` has `MofN +
ClearConsecutive > Window`, as 8, 6 and 12 in `run_edge.py:125` and in
`DebounceConfig`: a quiet run that clears a rule then leaves too few frames in the
window to open it, which is what makes forgetting the history harmless.

| Theorem | Statement |
|---|---|
| `EscalationProofs!TypeCorrect` | `Spec => []TypeOK` |
| `EscalationProofs!InductiveInvariant` | `Spec => []IInv` |
| `EscalationProofs!TierAccounting`, `EndedIncidentsAreQuiet`, `NoSilentStranding`, `IdempotencyGuardIsIdle` | the safety invariants of the runs |
| `EscalationProofs!AuditTrail` | `Spec => []AuditTellsTheClimb` |
| `EscalationProofs!RefinesLadder` | `Spec => ImplementsLadderSafety`, the safety part of `ImplementsLadder` |
| `EscalationProofs!PromptWorkersFireWhenDue`, `ClaimsExclusive` | `PromptSpec => FiresOnlyWhenDue`, `PromptSpec => []ClaimsAreExclusive` |
| `NotifierProofs!TypeCorrect`, `OneRecord` | `Spec => []TypeOK`, `Spec => []OneRecordPerRow` |
| `NotifierProofs!ClaimsAreOfRows`, `RelaysImplementDelivery` | `Spec => []ClaimedRowsExist`, `Spec => ImplementsDelivery` |
| `NotifierProofs!PromptRelays`, `Duplicates`, `Attempts`, `HolderSettles`, `SettledIsFinal` | what holds when leases do |
| `IngestProofs!TypeCorrect`, `InductiveInvariant`, `OneOpenIncident`, `OneIncidentPerEvent`, `CommittedIsCovered` | `Spec => []TypeOK`, `[]IInv` and the safety invariants of the run |
| `RepliesProofs!InductiveInvariant`, `TypeCorrect`, `TurnsAreTaken`, `ClosersWerePaged` | the same for `Replies` |
| `OverlayProofs!InductiveInvariant`, `TypeCorrect`, `SocketsAreServed`, `NothingStays`, `TicksStored`, `DebouncerExact`, `GoesForward` | the same for `Overlay` and the `RelayHub` in it; the last one is `Spec => OverlayGoesForward`, an action property |
| `LiveFeedProofs!InductiveInvariant`, `TypeCorrect`, `EnvelopesApply`, `NeverBack`, `MissingExplained` | the same for `LiveFeed` |

**Escalation.** The safety properties are not inductive on their own. That tiers
and idempotency rows agree after a commit needs to know that the transaction
still finds the row it read (`OpenTransactions` under the row lock); that an ended
incident is quiet needs to know that no transaction is open on it and that a
request which read no timer still finds none (`RequestsRemember`). `IInv` is
their conjunction. The audit trail needs an induction of its own over the events
appended, on top of `IInv`. The refinement maps `status` to itself and `outbox`
to `paged`: a commit is a `Climb`, a request a `Close`, everything else a
stutter.

**Notifier.** Whatever relays do, `OneRecordPerRow` rests on a settle that
writes only over `SENDING`, and on an answer "sent" standing for a message sent
(`AnswersAreTrue`). The other theorems are about `PromptSpec`: each step leaves
every claimed row with a lease that is still running (`LeasesHold`). The
invariant is then that a claimed row is `SENDING`, in one relay's batch only,
with the attempt it was claimed with (`ClaimsAreHeld`); the count of attempts and
of duplicates follow from it. `NotifierLateSettle` shows that the assumption is
needed.

**Ingest.** `OneOpenPerKey` and `OncePerEvent` hold at a commit because the index
entry of the uncommitted row has kept every other consumer out since the insert
(`KeysAreHeld`). `NothingIsLost` needs to know what lies behind the owner's
position: only covered events, and the one in its hands (`PositionsAreCovered`);
and that an open incident proves that some event of its key has created one
(`OpenWasCreated`).

**Delivery.** That the relays implement it needs `OneRecord`'s invariant (a row
settled as sent was sent) and `ClaimedRowsExist`: a relay whose lease ran out may
still send, but only a row that was once enqueued, which is what lets `Delivery!Reach`
happen after the page is settled and never before it is queued.

**Replies.** The properties are about events of different requests, so the invariant
says what a request in flight knows. The session upsert is a lock by phone
(`OneWindowPerPhone`), and since the incident is read under it, a request that has
read `ACTIVE` knows that its own phone has closed nothing (`ClosesAreSeen`): that is
`PhonesTakeTurns` at the commit. A match is a recorded page to the phone that sent the
reply (`RequestsAnswerPages`), whichever settle began or committed first; recorded
pages were sent (`RecordsAreTrue`), and that is `ClosedByThePaged` at the commit.

**RelayHub.** Add and remove hold one lock over their awaits (`OneHandlerLocks`), a
task number is never used again (`NumbersAreFresh`, and there are enough of them,
`StartsAreCounted`), and only the task the hub knows runs, on the subscription it
knows (`OneRelay`).

**Overlay.** `MessagesAreInOrder` puts numbers along queue and topic in order and
`NothingOvertakes` continues that through subscription and round of sends to what the
browsers have; it holds for the heatmap only as long as nothing made the worker repeat
a tick, and the induction carries exactly that condition. `TicksAreCounted` counts a
tick's stores against the faults, on either side of the worker's position. For the
debouncer, `DebouncerRemembers` says which frames the code's history still holds: the
end of the window since the last clearing `c`, and, while the rule is open, the frame
that opened it and the quiet run since. That the code's counts over a history it has
cleared agree with the reading of all frames (`OpenAfter`) then is a matter of
cardinalities: what was before `c` lies behind a quiet run.

**LiveFeed.** Every commit raises the row's `version` by one, whatever it does to the
status, and the transactions still open, with the versions written, are not more than
those begun (`VersionsAreCounted`, which is what bounds a version). So a state that was
read is never ahead of its row, and `BroadcastsNeverGoBack` needs that two tasks never
hold rows at once (`OneTaskReads`): the supervisor waits for the poll before it
subscribes, and a subscriber ends with empty hands. A page that is sent again after an
error has been read again. `NumbersRunOn` is the exact form of `EveryEnvelopeApplies`.
`OpenAreAccountedFor` follows every creation from the commit to the wire
(`CreationKnown`: announced, in the inbox, in hand, heard by nobody, or failed over), and
starts at the query of the snapshot: it does not need the poll, which only ever adds to
what a screen is told. `SnapshotsAreMissing` says that whatever a snapshot under way
will take off a screen is in `raced`. The invariant was checked with TLC before it was
proved.

**Only model-checked.** Liveness (`EveryIncidentSettles`, `ImplementsLadder`,
`EveryRowSettles`, `EveryEventIsConsumed`, `HeardChangesArrive`, `FeedComesBack`,
`FramesArrive`): fairness and `ENABLED` are out of the prover's reach. The inductive
invariants (`IInv`, `PromptInv`), `ClaimedRowsExist` and `ImplementsLadderSafety` are
proved and no run repeats them.

## 5. Not modelled

- `useIncidentActions`: it patches the cache of the REST list, which the page stops
  showing once the first envelope has arrived; the list itself is left out.
- The on-call lookup beyond "there is somebody, anybody, or nobody": which of two
  overlapping assignments wins is one `ORDER BY`.
- The signature check of the webhook, the free-form branch of the WhatsApp provider
  (no outbox row takes it), the text of dedup keys, zones and anchors of the engine.
- Shutdown of the API (`close()` of hubs and sinks), sockets that block, and the
  reconnect timers of the overlay views (`useDetections`, `useHeatmap`).
- Clock skew between hosts, and the browser's smoothed clock offset (arithmetic on
  reals).
- Image processing, tracking and configuration parsing; media negotiation and
  rendering; telemetry, metrics and logging; migrations, seeds, load tests and
  deployment.

Each component's status is in `PROJECT.json`.

## 6. Running

    tlc -workers 2 -config EscalationSafety.cfg MCEscalation.tla
    tlapm EscalationProofs.tla

Each `.cfg` is named after its run. Operators marked `Mutant` stand for a
plausible bug in the definition below them; no specification uses them.
