------------------------------ MODULE LiveFeed ------------------------------
(***************************************************************************)
(* How a change of an incident reaches the screens: writers that commit    *)
(* and then announce over Redis, the supervisor that listens to Redis or   *)
(* polls Postgres, one WebSocket per browser with sequence numbers of its  *)
(* own, the snapshot at connect, and the reducer in the browser.           *)
(*                                                                         *)
(*   cloud/common/ws_publisher.py, cloud/common/ws/*.py, cloud/api/ws.py   *)
(*   frontend/src/lib/liveReducer.ts, frontend/src/hooks/useLiveIncidents.ts*)
(*                                                                         *)
(* A row is its status and tier, and (history) how often it has been       *)
(* written.  updated_at is a stamp: the number of transactions begun,      *)
(* taken when the transaction begins (the writers set the column before    *)
(* they commit), so stamps do not follow commit order.                     *)
(***************************************************************************)
EXTENDS Integers, Sequences, FiniteSets

CONSTANTS
  Incidents,
  Browsers,
  Batch,        \* rows the fallback reads per poll
  MaxChanges,   \* bound on the transactions that change an incident
  MaxUpsets     \* bound on outages, drops, dying writers, errors and beats together

ASSUME LiveFeedAssumption ==
  /\ IsFiniteSet(Incidents)
  /\ Batch \in Nat \ {0}
  /\ MaxChanges \in Nat
  /\ MaxUpsets \in Nat

VARIABLES
  \* the incidents table, and the open transactions that will write to it
  row, updated, txn, clock,
  \* changes committed and not yet announced; Redis; the subscriber's buffer
  announce, redisUp, inbox,
  \* the supervisor, the fallback's cursor, and by task the rows it has read and
  \* not yet broadcast
  sup, cursor, hand,
  \* per connection, in the server: its state, the views a query has read for a
  \* snapshot or for a beat, whether a beat is on its way, the last sequence number
  link, views, beat, seq,
  \* per browser: envelopes on their way, and the LiveState of the reducer
  wire, known, lastSeq,
  \* history: incidents whose announcement found nobody listening; changes whose
  \* re-read or broadcast raised; and, per browser, the incidents that a broadcast
  \* had shown and the snapshot took away again
  lost, failed, raced,
  \* how much has gone wrong, or by the clock, so far
  upsets

db       == <<row, updated, txn, clock>>
feed     == <<announce, redisUp, inbox, sup, cursor, hand>>
server   == <<link, views, beat, seq>>
browser  == <<wire, known, lastSeq>>
history  == <<lost, failed, raced>>
vars     == <<db, feed, server, browser, history, upsets>>

Ladder == INSTANCE EscalationLadder
            WITH status <- [i \in Incidents |-> row[i].status], paged <- [i \in Incidents |-> {}]

NoRow == [status |-> "NOT_CREATED", tier |-> 0, version |-> 0]
Empty == <<>>   \* no rows: a function with an empty domain
Tasks == {"push", "poll"}

\* _ACTIVE_STATUSES: what a snapshot and a timer snapshot contain.
ActiveStatuses == Ladder!Active \cup {"CRITICAL_UNRESOLVED"}

Exists(i) == row[i].status # "NOT_CREATED"
ActiveViews == [i \in {j \in Incidents : row[j].status \in ActiveStatuses} |-> row[i]]

-----------------------------------------------------------------------------
Init ==
  /\ row = [i \in Incidents |-> NoRow]
  /\ updated = [i \in Incidents |-> 0]
  /\ txn = {}
  /\ clock = 0
  /\ announce = {} /\ redisUp = TRUE /\ inbox = <<>>
  /\ sup = "probe" /\ cursor = 0 /\ hand = [t \in Tasks |-> <<>>]
  /\ link = [b \in Browsers |-> "off"]
  /\ views = [b \in Browsers |-> Empty]
  /\ beat = [b \in Browsers |-> "none"]
  /\ seq = [b \in Browsers |-> 0]
  /\ wire = [b \in Browsers |-> <<>>]
  /\ known = [b \in Browsers |-> Empty]
  /\ lastSeq = [b \in Browsers |-> 0]
  /\ lost = {} /\ failed = {} /\ raced = [b \in Browsers |-> {}]
  /\ upsets = 0

(***************************************************************************)
(* Writers: ingest creates, an escalation worker climbs, the API or the    *)
(* webhook closes.  Begin stands for a transaction that has its timestamp  *)
(* and, if it closes, has read the row and decided; only the commit writes.*)
(* Any number of them may be open on a row.  Who may begin one when is the *)
(* business of Escalation.                                                 *)
(***************************************************************************)
Begin(i, does) ==
  /\ clock < MaxChanges
  /\ clock' = clock + 1
  /\ txn' = txn \cup {[inc |-> i, does |-> does, stamp |-> clock + 1]}
  /\ UNCHANGED <<row, updated, feed, server, browser, history, upsets>>

BeginCreate(i) ==
  /\ ~Exists(i)
  /\ \A t \in txn : t.inc # i
  /\ Begin(i, "created")

BeginClimb(i) == row[i].status \in Ladder!Active /\ Begin(i, "tier_advanced")

\* acknowledge and resolve decide on a plain read, and so does the webhook.
BeginClose(i) ==
  \E s \in Ladder!Closed :
    /\ row[i].status \in Ladder!Active \cup {"ACK"}
    /\ row[i].status # s
    /\ Begin(i, s)

\* A climb reads the row under its lock, and leaves it if it is not active any more.
Skips(t) == t.does = "tier_advanced" /\ row[t.inc].status \notin Ladder!Active

\* A close writes the status by id, over whatever the row has become.
Written(t) ==
  LET was == row[t.inc] IN
  CASE t.does = "created" -> [status |-> "AWAITING_OPERATOR", tier |-> 0, version |-> was.version + 1]
    [] t.does = "tier_advanced" ->
         [status |-> Ladder!RungAbove[was.status], tier |-> was.tier + 1, version |-> was.version + 1]
    [] t.does \in Ladder!Closed ->
         [status |-> t.does, tier |-> was.tier, version |-> was.version + 1]

\* The routes hand _publish_after the Redis client, which is not callable, and
\* the webhook announces nothing: a close has no announcement.
Announces(t) ==
  IF t.does \in Ladder!Closed THEN {} ELSE {[inc |-> t.inc, kind |-> t.does]}

Commit(t) ==
  /\ t \in txn
  /\ txn' = txn \ {t}
  /\ IF Skips(t)
       THEN UNCHANGED <<row, updated, announce>>
       ELSE /\ row' = [row EXCEPT ![t.inc] = Written(t)]
            /\ updated' = [updated EXCEPT ![t.inc] = t.stamp]
            /\ announce' = announce \cup Announces(t)
  /\ UNCHANGED <<clock, redisUp, inbox, sup, cursor, hand, server, browser, history, upsets>>

\* The incidents whose creation these changes would have announced.
Unheard(changes) == {c.inc : c \in {d \in changes : d.kind = "created"}}

\* Redis forgets what nobody is subscribed to; an error is logged and forgotten.
Publish(a) ==
  /\ a \in announce
  /\ announce' = announce \ {a}
  /\ IF redisUp /\ sup = "listen"
       THEN inbox' = Append(inbox, a) /\ UNCHANGED lost
       ELSE lost' = lost \cup Unheard({a}) /\ UNCHANGED inbox
  /\ UNCHANGED <<db, redisUp, sup, cursor, hand, server, browser, failed, raced, upsets>>

\* The writer dies between its commit and its publish.
WriterDies(a) ==
  /\ upsets < MaxUpsets
  /\ a \in announce
  /\ announce' = announce \ {a}
  /\ lost' = lost \cup Unheard({a})
  /\ upsets' = upsets + 1
  /\ UNCHANGED <<db, redisUp, inbox, sup, cursor, hand, server, browser, failed, raced>>

-----------------------------------------------------------------------------
(***************************************************************************)
(* Redis and the supervisor.                                               *)
(***************************************************************************)
RedisFails ==
  /\ redisUp /\ upsets < MaxUpsets
  /\ redisUp' = FALSE
  /\ upsets' = upsets + 1
  /\ sup' = IF sup = "listen" THEN "broken" ELSE sup
  /\ UNCHANGED <<db, announce, inbox, cursor, hand, server, browser, history>>

RedisReturns ==
  /\ ~redisUp
  /\ redisUp' = TRUE
  /\ UNCHANGED <<db, announce, inbox, sup, cursor, hand, server, browser, history, upsets>>

\* The supervision loop asks Redis; a fallback starts its cursor at its own now.
Probe ==
  /\ sup = "probe"
  /\ IF redisUp
       THEN sup' = "subscribe" /\ UNCHANGED cursor
       ELSE sup' = "poll" /\ cursor' = clock
  /\ UNCHANGED <<db, announce, redisUp, inbox, hand, server, browser, history, upsets>>

Subscribe ==
  /\ sup = "subscribe"
  /\ sup' = IF redisUp THEN "listen" ELSE "probe"
  /\ UNCHANGED <<db, announce, redisUp, inbox, cursor, hand, server, browser, history, upsets>>

Item(i, kind) == [inc |-> i, kind |-> kind, row |-> row[i], stamp |-> updated[i]]

\* handle_raw takes a change and reads the row again, whatever the change said.
Receive ==
  /\ sup \in {"listen", "broken"}
  /\ inbox # <<>> /\ hand["push"] = <<>>
  /\ hand' = [hand EXCEPT !["push"] = <<Item(Head(inbox).inc, Head(inbox).kind)>>]
  /\ inbox' = Tail(inbox)
  /\ UNCHANGED <<db, announce, redisUp, sup, cursor, server, browser, history, upsets>>

\* The payload is unreadable, or the re-read or the broadcast raises: handle_raw
\* logs it, the change is dropped and the subscriber goes on listening.
ReceiveFails ==
  /\ sup \in {"listen", "broken"}
  /\ inbox # <<>> /\ hand["push"] = <<>>
  /\ upsets < MaxUpsets
  /\ upsets' = upsets + 1
  /\ inbox' = Tail(inbox)
  /\ failed' = failed \cup {Head(inbox)}
  /\ UNCHANGED <<db, announce, redisUp, sup, cursor, hand, server, browser, lost, raced>>

\* get_message raises on the broken connection, and with it goes its buffer.
SubscriberEnds ==
  /\ sup = "broken" /\ hand["push"] = <<>>
  /\ sup' = "probe"
  /\ inbox' = <<>>
  /\ lost' = lost \cup Unheard({inbox[n] : n \in DOMAIN inbox})
  /\ UNCHANGED <<db, announce, redisUp, cursor, hand, server, browser, failed, raced, upsets>>

\* The rows past the cursor, oldest first, at most Batch of them.
Due == {i \in Incidents : Exists(i) /\ updated[i] > cursor}

\* Mutant: the page has no LIMIT.
PageUnlimited(ids) ==
  /\ Len(ids) = Cardinality(Due)
  /\ \A m, n \in DOMAIN ids : m < n => updated[ids[m]] < updated[ids[n]]

Page(ids) ==
  /\ Len(ids) = (IF Cardinality(Due) < Batch THEN Cardinality(Due) ELSE Batch)
  /\ \A m, n \in DOMAIN ids : m < n => updated[ids[m]] < updated[ids[n]]
  /\ \A i \in Due : \A n \in DOMAIN ids :
       i \in {ids[k] : k \in DOMAIN ids} \/ updated[ids[n]] < updated[i]

\* poll_changes_once reads a page; Broadcast moves the cursor when it is through.
Poll ==
  /\ sup = "poll" /\ hand["poll"] = <<>> /\ Due # {}
  /\ \E n \in 1..Cardinality(Due) : \E ids \in [1..n -> Due] :
       /\ Page(ids)
       /\ hand' = [hand EXCEPT !["poll"] = [k \in 1..n |-> Item(ids[k], "updated")]]
  /\ UNCHANGED <<db, announce, redisUp, inbox, sup, cursor, server, browser, history, upsets>>

\* A row of the page raises: the rest is not sent, and the next poll, if there is
\* one, starts from the old cursor and sends the page again.
PollFails ==
  /\ hand["poll"] # <<>>
  /\ upsets < MaxUpsets
  /\ upsets' = upsets + 1
  /\ hand' = [hand EXCEPT !["poll"] = <<>>]
  /\ failed' = failed \cup
       {[inc |-> hand["poll"][k].inc, kind |-> "updated"] : k \in DOMAIN hand["poll"]}
  /\ UNCHANGED <<db, announce, redisUp, inbox, sup, cursor, server, browser, lost, raced>>

\* The supervision window is over: the fallback is told to stop ...
WindowEnds ==
  /\ sup = "poll"
  /\ sup' = "drain"
  /\ UNCHANGED <<db, announce, redisUp, inbox, cursor, hand, server, browser, history, upsets>>

\* Mutant: nobody waits for the fallback.
DrainedAtOnce ==
  /\ sup = "drain"
  /\ sup' = "probe"
  /\ UNCHANGED <<db, announce, redisUp, inbox, cursor, hand, server, browser, history, upsets>>

\* Mutant: the loop goes on polling without asking Redis again.
DrainedToPoll ==
  /\ sup = "drain" /\ hand["poll"] = <<>>
  /\ sup' = "poll"
  /\ UNCHANGED <<db, announce, redisUp, inbox, cursor, hand, server, browser, history, upsets>>

\* ... and the supervisor waits until it has.
Drained ==
  /\ sup = "drain" /\ hand["poll"] = <<>>
  /\ sup' = "probe"
  /\ UNCHANGED <<db, announce, redisUp, inbox, cursor, hand, server, browser, history, upsets>>

\* A poll that takes longer than the five seconds it is given: the TimeoutError
\* of wait_for leaves run() and nothing starts the supervisor again.
PollHangs ==
  /\ sup = "drain"
  /\ sup' = "dead"
  /\ hand' = [hand EXCEPT !["poll"] = <<>>]
  /\ UNCHANGED <<db, announce, redisUp, inbox, cursor, server, browser, history, upsets>>

-----------------------------------------------------------------------------
(***************************************************************************)
(* Connections.                                                            *)
(***************************************************************************)
\* Mutant: a connection is registered when its snapshot has been sent.
JoinedWhenLive(b) == link[b] = "live"

\* A connection is registered from the accept to the end of its socket.
Joined(b) == link[b] # "off"

\* ConnectionManager.send: the connection's next number, then the socket.
Stamped(b) == seq[b] + 1

Envelope(b, type, rows) == [type |-> type, seq |-> Stamped(b), rows |-> rows]

Send(b, type, rows) ==
  /\ seq' = [seq EXCEPT ![b] = Stamped(b)]
  /\ wire' = [wire EXCEPT ![b] = Append(@, Envelope(b, type, rows))]

\* Every registered connection gets the item; one whose socket is gone is dropped.
Broadcast(t) ==
  /\ hand[t] # <<>>
  /\ hand' = [hand EXCEPT ![t] = Tail(@)]
  /\ cursor' = IF t = "poll" /\ Len(hand[t]) = 1 THEN Head(hand[t]).stamp ELSE cursor
  /\ LET item == Head(hand[t])
         rows == [i \in {item.inc} |-> item.row] IN
       /\ seq' = [b \in Browsers |-> IF Joined(b) THEN Stamped(b) ELSE seq[b]]
       /\ wire' = [b \in Browsers |->
            IF Joined(b) THEN Append(wire[b], Envelope(b, item.kind, rows)) ELSE wire[b]]
  /\ UNCHANGED <<db, announce, redisUp, inbox, sup, link, views, beat, known, lastSeq,
                 history, upsets>>

\* Mutant: the reducer's high-water mark survives the old connection.
ConnectKeepingSeq(b) ==
  /\ link[b] = "off"
  /\ link' = [link EXCEPT ![b] = "joined"]
  /\ seq' = [seq EXCEPT ![b] = 0]
  /\ known' = [known EXCEPT ![b] = Empty]
  /\ raced' = [raced EXCEPT ![b] = {}]
  /\ UNCHANGED <<db, feed, views, beat, wire, lastSeq, lost, failed, upsets>>

\* The browser resets its reducer and opens a socket; the server accepts it and
\* registers the connection before it asks the database anything.
Connect(b) ==
  /\ link[b] = "off"
  /\ link' = [link EXCEPT ![b] = "joined"]
  /\ seq' = [seq EXCEPT ![b] = 0]
  /\ known' = [known EXCEPT ![b] = Empty]
  /\ lastSeq' = [lastSeq EXCEPT ![b] = 0]
  /\ raced' = [raced EXCEPT ![b] = {}]
  /\ UNCHANGED <<db, feed, views, beat, wire, lost, failed, upsets>>

QuerySnapshot(b) ==
  /\ link[b] = "joined"
  /\ link' = [link EXCEPT ![b] = "queried"]
  /\ views' = [views EXCEPT ![b] = ActiveViews]
  /\ UNCHANGED <<db, feed, beat, seq, browser, history, upsets>>

\* What a browser shows or is about to be shown.
Showing == {"snapshot", "created", "updated"}

Told(b) ==
  DOMAIN known[b] \cup
  UNION {DOMAIN wire[b][n].rows : n \in {k \in DOMAIN wire[b] : wire[b][k].type \in Showing}}

SendSnapshot(b) ==
  /\ link[b] = "queried"
  /\ link' = [link EXCEPT ![b] = "live"]
  /\ Send(b, "snapshot", views[b])
  /\ raced' = [raced EXCEPT ![b] = Told(b) \ DOMAIN views[b]]
  /\ views' = [views EXCEPT ![b] = Empty]
  /\ UNCHANGED <<db, feed, beat, known, lastSeq, lost, failed, upsets>>

\* system.heartbeat, on a timer or in answer to the browser's subscribe message.
Heartbeat(b) ==
  /\ link[b] = "live" /\ beat[b] = "none" /\ upsets < MaxUpsets
  /\ upsets' = upsets + 1
  /\ Send(b, "heartbeat", Empty)
  /\ UNCHANGED <<db, feed, link, views, beat, known, lastSeq, history>>

\* timer.snapshot: the rows are read, and sent when the query has answered.
ReadTimers(b) ==
  /\ link[b] = "live" /\ beat[b] = "none" /\ upsets < MaxUpsets
  /\ upsets' = upsets + 1
  /\ beat' = [beat EXCEPT ![b] = "read"]
  /\ views' = [views EXCEPT ![b] = ActiveViews]
  /\ UNCHANGED <<db, feed, link, seq, browser, history>>

SendTimers(b) ==
  /\ beat[b] = "read"
  /\ Send(b, "timer", views[b])
  /\ beat' = [beat EXCEPT ![b] = "none"]
  /\ views' = [views EXCEPT ![b] = Empty]
  /\ UNCHANGED <<db, feed, link, known, lastSeq, history, upsets>>

\* The socket drops with everything on it; the page keeps what it shows until the
\* next connect, which comes after a growing delay.
Drop(b) ==
  /\ Joined(b) /\ upsets < MaxUpsets
  /\ upsets' = upsets + 1
  /\ link' = [link EXCEPT ![b] = "off"]
  /\ views' = [views EXCEPT ![b] = Empty]
  /\ beat' = [beat EXCEPT ![b] = "none"]
  /\ wire' = [wire EXCEPT ![b] = <<>>]
  /\ UNCHANGED <<db, feed, seq, known, lastSeq, history>>

-----------------------------------------------------------------------------
(***************************************************************************)
(* The reducer.                                                            *)
(***************************************************************************)
Overwrite(map, rows) ==
  [i \in DOMAIN map \cup DOMAIN rows |-> IF i \in DOMAIN rows THEN rows[i] ELSE map[i]]

\* patch() leaves a row alone that it does not know.
Patch(map, rows) == [i \in DOMAIN map |-> IF i \in DOMAIN rows THEN rows[i] ELSE map[i]]

PatchTier(map, rows) ==
  [i \in DOMAIN map |-> IF i \in DOMAIN rows THEN [map[i] EXCEPT !.tier = rows[i].tier] ELSE map[i]]

IsForwardGap(last, n) == n > last + 1

Stale(last, env) == env.type # "snapshot" /\ last # 0 /\ env.seq <= last

\* Mutant: a created incident is patched like any other change.
ReducePatching(map, env) ==
  CASE env.type = "snapshot" -> env.rows
    [] env.type \in {"created", "updated", "tier_advanced"} -> Patch(map, env.rows)
    [] env.type = "timer" -> PatchTier(map, env.rows)
    [] env.type = "heartbeat" -> map

Reduce(map, env) ==
  CASE env.type = "snapshot" -> env.rows
    [] env.type \in {"created", "updated"} -> Overwrite(map, env.rows)
    [] env.type = "tier_advanced" -> Patch(map, env.rows)
    [] env.type = "timer" -> PatchTier(map, env.rows)
    [] env.type = "heartbeat" -> map

\* onmessage and applyEnvelope.
Deliver(b) ==
  /\ wire[b] # <<>>
  /\ wire' = [wire EXCEPT ![b] = Tail(@)]
  /\ LET env == Head(wire[b]) IN
       IF Stale(lastSeq[b], env)
         THEN UNCHANGED <<known, lastSeq>>
         ELSE /\ known' = [known EXCEPT ![b] = Reduce(@, env)]
              /\ lastSeq' = [lastSeq EXCEPT ![b] = env.seq]
  /\ UNCHANGED <<db, feed, server, history, upsets>>

-----------------------------------------------------------------------------
Write(i) == BeginCreate(i) \/ BeginClimb(i) \/ BeginClose(i)

Supervise == Probe \/ Subscribe \/ Receive \/ SubscriberEnds \/ Poll \/ WindowEnds \/ Drained

Serve(b) == QuerySnapshot(b) \/ SendSnapshot(b) \/ SendTimers(b)

Next ==
  \/ \E i \in Incidents : Write(i)
  \/ \E t \in txn : Commit(t)
  \/ \E a \in announce : Publish(a) \/ WriterDies(a)
  \/ RedisFails \/ RedisReturns
  \/ Supervise \/ ReceiveFails \/ PollFails \/ PollHangs
  \/ \E t \in Tasks : Broadcast(t)
  \/ \E b \in Browsers :
       Connect(b) \/ Serve(b) \/ Heartbeat(b) \/ ReadTimers(b) \/ Drop(b) \/ Deliver(b)

Spec == Init /\ [][Next]_vars

\* A transaction that has begun commits, what is committed is announced unless
\* the writer dies, the supervisor and its tasks run, a browser reconnects with a
\* backoff for ever, and sockets deliver.  Redis owes nobody a return.
Fairness ==
  /\ WF_vars(\E t \in txn : Commit(t))
  /\ WF_vars(\E a \in announce : Publish(a))
  /\ WF_vars(Supervise)
  /\ \A t \in Tasks : WF_vars(Broadcast(t))
  /\ \A b \in Browsers : WF_vars(Connect(b)) /\ WF_vars(Serve(b)) /\ WF_vars(Deliver(b))

FairSpec == Spec /\ Fairness
-----------------------------------------------------------------------------
(***************************************************************************)
(* Properties.                                                             *)
(***************************************************************************)
Rows     == [status : Ladder!Statuses, tier : 0..3, version : 0..MaxChanges]
Txns     == [inc : Incidents, does : {"created", "tier_advanced"} \cup Ladder!Closed, stamp : 1..MaxChanges]
RowMaps  == UNION {[ids -> Rows] : ids \in SUBSET Incidents}
Changes  == [inc : Incidents, kind : {"created", "tier_advanced"}]
Items    == [inc : Incidents, kind : {"created", "tier_advanced", "updated"}, row : Rows,
             stamp : 0..MaxChanges]
Types    == Showing \cup {"tier_advanced", "timer", "heartbeat"}
Envelopes == [type : Types, seq : Nat, rows : RowMaps]

DbTypeOK ==
  /\ row \in [Incidents -> Rows]
  /\ updated \in [Incidents -> 0..MaxChanges]
  /\ txn \subseteq Txns
  /\ clock \in 0..MaxChanges

FeedTypeOK ==
  /\ announce \subseteq Changes
  /\ redisUp \in BOOLEAN
  /\ inbox \in Seq(Changes)
  /\ sup \in {"probe", "subscribe", "listen", "broken", "poll", "drain", "dead"}
  /\ cursor \in 0..MaxChanges
  /\ hand \in [Tasks -> Seq(Items)]
  /\ Len(hand["push"]) <= 1 /\ Len(hand["poll"]) <= Batch

ServerTypeOK ==
  /\ link \in [Browsers -> {"off", "joined", "queried", "live"}]
  /\ views \in [Browsers -> RowMaps]
  /\ beat \in [Browsers -> {"none", "read"}]
  /\ seq \in [Browsers -> Nat]

BrowserTypeOK ==
  /\ wire \in [Browsers -> Seq(Envelopes)]
  /\ known \in [Browsers -> RowMaps]
  /\ lastSeq \in [Browsers -> Nat]

\* Every variable has its type, and the fallback holds at most a batch of rows.
TypeOK ==
  /\ DbTypeOK
  /\ FeedTypeOK
  /\ ServerTypeOK
  /\ BrowserTypeOK
  /\ lost \subseteq Incidents
  /\ failed \subseteq [inc : Incidents, kind : {"created", "tier_advanced", "updated"}]
  /\ raced \in [Browsers -> SUBSET Incidents]
  /\ upsets \in 0..MaxUpsets

\* The numbers on a connection's wire continue where its browser stands, across
\* reconnects that start again at one: the reducer never drops an envelope as old
\* and never sees a gap (so the resync it would start is never needed, and what is
\* lost is lost before it gets a number).
EveryEnvelopeApplies ==
  \A b \in Browsers : Joined(b) =>
    /\ lastSeq[b] + Len(wire[b]) = seq[b]
    /\ \A n \in DOMAIN wire[b] :
         /\ ~IsForwardGap(lastSeq[b] + n - 1, wire[b][n].seq)
         /\ ~Stale(lastSeq[b] + n - 1, wire[b][n])

Deltas(b) == {n \in DOMAIN wire[b] : wire[b][n].type \in {"created", "updated", "tier_advanced"}}

\* Announcements carry no state and come from several writers in any order, by way
\* of Redis or of polls, and a stale acknowledgement may even be written over a
\* resolution: still, what is broadcast about an incident follows the commits of its
\* row, because one task at a time reads the row and sends it.
BroadcastsNeverGoBack ==
  \A b \in Browsers : \A n \in Deltas(b) : \A i \in DOMAIN wire[b][n].rows :
    /\ \A m \in Deltas(b) : m < n /\ i \in DOMAIN wire[b][m].rows =>
         wire[b][m].rows[i].version <= wire[b][n].rows[i].version
    /\ \A t \in Tasks : \A k \in DOMAIN hand[t] : hand[t][k].inc = i =>
         wire[b][n].rows[i].version <= hand[t][k].row.version
    /\ wire[b][n].rows[i].version <= row[i].version

\* An open incident is missing from a connected screen only while its creation is
\* still on the way, if nobody heard it announced, if the subscriber failed over it, or
\* if the connection's snapshot, read before it was created and sent after it was
\* broadcast, took it away again.
MissingIsExplained ==
  \A b \in Browsers, i \in Incidents :
    link[b] = "live" /\ row[i].status \in ActiveStatuses =>
      \/ i \in Told(b)
      \/ i \in lost \cup Unheard(failed) \cup raced[b]
      \/ i \in Unheard(announce \cup {inbox[n] : n \in DOMAIN inbox})
      \/ \E t \in Tasks : \E k \in DOMAIN hand[t] : hand[t][k].inc = i

HasSnapshot(b) == link[b] = "live" /\ \A n \in DOMAIN wire[b] : wire[b][n].type # "snapshot"

Heard(i, kind) == \E n \in DOMAIN inbox : inbox[n] = [inc |-> i, kind |-> kind]

\* Version n of incident i is on its way to a screen: the subscriber has heard of it,
\* and the screen will know what to do with it, or a poll has read it.
Coming(b, i, n) ==
  \/ /\ sup = "listen" /\ row[i].version = n
     /\ Heard(i, "created") \/ (Heard(i, "tier_advanced") /\ i \in DOMAIN known[b])
  \/ \E k \in DOMAIN hand["poll"] :
       hand["poll"][k].inc = i /\ hand["poll"][k].row.version = n

\* A change that the subscriber has heard of or a poll has read reaches every screen
\* that has its snapshot, unless Redis, the poll, the connection or the database that
\* is asked for the row fails first.
HeardChangesArrive ==
  \A b \in Browsers, i \in Incidents : \A n \in 1..MaxChanges :
    HasSnapshot(b) /\ Coming(b, i, n)
    ~> \/ ~HasSnapshot(b) \/ sup \in {"broken", "dead"}
       \/ \E c \in failed : c.inc = i
       \/ i \in DOMAIN known[b] /\ known[b][i].version >= n

\* When Redis stays up the supervisor is back on its channel in the end and stays
\* there, from whatever fallback or failure, except where a poll has hung.
FeedComesBack == <>[]redisUp => <>[](sup \in {"listen", "dead"})

\* Every incident that is closed is in the end not shown as open on a screen that
\* stays connected: acknowledge and resolve notify the live UI like every writer.
ClosedIncidentsAreShown ==
  \A b \in Browsers, i \in Incidents :
    HasSnapshot(b) /\ row[i].status \in Ladder!Closed
    ~> ~HasSnapshot(b) \/ i \notin DOMAIN known[b] \/ known[b][i].status \in Ladder!Closed
-----------------------------------------------------------------------------
(***************************************************************************)
(* The inductive invariant of the proofs.                                  *)
(***************************************************************************)
\* An incident that is still climbing has the tier of its rung.
RowsAreOnRungs ==
  \A i \in Incidents : row[i].status \in Ladder!Active => row[i].tier = Ladder!RungOf[row[i].status]

\* Every version took a transaction that is not open any more.
VersionsAreCounted ==
  /\ IsFiniteSet(txn)
  /\ \A i \in Incidents : row[i].version + Cardinality(txn) <= clock

\* What is left of a connection when its socket has gone, and before it is live.
ConnectionsAreTidy ==
  \A b \in Browsers :
    /\ link[b] = "off" => wire[b] = <<>>
    /\ beat[b] = "read" => link[b] = "live"
    /\ link[b] # "live" => \A n \in DOMAIN wire[b] : wire[b][n].type # "snapshot"

NumbersRunOn ==
  \A b \in Browsers : Joined(b) =>
    /\ lastSeq[b] + Len(wire[b]) = seq[b]
    /\ \A n \in DOMAIN wire[b] : wire[b][n].seq = lastSeq[b] + n

\* One task at a time has rows in hand, no row twice, and no state that its incident
\* has not reached.
OneTaskReads ==
  /\ hand["push"] # <<>> => sup \in {"listen", "broken"}
  /\ hand["poll"] # <<>> => sup \in {"poll", "drain"}
  /\ \A t \in Tasks : \A k \in DOMAIN hand[t] :
       /\ hand[t][k].row.version <= row[hand[t][k].inc].version
       /\ \A n \in DOMAIN hand[t] : n # k => hand[t][n].inc # hand[t][k].inc

\* A screen that has still to take its snapshot will show, after it, what it has been
\* told, or else raced says so.
ShownFrom(b, n) ==
  UNION {DOMAIN wire[b][m].rows : m \in {k \in DOMAIN wire[b] : k >= n /\ wire[b][k].type \in Showing}}

SnapshotsAreMissing ==
  \A b \in Browsers : \A n \in DOMAIN wire[b] :
    wire[b][n].type = "snapshot" => Told(b) \subseteq raced[b] \cup ShownFrom(b, n)

\* The creation of incident i is on its way, or lost to all.
CreationKnown(i) ==
  \/ i \in lost \cup Unheard(failed)
  \/ i \in Unheard(announce \cup {inbox[n] : n \in DOMAIN inbox})
  \/ \E k \in DOMAIN hand["push"] : hand["push"][k].inc = i /\ hand["push"][k].kind = "created"

\* From the moment the snapshot has been read, an incident that is open is in it, or
\* told, or still to be told: the polls of the fallback are not needed for that.
OpenAreAccountedFor ==
  \A b \in Browsers, i \in Incidents : row[i].status \in ActiveStatuses =>
    /\ link[b] = "queried" => i \in DOMAIN views[b] \cup Told(b) \/ CreationKnown(i)
    /\ link[b] = "live" => i \in raced[b] \cup Told(b) \/ CreationKnown(i)

IInv ==
  /\ TypeOK
  /\ RowsAreOnRungs
  /\ VersionsAreCounted
  /\ ConnectionsAreTidy
  /\ NumbersRunOn
  /\ OneTaskReads
  /\ BroadcastsNeverGoBack
  /\ SnapshotsAreMissing
  /\ OpenAreAccountedFor
=============================================================================
