------------------------------- MODULE Ingest -------------------------------
(***************************************************************************)
(* The ingest workers: a group of Kafka consumers that turns anomaly       *)
(* events into incidents, at most one open per dedup key and one per       *)
(* event, while the group rebalances and consumers die between the         *)
(* database commit and the offset commit.                                  *)
(*                                                                         *)
(*   cloud/ingest_worker/consumer.py  handle_message, run_forever          *)
(*   cloud/ingest_worker/service.py   create_incident_from_anomaly         *)
(*   cloud/common/db/models.py        uq_incident_open_dedup,              *)
(*                                    uq_event_source                      *)
(*                                                                         *)
(* One partition: events are keyed by camera, and the camera is part of    *)
(* the dedup key, so whatever can collide is in one partition.  Queries    *)
(* see committed rows; an insert waits while another open transaction has  *)
(* the same unique key.                                                    *)
(***************************************************************************)
EXTENDS Integers, Sequences

CONSTANTS
  Events,     \* events the edge may publish, by event_id
  Malformed,  \* those that do not validate
  Keys,       \* dedup keys
  Key,        \* Key[e]: the dedup key of an event
  Consumers,  \* ingest worker processes
  Nobody,     \* no consumer has the partition
  NoEvent,    \* a consumer between two events
  MaxFaults   \* bound on crashes, exceptions and unprovoked rebalances

ASSUME IngestAssumption ==
  /\ Malformed \subseteq Events
  /\ Key \in [Events -> Keys]
  /\ Nobody \notin Consumers
  /\ NoEvent \notin Events
  /\ MaxFaults \in Nat

VARIABLES
  \* the partition, and the group's committed offset and assignment
  log, committed, owner,
  \* incidents created from an event, incidents open for a dedup key, and the
  \* events that are in the dead letter topic
  created, open, dlq,
  \* consumers: where each is in handle_message, its event, its next offset
  pc, event, pos,
  \* faults so far
  faults

group    == <<log, committed, owner>>
database == <<created, open, dlq>>
vars     == <<group, database, pc, event, pos, faults>>

\* An insert into incidents for key k is not committed yet: pc is after it.
Holds(c, k) == pc[c] \in {"audit", "save"} /\ Key[event[c]] = k

-----------------------------------------------------------------------------
Init ==
  /\ log = <<>>
  /\ committed = 0
  /\ owner = Nobody
  /\ created = [e \in Events |-> 0]
  /\ open = [k \in Keys |-> 0]
  /\ dlq = {}
  /\ pc = [c \in Consumers |-> "poll"]
  /\ event = [c \in Consumers |-> NoEvent]
  /\ pos = [c \in Consumers |-> 0]
  /\ faults = 0

\* The edge's producer is idempotent: an event is in the log once.
Publish(e) ==
  /\ \A n \in 1..Len(log) : log[n] # e
  /\ log' = Append(log, e)
  /\ UNCHANGED <<committed, owner, database, pc, event, pos, faults>>

\* An incident leaves the open statuses: acknowledged, resolved or given up on.
Close(k) ==
  /\ open[k] > 0
  /\ open' = [open EXCEPT ![k] = @ - 1]
  /\ UNCHANGED <<group, created, dlq, pc, event, pos, faults>>

-----------------------------------------------------------------------------
(***************************************************************************)
(* The consumer group.  A consumer that is given the partition starts at   *)
(* the committed offset; one that loses it while it handles an event goes  *)
(* on handling it.                                                         *)
(***************************************************************************)
Assign(c) ==
  /\ owner = Nobody
  /\ owner' = c
  /\ pos' = [pos EXCEPT ![c] = committed]
  /\ UNCHANGED <<log, committed, database, pc, event, faults>>

Rebalance(c) ==
  /\ faults < MaxFaults
  /\ owner # Nobody
  /\ owner' = c
  /\ pos' = [pos EXCEPT ![c] = committed]
  /\ faults' = faults + 1
  /\ UNCHANGED <<log, committed, database, pc, event>>

\* Mutant: run_forever logs the exception and goes on to the next event.
LeaveSwallowed(c) ==
  /\ pc' = [pc EXCEPT ![c] = "poll"]
  /\ event' = [event EXCEPT ![c] = NoEvent]
  /\ UNCHANGED owner

\* The process ends, which rolls its transaction back and gives the partition up;
\* it is started again.
Leave(c) ==
  /\ pc' = [pc EXCEPT ![c] = "poll"]
  /\ event' = [event EXCEPT ![c] = NoEvent]
  /\ owner' = IF owner = c THEN Nobody ELSE owner

\* A crash, or an exception that run_forever logs and raises.
Fail(c) ==
  /\ faults < MaxFaults
  /\ pc[c] # "poll"
  /\ Leave(c)
  /\ faults' = faults + 1
  /\ UNCHANGED <<log, committed, database, pos>>

-----------------------------------------------------------------------------
(***************************************************************************)
(* handle_message, one query or statement at a time.                       *)
(***************************************************************************)
\* The next statement is at s.
Goto(c, s) == pc' = [pc EXCEPT ![c] = s] /\ UNCHANGED event

\* handle_message returns: its session is done with and the offset is next.
Answer(c) ==
  /\ pc' = [pc EXCEPT ![c] = "offset"]
  /\ UNCHANGED event

\* The next event of the partition: well-formed, or off to the dead letters.
Poll(c) ==
  /\ owner = c
  /\ pc[c] = "poll"
  /\ pos[c] < Len(log)
  /\ pos' = [pos EXCEPT ![c] = @ + 1]
  /\ LET e == log[pos[c] + 1] IN
       /\ event' = [event EXCEPT ![c] = e]
       /\ pc' = [pc EXCEPT ![c] = IF e \in Malformed THEN "dlq" ELSE "seen"]
  /\ UNCHANGED <<group, database, faults>>

SendToDlq(c) ==
  /\ pc[c] = "dlq"
  /\ dlq' = dlq \cup {event[c]}
  /\ Answer(c)
  /\ UNCHANGED <<group, created, open, pos, faults>>

\* _event_id_seen, before the insert and again after it has failed.
CheckSeen(c) ==
  /\ pc[c] \in {"seen", "seenAgain"}
  /\ IF created[event[c]] > 0
       THEN Answer(c)
       ELSE Goto(c, IF pc[c] = "seen" THEN "openQuery" ELSE "openAgain")
  /\ UNCHANGED <<group, database, pos, faults>>

\* _open_incident_exists, likewise; the second time nothing found is an error,
\* raised again, that ends the process.
CheckOpen(c) ==
  /\ pc[c] \in {"openQuery", "openAgain"}
  /\ IF open[Key[event[c]]] > 0
       THEN Answer(c) /\ UNCHANGED owner
       ELSE IF pc[c] = "openQuery" THEN Goto(c, "insert") /\ UNCHANGED owner ELSE Leave(c)
  /\ UNCHANGED <<log, committed, database, pos, faults>>

\* Mutant: no unique index on open incidents.
InsertIncidentUnchecked(c) ==
  /\ pc[c] = "insert"
  /\ Goto(c, "audit")
  /\ UNCHANGED <<group, database, pos, faults>>

\* The first flush: uq_incident_open_dedup.
InsertIncident(c) ==
  LET k == Key[event[c]] IN
  /\ pc[c] = "insert"
  /\ \A d \in Consumers : ~Holds(d, k)
  /\ Goto(c, IF open[k] > 0 THEN "seenAgain" ELSE "audit")
  /\ UNCHANGED <<group, database, pos, faults>>

\* Mutant: no unique index on source_event_id.
InsertAuditUnchecked(c) ==
  /\ pc[c] = "audit"
  /\ Goto(c, "save")
  /\ UNCHANGED <<group, database, pos, faults>>

\* The second flush: uq_event_source.  A conflict rolls the incident back too.
InsertAudit(c) ==
  /\ pc[c] = "audit"
  /\ \A d \in Consumers : pc[d] = "save" => event[d] # event[c]
  /\ Goto(c, IF created[event[c]] > 0 THEN "seenAgain" ELSE "save")
  /\ UNCHANGED <<group, database, pos, faults>>

\* The page, if anybody is on call, and the commit of all of it.
CommitIncident(c) ==
  /\ pc[c] = "save"
  /\ created' = [created EXCEPT ![event[c]] = @ + 1]
  /\ open' = [open EXCEPT ![Key[event[c]]] = @ + 1]
  /\ Answer(c)
  /\ UNCHANGED <<group, dlq, pos, faults>>

\* Mutant: the event that is being handled counts as consumed.
CommitOffsetEarly(c) ==
  /\ pc[c] # "poll"
  /\ committed' = IF owner = c THEN pos[c] ELSE committed
  /\ IF pc[c] = "offset"
       THEN pc' = [pc EXCEPT ![c] = "poll"] /\ event' = [event EXCEPT ![c] = NoEvent]
       ELSE UNCHANGED <<pc, event>>
  /\ UNCHANGED <<log, owner, database, pos, faults>>

\* Mutant: one more than the position, which is already the next offset.
CommitOffsetPast(c) ==
  /\ pc[c] = "offset"
  /\ committed' = IF owner = c THEN pos[c] + 1 ELSE committed
  /\ pc' = [pc EXCEPT ![c] = "poll"]
  /\ event' = [event EXCEPT ![c] = NoEvent]
  /\ UNCHANGED <<log, owner, database, pos, faults>>

\* The position in the partition as assigned now; nothing if it is no longer ours.
CommitOffset(c) ==
  /\ pc[c] = "offset"
  /\ committed' = IF owner = c THEN pos[c] ELSE committed
  /\ pc' = [pc EXCEPT ![c] = "poll"]
  /\ event' = [event EXCEPT ![c] = NoEvent]
  /\ UNCHANGED <<log, owner, database, pos, faults>>

-----------------------------------------------------------------------------
Handle(c) ==
  \/ Poll(c) \/ SendToDlq(c)
  \/ CheckSeen(c) \/ CheckOpen(c)
  \/ InsertIncident(c) \/ InsertAudit(c) \/ CommitIncident(c)
  \/ CommitOffset(c)

Next ==
  \/ \E e \in Events : Publish(e)
  \/ \E k \in Keys : Close(k)
  \/ \E c \in Consumers : Handle(c) \/ Assign(c) \/ Rebalance(c) \/ Fail(c)

Spec == Init /\ [][Next]_vars

\* Consumers run, are started again when they end (restart: unless-stopped), and
\* the group gives the partition to somebody; nobody has to close an incident.
Fairness ==
  /\ WF_vars(\E c \in Consumers : Assign(c))
  /\ \A c \in Consumers : WF_vars(Handle(c))

FairSpec == Spec /\ Fairness
-----------------------------------------------------------------------------
(***************************************************************************)
(* Properties.                                                             *)
(***************************************************************************)
Steps == {"poll", "dlq", "seen", "openQuery", "insert", "audit", "save",
          "seenAgain", "openAgain", "offset"}

\* Everything has its type; offsets are in the log, and a consumer has an event in
\* hand exactly while it handles one.
TypeOK ==
  /\ log \in Seq(Events)
  /\ committed \in 0..Len(log)
  /\ owner \in Consumers \cup {Nobody}
  /\ created \in [Events -> Nat]
  /\ open \in [Keys -> Nat]
  /\ dlq \subseteq Events
  /\ pc \in [Consumers -> Steps]
  /\ event \in [Consumers -> Events \cup {NoEvent}]
  /\ pos \in [Consumers -> Nat]
  /\ faults \in 0..MaxFaults
  /\ \A c \in Consumers :
       /\ pos[c] <= Len(log)
       /\ event[c] = NoEvent <=> pc[c] = "poll"

\* No two incidents of one dedup key are open, whoever checked what and when.
OneOpenPerKey == \A k \in Keys : open[k] <= 1

\* No event creates two incidents, however often it is delivered.
OncePerEvent == \A e \in Events : created[e] <= 1

\* What the group owes to an event: a place among the dead letters, or an incident
\* for its dedup key.
Covered(e) ==
  IF e \in Malformed
    THEN e \in dlq
    ELSE \E f \in Events : Key[f] = Key[e] /\ created[f] > 0

\* The offset is committed after the database: every event below it is covered,
\* whatever was redelivered, rebalanced or rolled back.
NothingIsLost == \A n \in 1..committed : Covered(log[n])

\* Every event published is in the end consumed: no two transactions wait for each
\* other, and an event that ends its consumer does not do so for ever.
EveryEventIsConsumed ==
  \A e \in Events :
    (\E n \in 1..Len(log) : log[n] = e) ~> (\E n \in 1..committed : log[n] = e)

-----------------------------------------------------------------------------
(***************************************************************************)
(* The inductive invariant of the proofs.                                  *)
(***************************************************************************)
\* The index entry of an uncommitted incident keeps its key to one consumer, and
\* so the event that consumer is about to record.
KeysAreHeld ==
  \A c \in Consumers : \A k \in Keys :
    Holds(c, k) =>
      /\ open[k] = 0
      /\ pc[c] = "save" => created[event[c]] = 0
      /\ \A d \in Consumers : Holds(d, k) => d = c

\* Every open incident was created from an event of its key.
OpenWasCreated ==
  \A k \in Keys : open[k] > 0 => \E f \in Events : Key[f] = k /\ created[f] > 0

\* A consumer that commits an offset has covered its event, and the owner's
\* position is past nothing that is neither covered nor in its hands.
PositionsAreCovered ==
  \A c \in Consumers :
    /\ pc[c] = "dlq" => event[c] \in Malformed
    /\ pc[c] \notin {"poll", "dlq", "offset"} => event[c] \notin Malformed
    /\ pc[c] = "offset" => Covered(event[c])
    /\ owner = c =>
         \A n \in 1..pos[c] :
           Covered(log[n]) \/ (n = pos[c] /\ pc[c] # "poll" /\ event[c] = log[n])

IInv ==
  /\ TypeOK
  /\ OneOpenPerKey
  /\ OncePerEvent
  /\ NothingIsLost
  /\ KeysAreHeld
  /\ OpenWasCreated
  /\ PositionsAreCovered
=============================================================================
