----------------------------- MODULE Escalation -----------------------------
(***************************************************************************)
(* The escalation engine: N workers that poll the incidents table, claim   *)
(* due rows under a lease and advance each by one tier in a transaction    *)
(* of its own, racing the API requests that acknowledge and resolve.       *)
(*                                                                         *)
(*   cloud/escalation_worker/worker.py      claim, re-check, release       *)
(*   cloud/escalation_worker/transition.py  fire_transition                *)
(*   cloud/common/incident_actions.py       acknowledge, resolve           *)
(*   cloud/ingest_worker/service.py         the row ingest inserts         *)
(*                                                                         *)
(* Time is relative: next_fire_at and claimed_until are the ticks left     *)
(* before they are reached, run down by Tick; 0 is "due" and "expired or   *)
(* NULL".  A committed row is what the variables hold; a transaction that  *)
(* is open has its effects in the worker's own state until it commits.     *)
(* claimed_by is written by the code and read by no statement: left out.   *)
(***************************************************************************)
EXTENDS Integers, Sequences, FiniteSets

CONSTANTS
  Incidents,   \* the ids the incidents table may come to hold
  Workers,     \* escalation worker processes
  Requests,    \* API requests that may be in flight together
  NoRow,       \* "no incident": a worker or request that works on none
  Batch,       \* rows a poll may claim
  Lease,       \* ticks a claim lasts
  Grace,       \* ticks the operator has before the first tier fires
  Anomaly,     \* the anomaly type of the incidents: the edge detects one
  TierRows,    \* the escalation_tiers rows of the site; delay: ticks before the
               \* next tier fires
  MaxFaults    \* bound on crashes, failed transactions and lost requests

NoTimer == -1     \* next_fire_at IS NULL
AnyType == "NULL"  \* anomaly_type IS NULL: a row for the whole site

ASSUME EscalationAssumption ==
  /\ NoRow \notin Incidents
  /\ Batch \in Nat \ {0}
  /\ Lease \in Nat \ {0}
  /\ Grace \in Nat
  /\ Anomaly # AnyType
  /\ TierRows \subseteq [tier : Nat, anomaly : STRING, delay : Nat]
  /\ MaxFaults \in Nat

VARIABLES
  \* the incidents table
  status, tier, timer, lease,
  \* escalation_idempotency, outbox and incident_events, by incident
  fired, outbox, log,
  \* workers: what each does, the claimed rows it still has to visit, the row
  \* it is on, and the next_fire_at its open transaction has computed
  pc, batch, row, newTimer,
  \* API requests between their SELECT and their UPDATE
  request,
  \* faults so far
  faults

tables     == <<status, tier, timer, lease, fired, outbox, log>>
workerVars == <<pc, batch, row, newTimer>>
vars       == <<tables, workerVars, request, faults>>

Ladder == INSTANCE EscalationLadder WITH paged <- outbox

Active     == Ladder!Active
Statuses   == Ladder!Statuses
Ackable    == Active
Resolvable == Active \cup {"ACK"}

\* Mutant: a tier-1 incident jumps over the plant director.
TransitionTableSkipping ==
  [ AWAITING_OPERATOR |-> [at |-> 0, to |-> "TIER1", event |-> "TIER1_FIRED"],
    TIER1 |-> [at |-> 1, to |-> "CRITICAL_UNRESOLVED", event |-> "CRITICAL"],
    TIER2 |-> [at |-> 2, to |-> "CRITICAL_UNRESOLVED", event |-> "CRITICAL"] ]

\* _TRANSITION_TABLE, keyed by status and current_tier.
TransitionTable ==
  [ AWAITING_OPERATOR |-> [at |-> 0, to |-> "TIER1", event |-> "TIER1_FIRED"],
    TIER1 |-> [at |-> 1, to |-> "TIER2", event |-> "TIER2_FIRED"],
    TIER2 |-> [at |-> 2, to |-> "CRITICAL_UNRESOLVED", event |-> "CRITICAL"] ]

HasTransition(i) == status[i] \in Active /\ TransitionTable[status[i]].at = tier[i]

\* fetch_tier_config: ORDER BY anomaly_type IS NULL LIMIT 1 may return any of these.
\* NULLs are distinct under uq_escalation_tier, so there may be several site-wide
\* rows of a tier; a row for another type is never returned.
FetchTierConfig(t) ==
  LET matching == {c \in TierRows : c.tier = t /\ c.anomaly \in {Anomaly, AnyType}}
      specific == {c \in matching : c.anomaly = Anomaly}
  IN  IF specific # {} THEN specific ELSE matching

\* Mutant: the config row of the tier after the one being fired.
TimersForNext(t) ==
  IF t + 1 \in 1..2 /\ FetchTierConfig(t + 1) # {}
    THEN {c.delay : c \in FetchTierConfig(t + 1)} ELSE {NoTimer}

\* The next_fire_at that reaching tier t may set: NULL at the top and NULL when the
\* tier has no configuration row.
TimersFor(t) ==
  IF t \in 1..2 /\ FetchTierConfig(t) # {}
    THEN {c.delay : c \in FetchTierConfig(t)} ELSE {NoTimer}

\* The page of tier t, if there is somebody on call for it, which is the roster's
\* affair; without a role or a configuration row there is no template and no page.
PageOf(t) == IF t \in 0..2 /\ FetchTierConfig(t) # {} THEN {t} ELSE {}

Idle == [op |-> "none", on |-> NoRow, from |-> "NOT_CREATED", at |-> 0, armed |-> FALSE]

Entry(type, from, to, t) == [type |-> type, from |-> from, to |-> to, tier |-> t]

\* Some worker holds the row's FOR UPDATE lock.
Locked(i) == \E w \in Workers : pc[w] = "txn" /\ row[w] = i

-----------------------------------------------------------------------------
Init ==
  /\ status = [i \in Incidents |-> "NOT_CREATED"]
  /\ tier = [i \in Incidents |-> 0]
  /\ timer = [i \in Incidents |-> NoTimer]
  /\ lease = [i \in Incidents |-> 0]
  /\ fired = [i \in Incidents |-> {}]
  /\ outbox = [i \in Incidents |-> {}]
  /\ log = [i \in Incidents |-> <<>>]
  /\ pc = [w \in Workers |-> "idle"]
  /\ batch = [w \in Workers |-> {}]
  /\ row = [w \in Workers |-> NoRow]
  /\ newTimer = [w \in Workers |-> NoTimer]
  /\ request = [r \in Requests |-> Idle]
  /\ faults = 0

(***************************************************************************)
(* Ingest commits a new incident: the row with its grace timer, the        *)
(* CREATED event and, when an operator and tier-0 config exist, the page.  *)
(***************************************************************************)
CreateIncident(i) ==
  /\ status[i] = "NOT_CREATED"
  /\ status' = [status EXCEPT ![i] = "AWAITING_OPERATOR"]
  /\ timer' = [timer EXCEPT ![i] = Grace]
  /\ \E page \in SUBSET PageOf(0) : outbox' = [outbox EXCEPT ![i] = page]
  /\ log' = [log EXCEPT ![i] =
       Append(@, Entry("CREATED", "NOT_CREATED", "AWAITING_OPERATOR", 0))]
  /\ UNCHANGED <<tier, lease, fired, workerVars, request, faults>>

-----------------------------------------------------------------------------
(***************************************************************************)
(* _CLAIM_SQL.  The statement skips rows that another transaction has      *)
(* locked and takes the longest overdue first; overdue rows all read 0     *)
(* here, so any full batch of them may be the one it takes.                *)
(***************************************************************************)
\* Mutant: a live lease does not keep other workers off.
ClaimableUnderLease(i) == status[i] \in Active /\ timer[i] = 0 /\ ~Locked(i)

\* Mutant: any running timer will do, reached or not.
ClaimableEarly(i) == status[i] \in Active /\ timer[i] >= 0 /\ lease[i] = 0 /\ ~Locked(i)

Claimable(i) ==
  /\ status[i] \in Active
  /\ timer[i] = 0
  /\ lease[i] = 0
  /\ ~Locked(i)

Claim(w) ==
  LET due == {i \in Incidents : Claimable(i)} IN
  /\ pc[w] = "idle"
  /\ \E rows \in SUBSET due \ {{}} :
       /\ Cardinality(rows) <= Batch
       /\ rows = due \/ Cardinality(rows) = Batch
       /\ batch' = [batch EXCEPT ![w] = rows]
       /\ lease' = [i \in Incidents |-> IF i \in rows THEN Lease ELSE lease[i]]
  /\ pc' = [pc EXCEPT ![w] = "visit"]
  /\ UNCHANGED <<status, tier, timer, fired, outbox, log, row, newTimer, request, faults>>

\* Mutant: no re-check.
StillThere(i) == i \in Incidents

\* The re-check under the lock: only the status and the presence of a timer.
StillActive(i) == status[i] \in Active /\ timer[i] # NoTimer

\* Back in the loop over the claimed rows, or done with them.
Return(w, rest) ==
  /\ batch' = [batch EXCEPT ![w] = rest]
  /\ pc' = [pc EXCEPT ![w] = IF rest = {} THEN "idle" ELSE "visit"]
  /\ row' = [row EXCEPT ![w] = NoRow]
  /\ newTimer' = [newTimer EXCEPT ![w] = NoTimer]

\* SELECT ... FOR UPDATE waits for the lock, reads the row as it is now, passes
\* the re-check and computes the timer of the tier about to fire.
OpenTransition(w, i) ==
  /\ pc[w] = "visit"
  /\ i \in batch[w]
  /\ ~Locked(i)
  /\ StillActive(i)
  /\ pc' = [pc EXCEPT ![w] = "txn"]
  /\ row' = [row EXCEPT ![w] = i]
  /\ \E nfa \in TimersFor(tier[i] + 1) : newTimer' = [newTimer EXCEPT ![w] = nfa]
  /\ UNCHANGED <<tables, batch, request, faults>>

\* The re-check fails: the loop goes on and the claim is left to expire.
SkipRow(w, i) ==
  /\ pc[w] = "visit"
  /\ i \in batch[w]
  /\ ~Locked(i)
  /\ ~StillActive(i)
  /\ Return(w, batch[w] \ {i})
  /\ UNCHANGED <<tables, request, faults>>

\* The guard of _idempotency_insert: a row for the tier is not there yet.
FirstFire(i, t) == t \notin fired[i]

\* Mutant: the UPDATE forgets current_tier.
AdvanceStatusOnly(i, nfa, page) ==
  LET rung == TransitionTable[status[i]] IN
  /\ status' = [status EXCEPT ![i] = rung.to]
  /\ timer' = [timer EXCEPT ![i] = nfa]
  /\ lease' = [lease EXCEPT ![i] = 0]
  /\ fired' = [fired EXCEPT ![i] = @ \cup {rung.at + 1}]
  /\ outbox' = [outbox EXCEPT ![i] = @ \cup page]
  /\ log' = [log EXCEPT ![i] =
       Append(@, Entry(rung.event, status[i], rung.to, rung.at + 1))]
  /\ UNCHANGED tier

\* Mutant: the idempotency row is inserted for the tier that is left.
AdvanceFiringTheOldTier(i, nfa, page) ==
  LET rung == TransitionTable[status[i]] IN
  /\ status' = [status EXCEPT ![i] = rung.to]
  /\ tier' = [tier EXCEPT ![i] = rung.at + 1]
  /\ timer' = [timer EXCEPT ![i] = nfa]
  /\ lease' = [lease EXCEPT ![i] = 0]
  /\ fired' = [fired EXCEPT ![i] = @ \cup {rung.at}]
  /\ outbox' = [outbox EXCEPT ![i] = @ \cup page]
  /\ log' = [log EXCEPT ![i] =
       Append(@, Entry(rung.event, status[i], rung.to, rung.at + 1))]

\* What fire_transition writes, page or no page.
Advance(i, nfa, page) ==
  LET rung == TransitionTable[status[i]] IN
  /\ status' = [status EXCEPT ![i] = rung.to]
  /\ tier' = [tier EXCEPT ![i] = rung.at + 1]
  /\ timer' = [timer EXCEPT ![i] = nfa]
  /\ lease' = [lease EXCEPT ![i] = 0]
  /\ fired' = [fired EXCEPT ![i] = @ \cup {rung.at + 1}]
  /\ outbox' = [outbox EXCEPT ![i] = @ \cup page]
  /\ log' = [log EXCEPT ![i] =
       Append(@, Entry(rung.event, status[i], rung.to, rung.at + 1))]

\* fire_transition and its commit.
CommitTransition(w) ==
  LET i == row[w] t == tier[i] + 1 IN
  /\ pc[w] = "txn"
  /\ IF HasTransition(i) /\ FirstFire(i, t)
       THEN \E page \in SUBSET PageOf(t) : Advance(i, newTimer[w], page)
       ELSE UNCHANGED tables
  /\ Return(w, batch[w] \ {i})
  /\ UNCHANGED <<request, faults>>

-----------------------------------------------------------------------------
(***************************************************************************)
(* What goes wrong.                                                        *)
(***************************************************************************)
\* Mutant: the audit event is committed on its own and survives the rollback.
VisitFailsKeepingAudit(w, i) ==
  /\ faults < MaxFaults
  /\ pc[w] = "txn"
  /\ row[w] = i
  /\ log' = [log EXCEPT ![i] = Append(@, Entry(TransitionTable[status[i]].event,
                 status[i], TransitionTable[status[i]].to, tier[i] + 1))]
  /\ pc' = [pc EXCEPT ![w] = "release"]
  /\ newTimer' = [newTimer EXCEPT ![w] = NoTimer]
  /\ faults' = faults + 1
  /\ UNCHANGED <<status, tier, timer, lease, fired, outbox, batch, row, request>>

\* An exception while the row is visited: whatever was open is rolled back and
\* the worker turns to releasing the claim, in a transaction of its own.
VisitFails(w, i) ==
  /\ faults < MaxFaults
  /\ pc[w] \in {"visit", "txn"}
  /\ i \in batch[w]
  /\ pc[w] = "txn" => row[w] = i
  /\ pc' = [pc EXCEPT ![w] = "release"]
  /\ row' = [row EXCEPT ![w] = i]
  /\ newTimer' = [newTimer EXCEPT ![w] = NoTimer]
  /\ faults' = faults + 1
  /\ UNCHANGED <<tables, batch, request>>

\* _RELEASE_CLAIM_SQL: by id alone, whoever holds the claim by now.
ReleaseClaim(w) ==
  /\ pc[w] = "release"
  /\ ~Locked(row[w])
  /\ lease' = [lease EXCEPT ![row[w]] = 0]
  /\ Return(w, batch[w] \ {row[w]})
  /\ UNCHANGED <<status, tier, timer, fired, outbox, log, request, faults>>

ReleaseFails(w) ==
  /\ faults < MaxFaults
  /\ pc[w] = "release"
  /\ Return(w, batch[w] \ {row[w]})
  /\ faults' = faults + 1
  /\ UNCHANGED <<tables, request>>

\* The process dies and is started again: claims stay, an open transaction goes.
Crash(w) ==
  /\ faults < MaxFaults
  /\ pc[w] # "idle"
  /\ Return(w, {})
  /\ faults' = faults + 1
  /\ UNCHANGED <<tables, request>>

-----------------------------------------------------------------------------
(***************************************************************************)
(* acknowledge_incident and resolve_incident: a plain SELECT, the guard on *)
(* what it read, and at commit an UPDATE of the attributes that changed.   *)
(* A request that the guard turns away, or that finds the work done, ends  *)
(* without a write.                                                        *)
(***************************************************************************)
ReadForAction(r, i, op, from) ==
  /\ request[r] = Idle
  /\ status[i] \in from
  /\ request' = [request EXCEPT ![r] =
       [op |-> op, on |-> i, from |-> status[i], at |-> tier[i],
        armed |-> timer[i] # NoTimer]]
  /\ UNCHANGED <<tables, workerVars, faults>>

ReadForAck(r, i)     == ReadForAction(r, i, "ACK", Ackable)
ReadForResolve(r, i) == ReadForAction(r, i, "RESOLVED", Resolvable)

\* Mutant: the UPDATE does not wait for the worker's row lock.
WriteActionUnlocked(r, op) ==
  LET q == request[r] IN
  /\ q.op = op
  /\ status' = [status EXCEPT ![q.on] = op]
  /\ timer' = [timer EXCEPT ![q.on] = NoTimer]
  /\ log' = [log EXCEPT ![q.on] = Append(@, Entry(op, q.from, op, q.at))]
  /\ request' = [request EXCEPT ![r] = Idle]
  /\ UNCHANGED <<tier, lease, fired, outbox, workerVars, faults>>

\* The UPDATE waits for the row lock, and names next_fire_at only when the copy
\* that was read had one: setting None over None is no change to the ORM.
WriteAction(r, op) ==
  LET q == request[r] IN
  /\ q.op = op
  /\ ~Locked(q.on)
  /\ status' = [status EXCEPT ![q.on] = op]
  /\ timer' = [timer EXCEPT ![q.on] = IF q.armed THEN NoTimer ELSE @]
  /\ log' = [log EXCEPT ![q.on] = Append(@, Entry(op, q.from, op, q.at))]
  /\ request' = [request EXCEPT ![r] = Idle]
  /\ UNCHANGED <<tier, lease, fired, outbox, workerVars, faults>>

WriteAck(r)     == WriteAction(r, "ACK")
WriteResolve(r) == WriteAction(r, "RESOLVED")

\* The API process dies with the request between the read and the commit.
RequestDies(r) ==
  /\ faults < MaxFaults
  /\ request[r] # Idle
  /\ request' = [request EXCEPT ![r] = Idle]
  /\ faults' = faults + 1
  /\ UNCHANGED <<tables, workerVars>>

-----------------------------------------------------------------------------
RunDown(n) == IF n > 0 THEN n - 1 ELSE n

\* Mutant: claims do not expire.
TickKeepingLeases ==
  /\ timer' = [i \in Incidents |-> RunDown(timer[i])]
  /\ newTimer' = [w \in Workers |-> RunDown(newTimer[w])]
  /\ UNCHANGED <<status, tier, lease, fired, outbox, log, pc, batch, row, request, faults>>

Tick ==
  /\ timer' = [i \in Incidents |-> RunDown(timer[i])]
  /\ lease' = [i \in Incidents |-> RunDown(lease[i])]
  /\ newTimer' = [w \in Workers |-> RunDown(newTimer[w])]
  /\ UNCHANGED <<status, tier, fired, outbox, log, pc, batch, row, request, faults>>

Work(w) ==
  \/ Claim(w)
  \/ \E i \in Incidents : OpenTransition(w, i) \/ SkipRow(w, i)
  \/ CommitTransition(w)
  \/ ReleaseClaim(w)

Fault(w) ==
  \/ \E i \in Incidents : VisitFails(w, i)
  \/ ReleaseFails(w)
  \/ Crash(w)

Ask(r) ==
  \/ \E i \in Incidents : ReadForAck(r, i) \/ ReadForResolve(r, i)
  \/ WriteAck(r)
  \/ WriteResolve(r)
  \/ RequestDies(r)

Next ==
  \/ \E i \in Incidents : CreateIncident(i)
  \/ \E w \in Workers : Work(w) \/ Fault(w)
  \/ \E r \in Requests : Ask(r)
  \/ Tick

Spec == Init /\ [][Next]_vars

\* The poll loop of every worker keeps running (it survives any exception) and
\* time passes; nobody owes the system a request or an incident.
Fairness == WF_vars(Tick) /\ \A w \in Workers : WF_vars(Work(w))

FairSpec == Spec /\ Fairness
-----------------------------------------------------------------------------
(***************************************************************************)
(* Properties.                                                             *)
(***************************************************************************)
EventTypes == {"CREATED", "TIER1_FIRED", "TIER2_FIRED", "CRITICAL", "ACK", "RESOLVED"}

Entries == [type : EventTypes, from : Statuses, to : Statuses, tier : 0..3]

RequestStates ==
  [op : {"none", "ACK", "RESOLVED"}, on : Incidents \cup {NoRow}, from : Statuses,
   at : 0..3, armed : BOOLEAN]

\* Every column, and every local variable of a worker or a request, holds a value
\* of its type; a worker with a row in hand has it among its claimed rows.
TypeOK ==
  /\ status \in [Incidents -> Statuses]
  /\ tier \in [Incidents -> 0..3]
  /\ timer \in [Incidents -> Nat \cup {NoTimer}]
  /\ lease \in [Incidents -> 0..Lease]
  /\ fired \in [Incidents -> SUBSET (1..3)]
  /\ outbox \in [Incidents -> SUBSET (0..3)]
  /\ log \in [Incidents -> Seq(Entries)]
  /\ pc \in [Workers -> {"idle", "visit", "txn", "release"}]
  /\ batch \in [Workers -> SUBSET Incidents]
  /\ row \in [Workers -> Incidents \cup {NoRow}]
  /\ newTimer \in [Workers -> Nat \cup {NoTimer}]
  /\ request \in [Requests -> RequestStates]
  /\ faults \in 0..MaxFaults

\* The row, the idempotency table and the ladder agree: an incident on rung k has
\* tiers 1..k in escalation_idempotency and no other, whatever workers raced,
\* stalled or died on the way, and closing it changes neither.
TiersAreAccountedFor ==
  \A i \in Incidents :
    /\ fired[i] = 1..tier[i]
    /\ status[i] \in DOMAIN Ladder!RungOf => tier[i] = Ladder!RungOf[status[i]]
    /\ status[i] = "NOT_CREATED" => tier[i] = 0

\* The positions of an incident's events that record tier t firing.
TierEvent == <<"TIER1_FIRED", "TIER2_FIRED", "CRITICAL">>

FiredAt(trail, t) == {n \in 1..Len(trail) : trail[n].type = TierEvent[t]}

\* A trail that leads to status s by way of tiers 1..k, each once and in order.
TellsClimb(trail, s, k) ==
  /\ \A t \in 1..3 : FiredAt(trail, t) # {} <=> t <= k
  /\ \A t \in 1..3 : \A m, n \in FiredAt(trail, t) : m = n
  /\ \A t, u \in 1..3 : \A m \in FiredAt(trail, t), n \in FiredAt(trail, u) : t < u => m < n
  /\ trail # <<>> => trail[Len(trail)].to = s

\* The audit trail shows each tier reached exactly once, in order, and none that
\* was not reached ("0 duplicate, 0 miss" of the chaos test), and its last entry
\* tells the status the row has.
AuditTellsTheClimb == \A i \in Incidents : TellsClimb(log[i], status[i], tier[i])

\* An incident that was acknowledged, resolved or given up on has no timer left
\* and no transaction about to advance it: what stops the paging.  The request
\* that closes it may have read it before a tier fired, and clears next_fire_at
\* only if its own copy had one.
EndedIsQuiet ==
  \A i \in Incidents :
    status[i] \notin Active => timer[i] = NoTimer /\ ~Locked(i)

\* FOR UPDATE admits one transition per row at a time, and under that lock the
\* row always has a transition whose tier has not fired: the idempotency insert
\* of fire_transition never meets a conflict, so it is the re-check, and not
\* that guard, on which a stalled worker's re-fire depends.
LockedRowsCanFire ==
  \A w \in Workers :
    pc[w] = "txn" =>
      /\ HasTransition(row[w])
      /\ FirstFire(row[w], tier[row[w]] + 1)
      /\ \A v \in Workers : pc[v] = "txn" /\ row[v] = row[w] => v = w

\* A waiting incident loses its timer only where the tier it reached has no
\* config row; nothing else (a failed or lost transaction, a stale request, a
\* released claim) may leave an active row that no poll will ever claim.
StrandedOnlyWithoutConfig ==
  \A i \in Incidents :
    status[i] \in Active /\ timer[i] = NoTimer => tier[i] > 0 /\ FetchTierConfig(tier[i]) = {}

\* The engine implements the ladder: every step of a worker or a request is one
\* rung up, one close, or nothing, and each rung pages at most its own responder.
ImplementsLadderSafety == Ladder!LadderSafety

\* With fair workers it implements the live ladder too: no incident waits on a
\* rung for ever, however workers stall and die.
ImplementsLadder == Ladder!LadderSpec

\* Every incident is in the end closed by a person or given up on as critical.
EveryIncidentSettles ==
  \A i \in Incidents : status[i] \in Active ~> status[i] \notin Active

\* A tier fires only when its next_fire_at has been reached: the operator gets
\* the whole grace period and every responder the whole delay.
FiresOnlyWhenDue ==
  [][\A i \in Incidents : fired'[i] # fired[i] => timer[i] = 0]_vars

\* An acknowledgement takes effect only on an incident that may be acknowledged,
\* a resolution only on one that may be resolved: what the 409 answers promise.
ActionsRespectStatus ==
  [][\A i \in Incidents :
       /\ status'[i] = "ACK" => status[i] \in Ackable \cup {"ACK"}
       /\ status'[i] = "RESOLVED" => status[i] \in Resolvable \cup {"RESOLVED"}]_vars

\* What an open transaction may rely on until it commits: nobody else has its row,
\* nobody has closed it or taken its timer, and it is about to leave the timer out
\* exactly where the tier has no configuration for one.
OpenTransactions ==
  \A w \in Workers : pc[w] = "txn" =>
    /\ row[w] \in Incidents
    /\ StillActive(row[w])
    /\ newTimer[w] = NoTimer <=> TimersFor(tier[row[w]] + 1) = {NoTimer}
    /\ \A v \in Workers : pc[v] = "txn" /\ row[v] = row[w] => v = w

\* What a request read some time ago and may still rely on: the incident exists,
\* and if it had no timer then it has none now, so leaving next_fire_at out of
\* the UPDATE is safe.
RequestsRemember ==
  \A r \in Requests : request[r].op # "none" =>
    /\ request[r].on \in Incidents
    /\ status[request[r].on] # "NOT_CREATED"
    /\ request[r].armed \/ timer[request[r].on] = NoTimer

\* The inductive invariant from which the safety theorems follow.
IInv ==
  /\ TypeOK
  /\ TiersAreAccountedFor
  /\ EndedIsQuiet
  /\ StrandedOnlyWithoutConfig
  /\ OpenTransactions
  /\ RequestsRemember

-----------------------------------------------------------------------------
(***************************************************************************)
(* The timing assumption behind the lease: a worker is done with a row     *)
(* before the claim on it runs out.  Time waits, and nothing else does.    *)
(***************************************************************************)
LeasesHold == \A w \in Workers : \A i \in batch[w] : lease[i] # 1

PromptNext == Next /\ (Tick => LeasesHold)
PromptSpec == Init /\ [][PromptNext]_vars

\* Under that assumption no two workers have the same row to visit, ...
ClaimsAreExclusive ==
  \A v, w \in Workers : v # w => batch[v] \cap batch[w] = {}

\* ... and a row that a worker holds is still due when it comes to be visited.
ClaimedRowsAreDue ==
  \A w \in Workers : \A i \in batch[w] :
    lease[i] > 0 /\ (status[i] \in Active => timer[i] = 0)
=============================================================================
