--------------------------- MODULE LiveFeedProofs ---------------------------
(***************************************************************************)
(* What the live feed guarantees for any incidents, browsers, batch, and   *)
(* number of changes and upsets: envelopes are numbered without a gap,     *)
(* what is broadcast about an incident follows the commits of its row, and *)
(* an open incident that a screen does not show is missing for a known     *)
(* reason.                                                                 *)
(***************************************************************************)
EXTENDS LiveFeed, SequenceTheorems, FiniteSetTheorems, TLAPS

USE LiveFeedAssumption

-----------------------------------------------------------------------------
(***************************************************************************)
(* The ladder.                                                             *)
(***************************************************************************)
LEMMA LadderFacts ==
  /\ Ladder!Active = {"AWAITING_OPERATOR", "TIER1", "TIER2"}
  /\ Ladder!Closed = {"ACK", "RESOLVED"}
  /\ ActiveStatuses = {"AWAITING_OPERATOR", "TIER1", "TIER2", "CRITICAL_UNRESOLVED"}
  /\ Ladder!Statuses = {"AWAITING_OPERATOR", "TIER1", "TIER2", "ACK", "RESOLVED",
                        "CRITICAL_UNRESOLVED", "NOT_CREATED"}
BY DEF Ladder!Active, Ladder!Closed, ActiveStatuses, Ladder!Statuses

LEMMA RungFacts ==
  /\ Ladder!RungOf["AWAITING_OPERATOR"] = 0 /\ Ladder!RungOf["TIER1"] = 1
  /\ Ladder!RungOf["TIER2"] = 2 /\ Ladder!RungOf["CRITICAL_UNRESOLVED"] = 3
  /\ DOMAIN Ladder!RungOf = {"AWAITING_OPERATOR", "TIER1", "TIER2", "CRITICAL_UNRESOLVED"}
  /\ Ladder!RungAbove["AWAITING_OPERATOR"] = "TIER1"
  /\ Ladder!RungAbove["TIER1"] = "TIER2"
  /\ Ladder!RungAbove["TIER2"] = "CRITICAL_UNRESOLVED"
BY DEF Ladder!RungOf, Ladder!RungAbove

LEMMA RowFacts ==
  ASSUME NEW r \in Rows
  PROVE  r.version \in Nat /\ r.status \in Ladder!Statuses /\ r.tier \in 0..3
BY DEF Rows

-----------------------------------------------------------------------------
(***************************************************************************)
(* Sequences and maps of rows.                                             *)
(***************************************************************************)
LEMMA AppendFacts ==
  ASSUME NEW S, NEW q \in Seq(S), NEW e \in S
  PROVE  LET t == Append(q, e) IN
         /\ t \in Seq(S) /\ Len(q) \in Nat
         /\ DOMAIN q = 1..Len(q)
         /\ DOMAIN t = 1..(Len(q) + 1) /\ Len(t) = Len(q) + 1
         /\ \A n \in 1..Len(q) : t[n] = q[n]
         /\ t[Len(q) + 1] = e
BY AppendProperties

LEMMA TailFacts ==
  ASSUME NEW S, NEW q \in Seq(S), q # <<>>
  PROVE  /\ Head(q) \in S /\ Head(q) = q[1] /\ 1 \in DOMAIN q
         /\ Tail(q) \in Seq(S) /\ Len(Tail(q)) = Len(q) - 1 /\ Len(q) \in Nat \ {0}
         /\ DOMAIN q = 1..Len(q) /\ DOMAIN Tail(q) = 1..(Len(q) - 1)
         /\ \A n \in DOMAIN Tail(q) : n + 1 \in DOMAIN q /\ Tail(q)[n] = q[n + 1]
<1>1. Len(q) \in Nat \ {0} /\ DOMAIN q = 1..Len(q)
  BY EmptySeq, LenProperties
<1>2. Tail(q) \in Seq(S) /\ Len(Tail(q)) = Len(q) - 1 /\ Head(q) \in S
      /\ \A n \in 1..Len(Tail(q)) : Tail(q)[n] = q[n + 1]
  BY HeadTailProperties
<1>3. DOMAIN Tail(q) = 1..(Len(q) - 1)
  BY <1>2, LenProperties
<1>4. Head(q) = q[1]
  OBVIOUS
<1> QED
  BY <1>1, <1>2, <1>3, <1>4

LEMMA EmptyFacts ==
  ASSUME NEW S
  PROVE  <<>> \in Seq(S) /\ Len(<<>>) = 0 /\ DOMAIN <<>> = {}
<1>1. <<>> \in Seq(S) /\ Len(<<>>) = 0
  BY EmptySeq
<1>2. DOMAIN <<>> = 1..0
  BY <1>1, LenProperties
<1> QED
  BY <1>1, <1>2

LEMMA RowMapFacts ==
  ASSUME NEW map \in RowMaps
  PROVE  DOMAIN map \in SUBSET Incidents /\ \A i \in DOMAIN map : map[i] \in Rows
BY DEF RowMaps

LEMMA RowMapIntro ==
  ASSUME NEW ids \in SUBSET Incidents, NEW map \in [ids -> Rows]
  PROVE  map \in RowMaps /\ DOMAIN map = ids
BY DEF RowMaps

LEMMA EmptyMap == Empty \in RowMaps /\ DOMAIN Empty = {}
<1>1. <<>> \in Seq(Rows) /\ Len(<<>>) = 0
  BY EmptySeq
<1>2. <<>> \in [1..0 -> Rows]
  BY <1>1, LenProperties
<1>3. 1..0 = {} /\ {} \in SUBSET Incidents
  OBVIOUS
<1> QED
  BY <1>2, <1>3, RowMapIntro DEF Empty

LEMMA ActiveViewsFacts ==
  ASSUME DbTypeOK
  PROVE  /\ ActiveViews \in RowMaps
         /\ DOMAIN ActiveViews = {j \in Incidents : row[j].status \in ActiveStatuses}
<1>1. ActiveViews \in [{j \in Incidents : row[j].status \in ActiveStatuses} -> Rows]
  BY DEF ActiveViews, DbTypeOK
<1> QED
  BY <1>1, RowMapIntro

\* What an envelope does to the map of rows.
LEMMA ReduceFacts ==
  ASSUME NEW map \in RowMaps, NEW env \in Envelopes
  PROVE  /\ Reduce(map, env) \in RowMaps
         /\ env.type = "snapshot" => DOMAIN Reduce(map, env) = DOMAIN env.rows
         /\ env.type \in {"created", "updated"} =>
              DOMAIN Reduce(map, env) = DOMAIN map \cup DOMAIN env.rows
         /\ env.type \notin Showing => DOMAIN Reduce(map, env) = DOMAIN map
<1>1. PICK rows \in RowMaps : rows = env.rows
  BY DEF Envelopes
<1>2. /\ DOMAIN map \in SUBSET Incidents /\ \A i \in DOMAIN map : map[i] \in Rows
      /\ DOMAIN rows \in SUBSET Incidents /\ \A i \in DOMAIN rows : rows[i] \in Rows
  BY RowMapFacts
<1>3. Overwrite(map, rows) \in RowMaps /\ DOMAIN Overwrite(map, rows) = DOMAIN map \cup DOMAIN rows
  <2>1. Overwrite(map, rows) \in [DOMAIN map \cup DOMAIN rows -> Rows]
    BY <1>2 DEF Overwrite
  <2>2. DOMAIN map \cup DOMAIN rows \in SUBSET Incidents
    BY <1>2
  <2> QED
    BY <2>1, <2>2, RowMapIntro
<1>4. Patch(map, rows) \in RowMaps /\ DOMAIN Patch(map, rows) = DOMAIN map
  <2>1. Patch(map, rows) \in [DOMAIN map -> Rows]
    BY <1>2 DEF Patch
  <2> QED
    BY <1>2, <2>1, RowMapIntro
<1>5. PatchTier(map, rows) \in RowMaps /\ DOMAIN PatchTier(map, rows) = DOMAIN map
  <2>1. \A i \in DOMAIN map : i \in DOMAIN rows => [map[i] EXCEPT !.tier = rows[i].tier] \in Rows
    BY <1>2 DEF Rows
  <2>2. PatchTier(map, rows) \in [DOMAIN map -> Rows]
    BY <1>2, <2>1 DEF PatchTier
  <2> QED
    BY <1>2, <2>2, RowMapIntro
<1>6. env.type \in Types
  BY DEF Envelopes
<1>7. CASE env.type = "snapshot"
  BY <1>1, <1>7 DEF Reduce, Showing
<1>8. CASE env.type \in {"created", "updated"}
  BY <1>1, <1>3, <1>8 DEF Reduce, Showing
<1>9. CASE env.type = "tier_advanced"
  BY <1>1, <1>4, <1>9 DEF Reduce, Showing
<1>10. CASE env.type = "timer"
  BY <1>1, <1>5, <1>10 DEF Reduce, Showing
<1>11. CASE env.type = "heartbeat"
  BY <1>1, <1>11 DEF Reduce, Showing
<1> QED
  BY <1>6, <1>7, <1>8, <1>9, <1>10, <1>11 DEF Types, Showing

-----------------------------------------------------------------------------
(***************************************************************************)
(* The incidents: types, transactions, and that versions only grow.        *)
(***************************************************************************)
LEMMA DbActions ==
  [Next]_vars =>
    UNCHANGED db \/ (\E i \in Incidents : Write(i)) \/ (\E t \in txn : Commit(t))
BY DEF Next, Publish, WriterDies, RedisFails, RedisReturns, Supervise, Probe, Subscribe, Receive,
   SubscriberEnds, Poll, WindowEnds, Drained, PollHangs, ReceiveFails, PollFails, Broadcast, Connect,
   Serve, QuerySnapshot, SendSnapshot, SendTimers, Heartbeat, ReadTimers, Drop, Deliver, vars

DbInv == DbTypeOK /\ RowsAreOnRungs /\ VersionsAreCounted

LEMMA TxnFacts ==
  ASSUME DbTypeOK, NEW t \in txn
  PROVE  /\ t.inc \in Incidents /\ t.stamp \in 1..MaxChanges
         /\ t.does \in {"created", "tier_advanced"} \cup Ladder!Closed
         /\ row[t.inc] \in Rows
BY DEF DbTypeOK, Txns

LEMMA BeginKeepsDb ==
  ASSUME DbInv, NEW i \in Incidents, NEW does \in {"created", "tier_advanced"} \cup Ladder!Closed,
         Begin(i, does)
  PROVE  DbInv' /\ row' = row
<1> USE DEF DbInv
<1>1. PICK t : t = [inc |-> i, does |-> does, stamp |-> clock + 1]
  OBVIOUS
<1>2. /\ clock \in Nat /\ clock < MaxChanges /\ clock' = clock + 1 /\ txn' = txn \cup {t}
      /\ row' = row /\ updated' = updated
  BY <1>1 DEF Begin, DbTypeOK
<1>3. t \in Txns
  BY <1>1, <1>2 DEF Txns
<1>4. DbTypeOK'
  BY <1>2, <1>3 DEF DbTypeOK
<1>5. RowsAreOnRungs'
  BY <1>2 DEF RowsAreOnRungs
<1>6. VersionsAreCounted'
  <2>1. IsFiniteSet(txn) /\ Cardinality(txn) \in Nat
    BY FS_CardinalityType DEF VersionsAreCounted
  <2>2. /\ IsFiniteSet(txn') /\ Cardinality(txn') \in Nat
        /\ Cardinality(txn') <= Cardinality(txn) + 1
    BY <1>2, <2>1, FS_AddElement
  <2>3. ASSUME NEW j \in Incidents PROVE row'[j].version + Cardinality(txn') <= clock'
    <3>1. row[j].version \in Nat /\ row[j].version + Cardinality(txn) <= clock
      BY RowFacts DEF DbTypeOK, VersionsAreCounted
    <3> QED
      BY <1>2, <2>1, <2>2, <3>1
  <2> QED
    BY <2>2, <2>3 DEF VersionsAreCounted
<1> QED
  BY <1>2, <1>4, <1>5, <1>6

LEMMA WriteKeepsDb ==
  ASSUME DbInv, NEW i \in Incidents, Write(i)
  PROVE  DbInv' /\ row' = row
<1>1. PICK does \in {"created", "tier_advanced"} \cup Ladder!Closed : Begin(i, does)
  BY DEF Write, BeginCreate, BeginClimb, BeginClose
<1> QED
  BY <1>1, BeginKeepsDb

\* What a transaction that does not skip makes of its row.
LEMMA WrittenFacts ==
  ASSUME DbInv, NEW t \in txn, ~Skips(t)
  PROVE  /\ Written(t) \in Rows
         /\ Written(t).version = row[t.inc].version + 1
         /\ Written(t).status \in Ladder!Active =>
              Written(t).tier = Ladder!RungOf[Written(t).status]
         /\ Written(t).status \in ActiveStatuses =>
              row[t.inc].status \in ActiveStatuses \/ t.does = "created"
<1>1. PICK was \in Rows : was = row[t.inc]
  BY TxnFacts DEF DbInv
<1>2. was.version \in Nat /\ was.status \in Ladder!Statuses /\ was.tier \in 0..3
  BY RowFacts
<1>3. was.version + 1 \in 0..MaxChanges
  <2>1. IsFiniteSet(txn) /\ was.version + Cardinality(txn) <= clock
    BY <1>1, TxnFacts DEF DbInv, VersionsAreCounted
  <2>2. Cardinality(txn) \in Nat /\ Cardinality(txn) # 0
    BY <2>1, FS_CardinalityType, FS_EmptySet
  <2> QED
    BY <1>2, <2>1, <2>2 DEF DbInv, DbTypeOK
<1>4. CASE t.does = "created"
  <2>1. Written(t) = [status |-> "AWAITING_OPERATOR", tier |-> 0, version |-> was.version + 1]
    BY <1>1, <1>4, LadderFacts DEF Written
  <2> QED
    BY <1>1, <1>3, <1>4, <2>1, LadderFacts, RungFacts DEF Rows
<1>5. CASE t.does = "tier_advanced"
  <2>1. was.status \in Ladder!Active
    BY <1>1, <1>5 DEF Skips
  <2>2. was.tier = Ladder!RungOf[was.status]
    BY <1>1, <2>1, TxnFacts DEF DbInv, RowsAreOnRungs
  <2>3. Written(t) = [status |-> Ladder!RungAbove[was.status], tier |-> was.tier + 1,
                      version |-> was.version + 1]
    BY <1>1, <1>5, LadderFacts DEF Written
  <2> QED
    BY <1>1, <1>3, <2>1, <2>2, <2>3, LadderFacts, RungFacts DEF Rows
<1>6. CASE t.does \in Ladder!Closed
  <2>1. Written(t) = [status |-> t.does, tier |-> was.tier, version |-> was.version + 1]
    BY <1>1, <1>6, LadderFacts DEF Written
  <2> QED
    BY <1>1, <1>2, <1>3, <1>6, <2>1, LadderFacts DEF Rows
<1> QED
  BY <1>4, <1>5, <1>6, TxnFacts DEF DbInv

\* A commit writes its row, once more than before, or leaves it.
LEMMA CommitMoves ==
  ASSUME DbInv, NEW t \in txn, Commit(t)
  PROVE  \/ Skips(t) /\ UNCHANGED <<row, updated>>
         \/ ~Skips(t) /\ row' = [row EXCEPT ![t.inc] = Written(t)]
BY DEF Commit

LEMMA CommitKeepsDb ==
  ASSUME DbInv, NEW t \in txn, Commit(t)
  PROVE  DbInv' /\ \A i \in Incidents : row[i].version <= row'[i].version
<1> USE DEF DbInv
<1>1. txn' = txn \ {t} /\ clock' = clock /\ clock \in Nat
  BY DEF Commit, DbTypeOK
<1>2. /\ IsFiniteSet(txn') /\ Cardinality(txn') \in Nat /\ Cardinality(txn) \in Nat
      /\ Cardinality(txn') = Cardinality(txn) - 1
  BY <1>1, FS_RemoveElement, FS_CardinalityType DEF VersionsAreCounted
<1>3. \A i \in Incidents : /\ row[i] \in Rows /\ row[i].version \in Nat
                           /\ row[i].version + Cardinality(txn) <= clock
  BY RowFacts DEF DbTypeOK, VersionsAreCounted
<1>0. ASSUME \A i \in Incidents : /\ row'[i].version \in Nat
                                 /\ row'[i].version <= row[i].version + 1
      PROVE  VersionsAreCounted'
  <2>1. ASSUME NEW i \in Incidents PROVE row'[i].version + Cardinality(txn') <= clock'
    <3>1. PICK open \in Nat : open = Cardinality(txn)
      BY <1>2
    <3>2. Cardinality(txn') = open - 1
      BY <1>2, <3>1
    <3>3. row[i].version \in Nat /\ row[i].version + open <= clock
      BY <1>3, <3>1
    <3> QED
      BY <1>0, <1>1, <3>2, <3>3
  <2> QED
    BY <1>2, <2>1 DEF VersionsAreCounted
<1>4. CASE Skips(t)
  <2>1. UNCHANGED <<row, updated>>
    BY <1>4 DEF Commit
  <2>2. DbTypeOK' /\ RowsAreOnRungs'
    BY <1>1, <2>1 DEF DbTypeOK, RowsAreOnRungs
  <2>3. VersionsAreCounted'
    <3>1. \A i \in Incidents : row[i].version <= row'[i].version
                             /\ row'[i].version <= row[i].version + 1 /\ row'[i].version \in Nat
      BY <1>3, <2>1
    <3> QED
      BY <1>0, <3>1
  <2> QED
    BY <1>3, <2>1, <2>2, <2>3
<1>5. CASE ~Skips(t)
  <2>1. PICK new \in Rows : /\ new = Written(t) /\ new.version = row[t.inc].version + 1
                            /\ new.status \in Ladder!Active => new.tier = Ladder!RungOf[new.status]
    BY <1>5, WrittenFacts
  <2>2. /\ row' = [row EXCEPT ![t.inc] = new] /\ updated' = [updated EXCEPT ![t.inc] = t.stamp]
        /\ t.inc \in Incidents /\ t.stamp \in 0..MaxChanges
    BY <1>5, <2>1, TxnFacts DEF Commit
  <2>3. \A i \in Incidents : row'[i] = IF i = t.inc THEN new ELSE row[i]
    BY <2>2 DEF DbTypeOK
  <2>4. DbTypeOK'
    BY <1>1, <2>2 DEF DbTypeOK
  <2>5. RowsAreOnRungs'
    BY <2>1, <2>3 DEF RowsAreOnRungs
  <2>6. ASSUME NEW i \in Incidents
        PROVE  row[i].version <= row'[i].version /\ row'[i].version <= row[i].version + 1
               /\ row'[i].version \in Nat
    BY <1>3, <2>1, <2>3
  <2>7. VersionsAreCounted'
    BY <1>0, <2>6
  <2> QED
    BY <2>4, <2>5, <2>6, <2>7
<1> QED
  BY <1>4, <1>5

LEMMA DbStep ==
  ASSUME DbInv, [Next]_vars
  PROVE  DbInv' /\ \A i \in Incidents : row[i].version <= row'[i].version
<1>1. \A i \in Incidents : row[i].version \in Nat
  BY RowFacts DEF DbInv, DbTypeOK
<1>2. CASE UNCHANGED db
  BY <1>1, <1>2 DEF db, DbInv, DbTypeOK, RowsAreOnRungs, VersionsAreCounted
<1>3. ASSUME NEW i \in Incidents, Write(i)
      PROVE  DbInv' /\ \A j \in Incidents : row[j].version <= row'[j].version
  BY <1>1, <1>3, WriteKeepsDb
<1>4. ASSUME NEW t \in txn, Commit(t)
      PROVE  DbInv' /\ \A j \in Incidents : row[j].version <= row'[j].version
  BY <1>4, CommitKeepsDb
<1> QED
  BY <1>2, <1>3, <1>4, DbActions

-----------------------------------------------------------------------------
(***************************************************************************)
(* The feed: types, and that one task at a time reads and sends.           *)
(***************************************************************************)
LEMMA ItemType ==
  ASSUME DbTypeOK, NEW i \in Incidents, NEW kind \in {"created", "tier_advanced", "updated"}
  PROVE  /\ Item(i, kind) \in Items
         /\ Item(i, kind).inc = i /\ Item(i, kind).kind = kind /\ Item(i, kind).row = row[i]
BY DEF Item, Items, DbTypeOK

LEMMA TaskFacts == Tasks = {"push", "poll"} /\ "push" \in Tasks /\ "poll" \in Tasks
BY DEF Tasks

\* What a poll takes: a page of distinct rows as they are now.
LEMMA PollFacts ==
  ASSUME DbTypeOK, FeedTypeOK, Poll
  PROVE  \E page \in Seq(Items) :
           /\ hand' = [hand EXCEPT !["poll"] = page]
           /\ Len(page) <= Batch
           /\ \A k \in DOMAIN page : page[k].row = row[page[k].inc] /\ page[k].inc \in Incidents
           /\ \A k, n \in DOMAIN page : n # k => page[n].inc # page[k].inc
<1>1. Due \in SUBSET Incidents /\ IsFiniteSet(Due) /\ Cardinality(Due) \in Nat
  <2>1. Due \in SUBSET Incidents
    BY DEF Due
  <2> QED
    BY <2>1, FS_Subset, FS_CardinalityType
<1>2. PICK n \in 1..Cardinality(Due) : \E ids \in [1..n -> Due] :
        /\ Page(ids)
        /\ hand' = [hand EXCEPT !["poll"] = [k \in 1..n |-> Item(ids[k], "updated")]]
  BY DEF Poll
<1>3. PICK ids \in [1..n -> Due] :
        /\ Page(ids)
        /\ hand' = [hand EXCEPT !["poll"] = [k \in 1..n |-> Item(ids[k], "updated")]]
  BY <1>2
<1>4. n \in Nat /\ n \in 1..n /\ ids \in Seq(Due) /\ Len(ids) = n /\ DOMAIN ids = 1..n
  BY <1>1
<1>5. n <= Batch
  BY <1>1, <1>3, <1>4 DEF Page
<1>6. PICK page : page = [k \in 1..n |-> Item(ids[k], "updated")]
  OBVIOUS
<1>7. \A k \in 1..n : /\ ids[k] \in Incidents
                      /\ page[k] \in Items /\ page[k].inc = ids[k] /\ page[k].row = row[ids[k]]
  <2>1. ASSUME NEW k \in 1..n
        PROVE  /\ ids[k] \in Incidents
               /\ page[k] \in Items /\ page[k].inc = ids[k] /\ page[k].row = row[ids[k]]
    <3>1. ids[k] \in Incidents
      BY <1>1
    <3>2. page[k] = Item(ids[k], "updated")
      BY <1>6
    <3> QED
      BY <3>1, <3>2, ItemType
  <2> QED
    BY <2>1
<1>8. page \in Seq(Items) /\ Len(page) = n /\ DOMAIN page = 1..n
  BY <1>4, <1>6, <1>7
<1>10. \A k, m \in 1..n : m # k => ids[m] # ids[k]
  <2>1. \A k \in 1..n : updated[ids[k]] \in Int
    BY <1>7 DEF DbTypeOK
  <2>2. \A m, k \in 1..n : m < k => updated[ids[m]] < updated[ids[k]]
    BY <1>3, <1>4 DEF Page
  <2>3. \A m, k \in 1..n : m < k => ids[m] # ids[k]
    BY <2>1, <2>2
  <2> QED
    BY <2>3
<1>11. /\ hand' = [hand EXCEPT !["poll"] = page]
       /\ Len(page) <= Batch
  BY <1>3, <1>5, <1>6, <1>8
<1>12. \A k \in DOMAIN page : page[k].row = row[page[k].inc] /\ page[k].inc \in Incidents
  BY <1>7, <1>8
<1>13. \A k, m \in DOMAIN page : m # k => page[m].inc # page[k].inc
  BY <1>7, <1>8, <1>10
<1> QED
  BY <1>8, <1>11, <1>12, <1>13

\* The item that a task sends, and the browsers it sends it to.
LEMMA BroadcastFacts ==
  ASSUME FeedTypeOK, NEW t \in Tasks, Broadcast(t)
  PROVE  \E item \in Items :
           /\ item = hand[t][1] /\ 1 \in DOMAIN hand[t] /\ hand[t] # <<>>
           /\ hand' = [hand EXCEPT ![t] = Tail(hand[t])]
           /\ seq' = [b \in Browsers |-> IF Joined(b) THEN seq[b] + 1 ELSE seq[b]]
           /\ wire' = [b \in Browsers |->
                IF Joined(b)
                  THEN Append(wire[b], [type |-> item.kind, seq |-> seq[b] + 1,
                                        rows |-> [i \in {item.inc} |-> item.row]])
                  ELSE wire[b]]
<1>1. hand[t] \in Seq(Items) /\ hand[t] # <<>>
  BY DEF FeedTypeOK, Broadcast
<1>2. Head(hand[t]) \in Items /\ Head(hand[t]) = hand[t][1] /\ 1 \in DOMAIN hand[t]
  BY <1>1, TailFacts
<1> QED
  BY <1>1, <1>2 DEF Broadcast, Envelope, Stamped

\* The head of a task's rows goes, the rest stays, in order.
LEMMA HandShrinks ==
  ASSUME FeedTypeOK, NEW t \in Tasks, hand[t] # <<>>, hand' = [hand EXCEPT ![t] = Tail(hand[t])]
  PROVE  /\ hand' \in [Tasks -> Seq(Items)]
         /\ \A r \in Tasks : Len(hand'[r]) <= Len(hand[r]) /\ Len(hand[r]) \in Nat
                             /\ Len(hand'[r]) \in Nat
         /\ \A n \in DOMAIN hand'[t] : n + 1 \in DOMAIN hand[t] /\ hand'[t][n] = hand[t][n + 1]
                                     /\ n \in Nat
         /\ \A r \in Tasks \ {t} : hand'[r] = hand[r]
<1>1. hand \in [Tasks -> Seq(Items)] /\ hand[t] \in Seq(Items)
  BY DEF FeedTypeOK
<1>2. \A r \in Tasks : Len(hand[r]) \in Nat
  BY <1>1, LenProperties
<1>3. PICK q : q = Tail(hand[t])
  OBVIOUS
<1>4. /\ q \in Seq(Items) /\ Len(q) = Len(hand[t]) - 1 /\ DOMAIN q = 1..(Len(hand[t]) - 1)
      /\ Len(hand[t]) \in Nat \ {0}
      /\ \A n \in DOMAIN q : n + 1 \in DOMAIN hand[t] /\ q[n] = hand[t][n + 1]
  BY <1>1, <1>3, TailFacts
<1>5. hand'[t] = q /\ \A r \in Tasks \ {t} : hand'[r] = hand[r]
  BY <1>1, <1>3
<1> QED
  BY <1>1, <1>2, <1>3, <1>4, <1>5

LEMMA FeedActions ==
  [Next]_vars =>
    \/ UNCHANGED feed
    \/ \E t \in txn : Commit(t)
    \/ \E a \in announce : Publish(a) \/ WriterDies(a)
    \/ RedisFails \/ RedisReturns \/ Supervise \/ ReceiveFails \/ PollFails \/ PollHangs
    \/ \E t \in Tasks : Broadcast(t)
BY DEF Next, Write, BeginCreate, BeginClimb, BeginClose, Begin, Connect, Serve, QuerySnapshot,
   SendSnapshot, SendTimers, Heartbeat, ReadTimers, Drop, Deliver, vars

\* A change that a commit leaves to be announced.
LEMMA AnnounceGrows ==
  ASSUME DbTypeOK, announce \subseteq Changes, NEW t \in txn, Commit(t)
  PROVE  /\ announce' \subseteq Changes /\ announce \subseteq announce'
         /\ ~Skips(t) /\ t.does = "created" => [inc |-> t.inc, kind |-> "created"] \in announce'
<1>1. Announces(t) \subseteq Changes
  BY TxnFacts, LadderFacts DEF Announces, Changes
<1>2. t.does = "created" => Announces(t) = {[inc |-> t.inc, kind |-> "created"]}
  BY LadderFacts DEF Announces
<1> QED
  BY <1>1, <1>2 DEF Commit

\* What Redis hands out is received once, read again from the table.
LEMMA ReceiveFacts ==
  ASSUME DbTypeOK, FeedTypeOK, Receive
  PROVE  \E item \in Items :
           /\ inbox # <<>> /\ 1 \in DOMAIN inbox
           /\ item.inc = inbox[1].inc /\ item.kind = inbox[1].kind
           /\ item.inc \in Incidents /\ item.row = row[item.inc]
           /\ hand' = [hand EXCEPT !["push"] = <<item>>]
           /\ inbox' \in Seq(Changes)
           /\ \A n \in DOMAIN inbox : n # 1 =>
                \E m \in DOMAIN inbox' : inbox'[m] = inbox[n]
<1>1. inbox \in Seq(Changes) /\ inbox # <<>>
  BY DEF FeedTypeOK, Receive
<1>2. /\ Head(inbox) \in Changes /\ Head(inbox) = inbox[1] /\ 1 \in DOMAIN inbox
      /\ Tail(inbox) \in Seq(Changes) /\ Len(inbox) \in Nat \ {0} /\ DOMAIN inbox = 1..Len(inbox)
      /\ DOMAIN Tail(inbox) = 1..(Len(inbox) - 1)
      /\ \A n \in DOMAIN Tail(inbox) : n + 1 \in DOMAIN inbox /\ Tail(inbox)[n] = inbox[n + 1]
  BY <1>1, TailFacts
<1>3. inbox[1].inc \in Incidents /\ inbox[1].kind \in {"created", "tier_advanced", "updated"}
  BY <1>2 DEF Changes
<1>4. PICK item : item = Item(inbox[1].inc, inbox[1].kind)
  OBVIOUS
<1>5. item \in Items /\ item.inc = inbox[1].inc /\ item.kind = inbox[1].kind
      /\ item.row = row[inbox[1].inc]
  BY <1>3, <1>4, ItemType
<1>6. hand' = [hand EXCEPT !["push"] = <<item>>] /\ inbox' = Tail(inbox)
  BY <1>2, <1>4 DEF Receive
<1>7. ASSUME NEW n \in DOMAIN inbox, n # 1 PROVE \E m \in DOMAIN inbox' : inbox'[m] = inbox[n]
  <2>1. n - 1 \in DOMAIN Tail(inbox) /\ n - 1 + 1 = n
    BY <1>2, <1>7
  <2> QED
    BY <1>2, <1>6, <2>1
<1> QED
  BY <1>1, <1>2, <1>3, <1>5, <1>6, <1>7

\* A change that the subscriber fails over is gone from the inbox and remembered.
LEMMA ReceiveFailsFacts ==
  ASSUME FeedTypeOK, ReceiveFails
  PROVE  /\ inbox' \in Seq(Changes) /\ inbox # <<>> /\ 1 \in DOMAIN inbox
         /\ failed' = failed \cup {inbox[1]} /\ inbox[1] \in Changes
         /\ \A n \in DOMAIN inbox : n # 1 => \E m \in DOMAIN inbox' : inbox'[m] = inbox[n]
<1>1. inbox \in Seq(Changes) /\ inbox # <<>>
  BY DEF FeedTypeOK, ReceiveFails
<1>2. /\ Head(inbox) \in Changes /\ Head(inbox) = inbox[1] /\ 1 \in DOMAIN inbox
      /\ Tail(inbox) \in Seq(Changes) /\ Len(inbox) \in Nat \ {0} /\ DOMAIN inbox = 1..Len(inbox)
      /\ DOMAIN Tail(inbox) = 1..(Len(inbox) - 1)
      /\ \A n \in DOMAIN Tail(inbox) : n + 1 \in DOMAIN inbox /\ Tail(inbox)[n] = inbox[n + 1]
  BY <1>1, TailFacts
<1>3. inbox' = Tail(inbox) /\ failed' = failed \cup {inbox[1]}
  BY <1>2 DEF ReceiveFails
<1>4. ASSUME NEW n \in DOMAIN inbox, n # 1 PROVE \E m \in DOMAIN inbox' : inbox'[m] = inbox[n]
  <2>1. n - 1 \in DOMAIN Tail(inbox) /\ n - 1 + 1 = n
    BY <1>2, <1>4
  <2> QED
    BY <1>2, <1>3, <2>1
<1> QED
  BY <1>1, <1>2, <1>3, <1>4

\* A poll that stops, by an error or for good, holds nothing any more.
LEMMA PollEnds ==
  ASSUME FeedTypeOK, PollFails \/ PollHangs
  PROVE  /\ hand' \in [Tasks -> Seq(Items)]
         /\ hand'["poll"] = <<>> /\ hand'["push"] = hand["push"]
<1>1. <<>> \in Seq(Items)
  BY EmptyFacts
<1>2. hand' = [hand EXCEPT !["poll"] = <<>>]
  BY DEF PollFails, PollHangs
<1> QED
  BY <1>1, <1>2, TaskFacts DEF FeedTypeOK

LEMMA SingleFacts ==
  ASSUME NEW S, NEW e \in S
  PROVE  <<e>> \in Seq(S) /\ Len(<<e>>) = 1 /\ DOMAIN <<e>> = {1} /\ <<e>>[1] = e
OBVIOUS

\* Announcements arrive behind those that are there.
LEMMA PublishFacts ==
  ASSUME FeedTypeOK, NEW a \in announce, Publish(a)
  PROVE  /\ announce' = announce \ {a}
         /\ \/ UNCHANGED inbox /\ lost' = lost \cup Unheard({a})
            \/ /\ UNCHANGED lost /\ inbox' \in Seq(Changes)
               /\ \A n \in DOMAIN inbox : n \in DOMAIN inbox' /\ inbox'[n] = inbox[n]
               /\ \E n \in DOMAIN inbox' : inbox'[n] = a
<1>1. inbox \in Seq(Changes) /\ a \in Changes
  BY DEF FeedTypeOK
<1>2. PICK q : q = Append(inbox, a)
  OBVIOUS
<1>3. /\ q \in Seq(Changes) /\ Len(inbox) \in Nat /\ DOMAIN inbox = 1..Len(inbox)
      /\ DOMAIN q = 1..(Len(inbox) + 1)
      /\ \A n \in 1..Len(inbox) : q[n] = inbox[n]
      /\ q[Len(inbox) + 1] = a
  BY <1>1, <1>2, AppendFacts
<1>4. \A n \in DOMAIN inbox : n \in DOMAIN q /\ q[n] = inbox[n]
  BY <1>3
<1>5. Len(inbox) + 1 \in DOMAIN q
  BY <1>3
<1> QED
  BY <1>2, <1>3, <1>4, <1>5 DEF Publish

LEMMA FeedKeepsTypes ==
  ASSUME DbInv, FeedTypeOK, [Next]_vars
  PROVE  FeedTypeOK'
<1> USE DEF FeedTypeOK
<1>2. CASE UNCHANGED feed
  BY <1>2 DEF feed
<1>3. ASSUME NEW t \in txn, Commit(t) PROVE FeedTypeOK'
  <2>1. announce' \subseteq Changes
    BY <1>3, AnnounceGrows DEF DbInv
  <2>2. UNCHANGED <<redisUp, inbox, sup, cursor, hand>>
    BY <1>3 DEF Commit
  <2> QED
    BY <2>1, <2>2
<1>4. ASSUME NEW a \in announce, Publish(a) PROVE FeedTypeOK'
  <2>1. inbox' \in Seq(Changes) /\ announce' \subseteq Changes
    BY <1>4, PublishFacts
  <2> QED
    BY <1>4, <2>1 DEF Publish
<1>5. ASSUME NEW a \in announce, WriterDies(a) PROVE FeedTypeOK'
  BY <1>5 DEF WriterDies
<1>6. CASE RedisFails \/ RedisReturns
  BY <1>6 DEF RedisFails, RedisReturns
<1>7. CASE Probe
  <2>1. clock \in 0..MaxChanges
    BY DEF DbInv, DbTypeOK
  <2> QED
    BY <1>7, <2>1 DEF Probe
<1>8. CASE Subscribe \/ WindowEnds \/ Drained
  BY <1>8 DEF Subscribe, WindowEnds, Drained
<1>9. CASE Receive
  <2>1. PICK item \in Items : /\ hand' = [hand EXCEPT !["push"] = <<item>>]
                              /\ inbox' \in Seq(Changes)
    BY <1>9, ReceiveFacts DEF DbInv
  <2>2. PICK page \in Seq(Items) : page = <<item>> /\ Len(page) = 1
    BY SingleFacts
  <2>3. hand' = [hand EXCEPT !["push"] = page]
    BY <2>1, <2>2
  <2>4. hand' \in [Tasks -> Seq(Items)] /\ hand'["push"] = page /\ hand'["poll"] = hand["poll"]
    BY <2>3, TaskFacts
  <2>5. UNCHANGED <<announce, redisUp, sup, cursor>>
    BY <1>9 DEF Receive
  <2> QED
    BY <2>1, <2>2, <2>4, <2>5
<1>10. CASE SubscriberEnds
  BY <1>10, EmptyFacts DEF SubscriberEnds
<1>11. CASE Poll
  <2>1. PICK page \in Seq(Items) : /\ hand' = [hand EXCEPT !["poll"] = page]
                                   /\ Len(page) <= Batch
    BY <1>11, PollFacts DEF DbInv
  <2>2. hand' \in [Tasks -> Seq(Items)] /\ hand'["poll"] = page /\ hand'["push"] = hand["push"]
    BY <2>1, TaskFacts
  <2>3. UNCHANGED <<announce, redisUp, inbox, sup, cursor>>
    BY <1>11 DEF Poll
  <2> QED
    BY <2>1, <2>2, <2>3
<1>12. CASE PollFails \/ PollHangs
  <2>1. /\ hand' \in [Tasks -> Seq(Items)]
        /\ hand'["poll"] = <<>> /\ hand'["push"] = hand["push"] /\ Len(<<>>) = 0
    BY <1>12, PollEnds, EmptyFacts
  <2>2. UNCHANGED <<announce, redisUp, inbox, cursor>> /\ sup' \in {sup, "dead"}
    BY <1>12 DEF PollFails, PollHangs
  <2> QED
    BY <2>1, <2>2
<1>13. ASSUME NEW t \in Tasks, Broadcast(t) PROVE FeedTypeOK'
  <2>1. hand[t] # <<>> /\ hand' = [hand EXCEPT ![t] = Tail(hand[t])]
    BY <1>13 DEF Broadcast
  <2>2. /\ hand' \in [Tasks -> Seq(Items)]
        /\ \A r \in Tasks : Len(hand'[r]) <= Len(hand[r]) /\ Len(hand[r]) \in Nat
                            /\ Len(hand'[r]) \in Nat
    BY <2>1, HandShrinks
  <2>3. cursor' \in 0..MaxChanges
    <3>1. Head(hand[t]) \in Items
      BY <2>1, TailFacts
    <3>2. Head(hand[t]).stamp \in 0..MaxChanges
      BY <3>1 DEF Items
    <3> QED
      BY <1>13, <3>2 DEF Broadcast
  <2>4. UNCHANGED <<announce, redisUp, inbox, sup>>
    BY <1>13 DEF Broadcast
  <2> QED
    BY <2>2, <2>3, <2>4, TaskFacts
<1>14. CASE ReceiveFails
  <2>1. inbox' \in Seq(Changes)
    BY <1>14, ReceiveFailsFacts
  <2> QED
    BY <1>14, <2>1 DEF ReceiveFails
<1> QED
  BY <1>2, <1>3, <1>4, <1>5, <1>6, <1>7, <1>8, <1>9, <1>10, <1>11, <1>12, <1>13, <1>14, FeedActions
     DEF Supervise

\* The rows a task has in hand.
HandOK(t) ==
  \A k \in DOMAIN hand[t] :
    /\ hand[t][k].row.version <= row[hand[t][k].inc].version
    /\ \A n \in DOMAIN hand[t] : n # k => hand[t][n].inc # hand[t][k].inc

LEMMA ItemFacts ==
  ASSUME FeedTypeOK, NEW t \in Tasks, NEW k \in DOMAIN hand[t]
  PROVE  /\ hand[t][k] \in Items /\ hand[t][k].inc \in Incidents /\ hand[t][k].row \in Rows
         /\ hand[t][k].kind \in {"created", "tier_advanced", "updated"}
         /\ k \in Nat /\ hand[t] # <<>>
<1>1. hand[t] \in Seq(Items)
  BY DEF FeedTypeOK
<1>2. DOMAIN hand[t] = 1..Len(hand[t]) /\ Len(hand[t]) \in Nat
  BY <1>1, LenProperties
<1>3. hand[t][k] \in Items
  BY <1>1, <1>2, ElementOfSeq
<1>4. hand[t] # <<>>
  BY <1>2, EmptyFacts
<1> QED
  BY <1>2, <1>3, <1>4 DEF Items

LEMMA ReadStep ==
  ASSUME DbInv, FeedTypeOK, FeedTypeOK', OneTaskReads, [Next]_vars
  PROVE  OneTaskReads'
<1>1. /\ DbInv' /\ \A i \in Incidents : /\ row[i].version <= row'[i].version
                                        /\ row[i] \in Rows /\ row'[i] \in Rows
  BY DbStep DEF DbInv, DbTypeOK
<1>2. \A i \in Incidents : row[i].version \in Nat /\ row'[i].version \in Nat
  BY <1>1, RowFacts
<1>3. ASSUME NEW t \in Tasks, hand'[t] = hand[t] PROVE HandOK(t)'
  <2>1. ASSUME NEW k \in DOMAIN hand[t]
        PROVE  /\ hand[t][k].row.version <= row'[hand[t][k].inc].version
               /\ \A n \in DOMAIN hand[t] : n # k => hand[t][n].inc # hand[t][k].inc
    <3>1. hand[t][k].inc \in Incidents /\ hand[t][k].row.version \in Nat
      BY ItemFacts, RowFacts
    <3>2. hand[t][k].row.version <= row[hand[t][k].inc].version
          /\ \A n \in DOMAIN hand[t] : n # k => hand[t][n].inc # hand[t][k].inc
      BY DEF OneTaskReads
    <3> QED
      BY <1>1, <1>2, <3>1, <3>2
  <2> QED
    BY <1>3, <2>1 DEF HandOK
<1>4. ASSUME HandOK("push")', HandOK("poll")',
             hand'["push"] # <<>> => sup' \in {"listen", "broken"},
             hand'["poll"] # <<>> => sup' \in {"poll", "drain"}
      PROVE  OneTaskReads'
  BY <1>4, TaskFacts DEF HandOK, OneTaskReads
<1>5. /\ hand["push"] # <<>> => sup \in {"listen", "broken"}
      /\ hand["poll"] # <<>> => sup \in {"poll", "drain"}
  BY DEF OneTaskReads
<1>6. CASE hand' = hand
  <2>1. HandOK("push")' /\ HandOK("poll")'
    BY <1>3, <1>6, TaskFacts
  <2>2. /\ hand["push"] # <<>> => sup' \in {"listen", "broken"}
        /\ hand["poll"] # <<>> => sup' \in {"poll", "drain"}
    <3>1. CASE sup' = sup
      BY <1>5, <3>1
    <3>2. CASE RedisFails
      BY <1>5, <3>2 DEF RedisFails
    <3>3. CASE Supervise
      BY <1>5, <1>6, <3>3 DEF Supervise, Probe, Subscribe, Receive, SubscriberEnds, Poll, WindowEnds,
         Drained
    <3>4. CASE PollHangs
      <4>1. hand'["poll"] = <<>>
        BY <3>4, PollEnds
      <4> QED
        BY <1>5, <1>6, <3>4, <4>1 DEF PollHangs
    <3> QED
      BY <3>1, <3>2, <3>3, <3>4, FeedActions DEF feed, Commit, Publish, WriterDies, RedisReturns,
         ReceiveFails, PollFails, Broadcast
  <2> QED
    BY <1>4, <1>6, <2>1, <2>2
<1>7. CASE Receive
  <2>1. PICK item \in Items : /\ item.inc \in Incidents /\ item.row = row[item.inc]
                              /\ hand' = [hand EXCEPT !["push"] = <<item>>]
    BY <1>7, ReceiveFacts DEF DbInv
  <2>2. row' = row /\ sup \in {"listen", "broken"} /\ sup' = sup
    BY <1>7 DEF Receive, db
  <2>3. PICK page : page = <<item>> /\ DOMAIN page = {1} /\ page[1] = item
    BY SingleFacts
  <2>4. hand'["push"] = page /\ hand'["poll"] = hand["poll"]
    BY <2>1, <2>3, TaskFacts DEF FeedTypeOK
  <2>5. HandOK("push")'
    BY <1>2, <2>1, <2>2, <2>3, <2>4 DEF HandOK
  <2>6. HandOK("poll")'
    BY <1>3, <2>4, TaskFacts
  <2> QED
    BY <1>4, <1>5, <2>2, <2>4, <2>5, <2>6
<1>8. CASE Poll
  <2>1. PICK page \in Seq(Items) :
          /\ hand' = [hand EXCEPT !["poll"] = page]
          /\ \A k \in DOMAIN page : page[k].row = row[page[k].inc] /\ page[k].inc \in Incidents
          /\ \A k, n \in DOMAIN page : n # k => page[n].inc # page[k].inc
    BY <1>8, PollFacts DEF DbInv
  <2>2. row' = row /\ sup = "poll" /\ sup' = sup
    BY <1>8 DEF Poll, db
  <2>3. hand'["poll"] = page /\ hand'["push"] = hand["push"]
    BY <2>1, TaskFacts DEF FeedTypeOK
  <2>4. HandOK("poll")'
    BY <1>2, <2>1, <2>2, <2>3 DEF HandOK
  <2>5. HandOK("push")'
    BY <1>3, <2>3, TaskFacts
  <2> QED
    BY <1>4, <1>5, <2>2, <2>3, <2>4, <2>5
<1>9. CASE PollFails \/ PollHangs
  <2>1. /\ hand'["poll"] = <<>> /\ hand'["push"] = hand["push"]
        /\ sup' = sup \/ sup = "drain"
    BY <1>9, PollEnds DEF PollFails, PollHangs
  <2>2. HandOK("poll")'
    BY <2>1, EmptyFacts DEF HandOK
  <2>3. HandOK("push")'
    BY <1>3, <2>1, TaskFacts
  <2> QED
    BY <1>4, <1>5, <2>1, <2>2, <2>3
<1>10. ASSUME NEW t \in Tasks, Broadcast(t) PROVE OneTaskReads'
  <2>1. hand[t] # <<>> /\ hand' = [hand EXCEPT ![t] = Tail(hand[t])] /\ sup' = sup /\ row' = row
    BY <1>10 DEF Broadcast, db
  <2>2. /\ \A n \in DOMAIN hand'[t] : n + 1 \in DOMAIN hand[t] /\ hand'[t][n] = hand[t][n + 1]
                                      /\ n \in Nat
        /\ \A r \in Tasks \ {t} : hand'[r] = hand[r]
    BY <2>1, HandShrinks
  <2>3. HandOK(t)'
    <3>1. ASSUME NEW k \in DOMAIN hand'[t]
          PROVE  /\ hand'[t][k].row.version <= row'[hand'[t][k].inc].version
                 /\ \A n \in DOMAIN hand'[t] : n # k => hand'[t][n].inc # hand'[t][k].inc
      <4>1. k + 1 \in DOMAIN hand[t] /\ hand'[t][k] = hand[t][k + 1]
        BY <2>2
      <4>2. \A n \in DOMAIN hand'[t] : n # k =>
              n + 1 \in DOMAIN hand[t] /\ n + 1 # k + 1 /\ hand'[t][n] = hand[t][n + 1]
        BY <2>2
      <4> QED
        BY <2>1, <4>1, <4>2 DEF OneTaskReads
    <3> QED
      BY <3>1 DEF HandOK
  <2>4. \A r \in Tasks : HandOK(r)'
    BY <1>3, <2>2, <2>3
  <2>5. \A r \in Tasks : hand'[r] # <<>> => hand[r] # <<>>
    BY <2>1, <2>2
  <2> QED
    BY <1>4, <1>5, <2>1, <2>4, <2>5, TaskFacts
<1>11. \/ UNCHANGED hand \/ Receive \/ Poll \/ PollFails \/ PollHangs
       \/ \E t \in Tasks : Broadcast(t)
  BY FeedActions DEF feed, Commit, Publish, WriterDies, RedisFails, RedisReturns, Supervise, Probe,
     Subscribe, SubscriberEnds, WindowEnds, Drained, ReceiveFails
<1> QED
  BY <1>6, <1>7, <1>8, <1>9, <1>10, <1>11

-----------------------------------------------------------------------------
(***************************************************************************)
(* The connections: what one step does to one of them.                     *)
(***************************************************************************)
ConnTypeOK == ServerTypeOK /\ BrowserTypeOK

Still(b) ==
  wire'[b] = wire[b] /\ known'[b] = known[b] /\ lastSeq'[b] = lastSeq[b] /\ seq'[b] = seq[b]

\* The server puts an envelope on the wire.
Gets(b, e) ==
  /\ Joined(b)
  /\ wire'[b] = Append(wire[b], e) /\ e.seq = seq[b] + 1 /\ seq'[b] = seq[b] + 1
  /\ known'[b] = known[b] /\ lastSeq'[b] = lastSeq[b]

LEMMA EnvelopeType ==
  ASSUME NEW b \in Browsers, seq[b] \in Nat, NEW type \in Types, NEW rows \in RowMaps
  PROVE  /\ Envelope(b, type, rows) \in Envelopes
         /\ Envelope(b, type, rows).type = type /\ Envelope(b, type, rows).rows = rows
         /\ Envelope(b, type, rows).seq = seq[b] + 1
BY DEF Envelope, Stamped, Envelopes

LEMMA SendGets ==
  ASSUME ConnTypeOK, NEW b \in Browsers, Joined(b), NEW type \in Types, NEW rows \in RowMaps,
         Send(b, type, rows), UNCHANGED <<known, lastSeq>>
  PROVE  /\ \E e \in Envelopes : e.type = type /\ e.rows = rows /\ Gets(b, e)
         /\ \A c \in Browsers \ {b} : Still(c)
         /\ seq' \in [Browsers -> Nat] /\ wire' \in [Browsers -> Seq(Envelopes)]
<1> USE DEF ConnTypeOK, ServerTypeOK, BrowserTypeOK
<1>1. PICK e : e = Envelope(b, type, rows)
  OBVIOUS
<1>2. e \in Envelopes /\ e.type = type /\ e.rows = rows /\ e.seq = seq[b] + 1
  BY <1>1, EnvelopeType
<1>3. seq' = [seq EXCEPT ![b] = seq[b] + 1] /\ wire' = [wire EXCEPT ![b] = Append(wire[b], e)]
  BY <1>1 DEF Send, Stamped
<1>4. Append(wire[b], e) \in Seq(Envelopes)
  BY <1>2, AppendFacts
<1>5. Gets(b, e) /\ \A c \in Browsers \ {b} : Still(c)
  BY <1>2, <1>3 DEF Gets, Still
<1>6. seq' \in [Browsers -> Nat] /\ wire' \in [Browsers -> Seq(Envelopes)]
  BY <1>3, <1>4
<1> QED
  BY <1>2, <1>5, <1>6

LEMMA BroadcastGets ==
  ASSUME ConnTypeOK, FeedTypeOK, NEW t \in Tasks, Broadcast(t)
  PROVE  /\ \E item \in Items :
              /\ item = hand[t][1] /\ 1 \in DOMAIN hand[t]
              /\ \A b \in Browsers :
                   IF Joined(b)
                     THEN \E e \in Envelopes :
                            /\ e.type = item.kind /\ e.rows = [i \in {item.inc} |-> item.row]
                            /\ Gets(b, e)
                     ELSE Still(b)
         /\ seq' \in [Browsers -> Nat] /\ wire' \in [Browsers -> Seq(Envelopes)]
<1> USE DEF ConnTypeOK, ServerTypeOK, BrowserTypeOK
<1>1. PICK item \in Items :
           /\ item = hand[t][1] /\ 1 \in DOMAIN hand[t]
           /\ seq' = [b \in Browsers |-> IF Joined(b) THEN seq[b] + 1 ELSE seq[b]]
           /\ wire' = [b \in Browsers |->
                IF Joined(b)
                  THEN Append(wire[b], [type |-> item.kind, seq |-> seq[b] + 1,
                                        rows |-> [i \in {item.inc} |-> item.row]])
                  ELSE wire[b]]
  BY BroadcastFacts
<1>2. PICK rows : rows = [i \in {item.inc} |-> item.row]
  OBVIOUS
<1>3. item.kind \in Types /\ rows \in RowMaps
  <2>1. item.inc \in Incidents /\ item.row \in Rows
        /\ item.kind \in {"created", "tier_advanced", "updated"}
    BY DEF Items
  <2>2. {item.inc} \in SUBSET Incidents /\ rows \in [{item.inc} -> Rows]
    BY <1>2, <2>1
  <2> QED
    BY <2>1, <2>2, RowMapIntro DEF Types, Showing
<1>4. known' = known /\ lastSeq' = lastSeq
  BY DEF Broadcast
<1>5. ASSUME NEW b \in Browsers
      PROVE  /\ IF Joined(b)
                  THEN \E e \in Envelopes : e.type = item.kind /\ e.rows = rows /\ Gets(b, e)
                  ELSE Still(b)
             /\ seq'[b] \in Nat /\ wire'[b] \in Seq(Envelopes)
  <2>1. CASE Joined(b)
    <3>1. PICK e : e = [type |-> item.kind, seq |-> seq[b] + 1, rows |-> rows]
      OBVIOUS
    <3>2. e \in Envelopes /\ e.type = item.kind /\ e.rows = rows /\ e.seq = seq[b] + 1
      BY <1>3, <3>1 DEF Envelopes
    <3>3. wire'[b] = Append(wire[b], e) /\ seq'[b] = seq[b] + 1
      BY <1>1, <1>2, <2>1, <3>1
    <3>4. Append(wire[b], e) \in Seq(Envelopes)
      BY <3>2, AppendFacts
    <3> QED
      BY <1>4, <2>1, <3>2, <3>3, <3>4 DEF Gets
  <2>2. CASE ~Joined(b)
    BY <1>1, <1>4, <2>2 DEF Still
  <2> QED
    BY <2>1, <2>2
<1>6. seq' \in [Browsers -> Nat] /\ wire' \in [Browsers -> Seq(Envelopes)]
  BY <1>1, <1>5
<1> QED
  BY <1>1, <1>2, <1>5, <1>6

\* The browser takes the next envelope, which is never an old one.
Takes(b) ==
  /\ wire[b] # <<>> /\ wire'[b] = Tail(wire[b]) /\ seq'[b] = seq[b]
  /\ lastSeq'[b] = wire[b][1].seq
  /\ known'[b] = Reduce(known[b], wire[b][1])

LEMMA DeliverTakes ==
  ASSUME ConnTypeOK, ConnectionsAreTidy, NumbersRunOn, NEW b \in Browsers, Deliver(b)
  PROVE  /\ Takes(b) /\ Joined(b)
         /\ \A c \in Browsers \ {b} : Still(c)
         /\ wire' \in [Browsers -> Seq(Envelopes)] /\ known' \in [Browsers -> RowMaps]
         /\ lastSeq' \in [Browsers -> Nat]
<1> USE DEF ConnTypeOK, ServerTypeOK, BrowserTypeOK
<1>1. wire[b] \in Seq(Envelopes) /\ wire[b] # <<>> /\ lastSeq[b] \in Nat
  BY DEF Deliver
<1>2. Head(wire[b]) \in Envelopes /\ Head(wire[b]) = wire[b][1] /\ 1 \in DOMAIN wire[b]
      /\ Tail(wire[b]) \in Seq(Envelopes)
  BY <1>1, TailFacts
<1>3. Joined(b)
  BY <1>1 DEF ConnectionsAreTidy, Joined
<1>4. wire[b][1].seq = lastSeq[b] + 1
  BY <1>2, <1>3 DEF NumbersRunOn
<1>5. ~Stale(lastSeq[b], Head(wire[b]))
  BY <1>1, <1>2, <1>4 DEF Stale
<1>6. /\ wire' = [wire EXCEPT ![b] = Tail(wire[b])]
      /\ known' = [known EXCEPT ![b] = Reduce(known[b], wire[b][1])]
      /\ lastSeq' = [lastSeq EXCEPT ![b] = wire[b][1].seq]
      /\ seq' = seq
  BY <1>2, <1>5 DEF Deliver, server
<1>7. Reduce(known[b], wire[b][1]) \in RowMaps /\ wire[b][1].seq \in Nat
  <2>1. PICK map \in RowMaps : map = known[b]
    OBVIOUS
  <2>2. PICK env \in Envelopes : env = wire[b][1]
    BY <1>2
  <2>3. Reduce(map, env) \in RowMaps
    BY ReduceFacts
  <2> QED
    BY <1>1, <1>4, <2>1, <2>2, <2>3
<1> QED
  BY <1>1, <1>2, <1>3, <1>6, <1>7 DEF Takes, Still

\* Where an envelope comes from.
SnapshotOf(b, e) == SendSnapshot(b) /\ e.type = "snapshot" /\ e.rows = views[b]

ChangeOf(t, e) ==
  /\ Broadcast(t) /\ 1 \in DOMAIN hand[t]
  /\ e.type = hand[t][1].kind /\ e.rows = [i \in {hand[t][1].inc} |-> hand[t][1].row]

Origin(b, e) ==
  SnapshotOf(b, e) \/ e.type \in {"timer", "heartbeat"} \/ \E t \in Tasks : ChangeOf(t, e)

\* Every step, seen from one connection.
LEMMA ConnectionStep ==
  ASSUME TypeOK, ConnectionsAreTidy, NumbersRunOn, [Next]_vars, NEW b \in Browsers
  PROVE  \/ Still(b)
         \/ \E e \in Envelopes : Gets(b, e) /\ Origin(b, e)
         \/ Takes(b) /\ Joined(b)
         \/ Connect(b)
         \/ Drop(b)
<1> USE DEF TypeOK, ConnTypeOK
<1>1. CASE UNCHANGED <<wire, known, lastSeq, seq>>
  BY <1>1 DEF Still
<1>2. ASSUME NEW t \in Tasks, Broadcast(t)
      PROVE  Still(b) \/ \E e \in Envelopes : Gets(b, e) /\ ChangeOf(t, e)
  BY <1>2, BroadcastGets DEF ChangeOf
<1>3. ASSUME NEW c \in Browsers, SendTimers(c) \/ Heartbeat(c)
      PROVE  Still(b) \/ \E e \in Envelopes : Gets(b, e) /\ e.type \in {"timer", "heartbeat"}
  <2>1. Joined(c)
    BY <1>3 DEF SendTimers, Heartbeat, ConnectionsAreTidy, Joined
  <2>2. views[c] \in RowMaps /\ Empty \in RowMaps /\ "timer" \in Types /\ "heartbeat" \in Types
    BY EmptyMap DEF ServerTypeOK, Types, Showing
  <2>3. UNCHANGED <<known, lastSeq>>
    BY <1>3 DEF SendTimers, Heartbeat
  <2>4. PICK type \in {"timer", "heartbeat"} : \E rows \in RowMaps : Send(c, type, rows)
    BY <1>3, <2>2 DEF SendTimers, Heartbeat
  <2>5. PICK rows \in RowMaps : Send(c, type, rows)
    BY <2>4
  <2>6. type \in Types
    BY <2>2
  <2>7. /\ \E e \in Envelopes : e.type = type /\ Gets(c, e)
        /\ \A d \in Browsers \ {c} : Still(d)
    BY <2>1, <2>3, <2>5, <2>6, SendGets
  <2> QED
    BY <2>7
<1>4. ASSUME NEW c \in Browsers, SendSnapshot(c)
      PROVE  Still(b) \/ \E e \in Envelopes : Gets(b, e) /\ SnapshotOf(b, e)
  <2>1. Joined(c) /\ UNCHANGED <<known, lastSeq>> /\ Send(c, "snapshot", views[c])
    BY <1>4 DEF SendSnapshot, Joined
  <2>2. views[c] \in RowMaps /\ "snapshot" \in Types
    BY DEF ServerTypeOK, Types, Showing
  <2>3. /\ \E e \in Envelopes : e.type = "snapshot" /\ e.rows = views[c] /\ Gets(c, e)
        /\ \A d \in Browsers \ {c} : Still(d)
    BY <2>1, <2>2, SendGets
  <2> QED
    BY <1>4, <2>3 DEF SnapshotOf
<1>5. ASSUME NEW c \in Browsers, Deliver(c)
      PROVE  Still(b) \/ (Takes(b) /\ Joined(b))
  BY <1>5, DeliverTakes
<1>6. ASSUME NEW c \in Browsers, c # b, Connect(c) \/ Drop(c) PROVE Still(b)
  BY <1>6 DEF Connect, Drop, Still, ServerTypeOK, BrowserTypeOK
<1>7. \/ UNCHANGED <<wire, known, lastSeq, seq>>
      \/ \E t \in Tasks : Broadcast(t)
      \/ \E c \in Browsers : \/ SendSnapshot(c) \/ SendTimers(c) \/ Heartbeat(c)
                             \/ Deliver(c) \/ Connect(c) \/ Drop(c)
  BY DEF Next, Write, BeginCreate, BeginClimb, BeginClose, Begin, Commit, Publish, WriterDies,
     RedisFails, RedisReturns, Supervise, Probe, Subscribe, Receive, SubscriberEnds, Poll,
     WindowEnds, Drained, PollHangs, ReceiveFails, PollFails, Serve, QuerySnapshot, ReadTimers, vars, server, browser
<1> QED
  BY <1>1, <1>2, <1>3, <1>4, <1>5, <1>6, <1>7 DEF Origin

\* What an appended envelope leaves.
LEMMA GetsFacts ==
  ASSUME BrowserTypeOK, NEW b \in Browsers, NEW e \in Envelopes, Gets(b, e)
  PROVE  /\ Len(wire[b]) \in Nat /\ Len(wire'[b]) = Len(wire[b]) + 1
         /\ DOMAIN wire[b] = 1..Len(wire[b]) /\ DOMAIN wire'[b] = 1..(Len(wire[b]) + 1)
         /\ \A n \in DOMAIN wire[b] : wire'[b][n] = wire[b][n] /\ wire[b][n] \in Envelopes
         /\ wire'[b][Len(wire[b]) + 1] = e
<1>1. wire[b] \in Seq(Envelopes)
  BY DEF BrowserTypeOK
<1>2. PICK q : q = Append(wire[b], e)
  OBVIOUS
<1>3. /\ Len(wire[b]) \in Nat /\ DOMAIN wire[b] = 1..Len(wire[b])
      /\ DOMAIN q = 1..(Len(wire[b]) + 1) /\ Len(q) = Len(wire[b]) + 1
      /\ \A n \in 1..Len(wire[b]) : q[n] = wire[b][n]
      /\ q[Len(wire[b]) + 1] = e
  BY <1>1, <1>2, AppendFacts
<1>4. \A n \in 1..Len(wire[b]) : wire[b][n] \in Envelopes
  BY <1>1, ElementOfSeq
<1> QED
  BY <1>2, <1>3, <1>4 DEF Gets

\* What a delivered envelope leaves.
LEMMA TakesFacts ==
  ASSUME BrowserTypeOK, NEW b \in Browsers, Takes(b)
  PROVE  /\ Len(wire[b]) \in Nat \ {0} /\ Len(wire'[b]) = Len(wire[b]) - 1
         /\ DOMAIN wire[b] = 1..Len(wire[b]) /\ DOMAIN wire'[b] = 1..(Len(wire[b]) - 1)
         /\ \A n \in DOMAIN wire[b] : wire[b][n] \in Envelopes
         /\ \A n \in DOMAIN wire'[b] : n + 1 \in DOMAIN wire[b] /\ wire'[b][n] = wire[b][n + 1]
<1>1. wire[b] \in Seq(Envelopes) /\ wire[b] # <<>>
  BY DEF BrowserTypeOK, Takes
<1>2. PICK q : q = Tail(wire[b])
  OBVIOUS
<1>3. /\ Len(q) = Len(wire[b]) - 1 /\ Len(wire[b]) \in Nat \ {0}
      /\ DOMAIN wire[b] = 1..Len(wire[b]) /\ DOMAIN q = 1..(Len(wire[b]) - 1)
      /\ \A n \in DOMAIN q : n + 1 \in DOMAIN wire[b] /\ q[n] = wire[b][n + 1]
  BY <1>1, <1>2, TailFacts
<1>4. \A n \in 1..Len(wire[b]) : wire[b][n] \in Envelopes
  BY <1>1, ElementOfSeq
<1> QED
  BY <1>2, <1>3, <1>4 DEF Takes

\* An established connection stays joined but for a drop.
LEMMA LinksMove ==
  ASSUME ServerTypeOK, [Next]_vars, NEW b \in Browsers
  PROVE  \/ Connect(b) \/ Drop(b)
         \/ link'[b] = link[b]
         \/ link[b] = "joined" /\ QuerySnapshot(b) /\ link'[b] = "queried"
         \/ link[b] = "queried" /\ SendSnapshot(b) /\ link'[b] = "live"
<1>1. CASE UNCHANGED link
  BY <1>1
<1>2. ASSUME NEW c \in Browsers, Connect(c) \/ Drop(c)
      PROVE  Connect(b) \/ Drop(b) \/ link'[b] = link[b]
  BY <1>2 DEF Connect, Drop, ServerTypeOK
<1>3. ASSUME NEW c \in Browsers, QuerySnapshot(c)
      PROVE  \/ link'[b] = link[b]
             \/ link[b] = "joined" /\ QuerySnapshot(b) /\ link'[b] = "queried"
  BY <1>3 DEF QuerySnapshot, ServerTypeOK
<1>4. ASSUME NEW c \in Browsers, SendSnapshot(c)
      PROVE  \/ link'[b] = link[b]
             \/ link[b] = "queried" /\ SendSnapshot(b) /\ link'[b] = "live"
  BY <1>4 DEF SendSnapshot, ServerTypeOK
<1>5. \/ UNCHANGED link
      \/ \E c \in Browsers : Connect(c) \/ Drop(c) \/ QuerySnapshot(c) \/ SendSnapshot(c)
  BY DEF Next, Write, BeginCreate, BeginClimb, BeginClose, Begin, Commit, Publish, WriterDies,
     RedisFails, RedisReturns, Supervise, Probe, Subscribe, Receive, SubscriberEnds, Poll,
     WindowEnds, Drained, PollHangs, ReceiveFails, PollFails, Broadcast, Serve, SendTimers, Heartbeat, ReadTimers, Deliver,
     vars, server
<1> QED
  BY <1>1, <1>2, <1>3, <1>4, <1>5

-----------------------------------------------------------------------------
LEMMA NumbersStep ==
  ASSUME TypeOK, ConnectionsAreTidy, NumbersRunOn, [Next]_vars
  PROVE  NumbersRunOn'
<1> USE DEF TypeOK
<1> SUFFICES ASSUME NEW b \in Browsers, Joined(b)'
             PROVE  /\ lastSeq'[b] + Len(wire'[b]) = seq'[b]
                    /\ \A n \in DOMAIN wire'[b] : wire'[b][n].seq = lastSeq'[b] + n
  BY DEF NumbersRunOn
<1>1. /\ lastSeq[b] \in Nat /\ seq[b] \in Nat
      /\ Joined(b) => /\ lastSeq[b] + Len(wire[b]) = seq[b]
                      /\ \A n \in DOMAIN wire[b] : wire[b][n].seq = lastSeq[b] + n
  BY DEF NumbersRunOn, ServerTypeOK, BrowserTypeOK
<1>2. CASE Connect(b)
  <2>1. wire'[b] = <<>> /\ lastSeq'[b] = 0 /\ seq'[b] = 0
    BY <1>2 DEF Connect, ConnectionsAreTidy, ServerTypeOK, BrowserTypeOK
  <2> QED
    BY <2>1, EmptyFacts
<1>3. CASE Drop(b)
  BY <1>3 DEF Drop, Joined, ServerTypeOK
<1>4. CASE ~Connect(b) /\ ~Drop(b)
  <2>1. Joined(b)
    BY <1>4, LinksMove DEF Joined
  <2>2. CASE Still(b)
    BY <1>1, <2>1, <2>2 DEF Still
  <2>3. ASSUME NEW e \in Envelopes, Gets(b, e)
        PROVE  /\ lastSeq'[b] + Len(wire'[b]) = seq'[b]
               /\ \A n \in DOMAIN wire'[b] : wire'[b][n].seq = lastSeq'[b] + n
    <3>1. e.seq = seq[b] + 1 /\ seq'[b] = seq[b] + 1 /\ lastSeq'[b] = lastSeq[b]
      BY <2>3 DEF Gets
    <3>2. /\ Len(wire[b]) \in Nat /\ Len(wire'[b]) = Len(wire[b]) + 1
          /\ DOMAIN wire[b] = 1..Len(wire[b]) /\ DOMAIN wire'[b] = 1..(Len(wire[b]) + 1)
          /\ \A n \in DOMAIN wire[b] : wire'[b][n] = wire[b][n]
          /\ wire'[b][Len(wire[b]) + 1] = e
      BY <2>3, GetsFacts
    <3>3. lastSeq'[b] + Len(wire'[b]) = seq'[b]
      <4>1. PICK len \in Nat : len = Len(wire[b])
        BY <3>2
      <4>2. lastSeq[b] + len = seq[b]
        BY <1>1, <2>1, <4>1
      <4>3. Len(wire'[b]) = len + 1
        BY <3>2, <4>1
      <4>4. PICK last \in Nat : last = lastSeq[b]
        BY <1>1
      <4>5. lastSeq'[b] = last /\ seq'[b] = (last + len) + 1
        BY <3>1, <4>2, <4>4
      <4>6. last + (len + 1) = (last + len) + 1
        OBVIOUS
      <4> QED
        BY <4>3, <4>5, <4>6
    <3>4. ASSUME NEW n \in DOMAIN wire'[b] PROVE wire'[b][n].seq = lastSeq'[b] + n
      <4>1. CASE n = Len(wire[b]) + 1
        <5>1. wire'[b][n] = e
          BY <3>2, <4>1
        <5>2. wire'[b][n].seq = seq[b] + 1
          BY <3>1, <5>1
        <5>3. seq[b] + 1 = lastSeq[b] + n
          <6>1. PICK len \in Nat : len = Len(wire[b])
            BY <3>2
          <6>2. lastSeq[b] + len = seq[b] /\ n = len + 1
            BY <1>1, <2>1, <4>1, <6>1
          <6> QED
            BY <1>1, <6>2
        <5> QED
          BY <3>1, <5>2, <5>3
      <4>2. CASE n # Len(wire[b]) + 1
        <5>1. n \in DOMAIN wire[b]
          BY <3>2, <4>2
        <5> QED
          BY <1>1, <2>1, <3>1, <3>2, <5>1
      <4> QED
        BY <4>1, <4>2
    <3> QED
      BY <3>3, <3>4
  <2>4. CASE Takes(b)
    <3>1. /\ Len(wire[b]) \in Nat \ {0} /\ Len(wire'[b]) = Len(wire[b]) - 1
          /\ DOMAIN wire[b] = 1..Len(wire[b]) /\ DOMAIN wire'[b] = 1..(Len(wire[b]) - 1)
          /\ \A n \in DOMAIN wire'[b] : n + 1 \in DOMAIN wire[b] /\ wire'[b][n] = wire[b][n + 1]
      BY <2>4, TakesFacts
    <3>2. lastSeq'[b] = lastSeq[b] + 1 /\ seq'[b] = seq[b]
      BY <1>1, <2>1, <2>4, <3>1 DEF Takes
    <3>3. ASSUME NEW n \in DOMAIN wire'[b] PROVE wire'[b][n].seq = lastSeq'[b] + n
      <4>1. n \in Nat /\ n + 1 \in DOMAIN wire[b] /\ wire'[b][n] = wire[b][n + 1]
        BY <3>1
      <4>2. wire[b][n + 1].seq = lastSeq[b] + (n + 1)
        BY <1>1, <2>1, <4>1
      <4> QED
        BY <1>1, <3>2, <4>1, <4>2
    <3>4. lastSeq'[b] + Len(wire'[b]) = seq'[b]
      <4>1. PICK len \in Nat : len = Len(wire[b])
        BY <3>1
      <4>2. lastSeq[b] + len = seq[b]
        BY <1>1, <2>1, <4>1
      <4>3. Len(wire'[b]) = len - 1
        BY <3>1, <4>1
      <4> QED
        BY <1>1, <3>2, <4>2, <4>3
    <3> QED
      BY <3>3, <3>4
  <2> QED
    BY <1>4, <2>2, <2>3, <2>4, ConnectionStep
<1> QED
  BY <1>2, <1>3, <1>4

LEMMA ToldFacts ==
  ASSUME BrowserTypeOK, NEW b \in Browsers
  PROVE  Told(b) \in SUBSET Incidents
<1>1. DOMAIN known[b] \in SUBSET Incidents
  BY RowMapFacts DEF BrowserTypeOK
<1>2. ASSUME NEW n \in DOMAIN wire[b] PROVE DOMAIN wire[b][n].rows \in SUBSET Incidents
  <2>1. wire[b] \in Seq(Envelopes)
    BY DEF BrowserTypeOK
  <2>2. wire[b][n] \in Envelopes
    BY <2>1, LenProperties, ElementOfSeq
  <2>3. wire[b][n].rows \in RowMaps
    BY <2>2 DEF Envelopes
  <2> QED
    BY <2>3, RowMapFacts
<1> QED
  BY <1>1, <1>2 DEF Told

\* Incidents of changes.
LEMMA UnheardType ==
  ASSUME NEW changes \in SUBSET Changes
  PROVE  Unheard(changes) \subseteq Incidents
BY DEF Unheard, Changes

LEMMA UnheardFacts ==
  ASSUME NEW changes
  PROVE  \A i : i \in Unheard(changes) <=> \E c \in changes : c.kind = "created" /\ c.inc = i
BY DEF Unheard

LEMMA InboxChanges ==
  ASSUME FeedTypeOK
  PROVE  {inbox[n] : n \in DOMAIN inbox} \in SUBSET Changes
<1>1. inbox \in Seq(Changes)
  BY DEF FeedTypeOK
<1>2. \A n \in DOMAIN inbox : inbox[n] \in Changes
  BY <1>1, LenProperties, ElementOfSeq
<1> QED
  BY <1>2

LEMMA LostStep ==
  ASSUME TypeOK, [Next]_vars
  PROVE  lost' \subseteq Incidents /\ lost \subseteq lost'
<1> USE DEF TypeOK
<1>1. ASSUME NEW a \in announce PROVE Unheard({a}) \subseteq Incidents
  BY <1>1, UnheardType DEF FeedTypeOK
<1>2. Unheard({inbox[n] : n \in DOMAIN inbox}) \subseteq Incidents
  BY InboxChanges, UnheardType
<1>3. CASE UNCHANGED lost
  BY <1>3
<1>4. ASSUME NEW a \in announce, Publish(a) \/ WriterDies(a)
      PROVE  lost' \subseteq Incidents /\ lost \subseteq lost'
  <2>1. lost' = lost \/ lost' = lost \cup Unheard({a})
    BY <1>4 DEF Publish, WriterDies
  <2> QED
    BY <1>1, <2>1
<1>5. CASE SubscriberEnds
  BY <1>2, <1>5 DEF SubscriberEnds
<1>6. UNCHANGED lost \/ (\E a \in announce : Publish(a) \/ WriterDies(a)) \/ SubscriberEnds
  BY DEF Next, Write, BeginCreate, BeginClimb, BeginClose, Begin, Commit, RedisFails, RedisReturns,
     Supervise, Probe, Subscribe, Receive, Poll, WindowEnds, Drained, PollHangs, ReceiveFails, PollFails, Broadcast, Connect,
     Serve, QuerySnapshot, SendSnapshot, SendTimers, Heartbeat, ReadTimers, Drop, Deliver, vars,
     history
<1> QED
  BY <1>3, <1>4, <1>5, <1>6

LEMMA FailedStep ==
  ASSUME TypeOK, [Next]_vars
  PROVE  /\ failed' \subseteq [inc : Incidents, kind : {"created", "tier_advanced", "updated"}]
         /\ failed \subseteq failed'
<1> USE DEF TypeOK
<1>1. CASE UNCHANGED failed
  BY <1>1
<1>2. CASE ReceiveFails
  BY <1>2, ReceiveFailsFacts DEF Changes
<1>3. CASE PollFails
  <2>1. \A k \in DOMAIN hand["poll"] : hand["poll"][k].inc \in Incidents
    BY ItemFacts, TaskFacts
  <2> QED
    BY <1>3, <2>1 DEF PollFails
<1>4. UNCHANGED failed \/ ReceiveFails \/ PollFails
  BY DEF Next, Write, BeginCreate, BeginClimb, BeginClose, Begin, Commit, Publish, WriterDies,
     RedisFails, RedisReturns, Supervise, Probe, Subscribe, Receive, SubscriberEnds, Poll,
     WindowEnds, Drained, PollHangs, Broadcast, Connect, Serve, QuerySnapshot, SendSnapshot,
     SendTimers, Heartbeat, ReadTimers, Drop, Deliver, vars, history
<1> QED
  BY <1>1, <1>2, <1>3, <1>4

LEMMA ConnectionsKeepTypes ==
  ASSUME TypeOK, ConnectionsAreTidy, NumbersRunOn, [Next]_vars
  PROVE  ConnTypeOK' /\ raced' \in [Browsers -> SUBSET Incidents] /\ upsets' \in 0..MaxUpsets
<1> USE DEF TypeOK, ConnTypeOK
<1>1. CASE UNCHANGED <<server, browser, raced>> /\ upsets' \in {upsets, upsets + 1}
           /\ (upsets' = upsets \/ upsets < MaxUpsets)
  BY <1>1 DEF server, browser, ServerTypeOK, BrowserTypeOK
<1>2. ASSUME NEW t \in Tasks, Broadcast(t) PROVE ConnTypeOK' /\ UNCHANGED <<raced, upsets>>
  <2>1. seq' \in [Browsers -> Nat] /\ wire' \in [Browsers -> Seq(Envelopes)]
    BY <1>2, BroadcastGets
  <2>2. UNCHANGED <<link, views, beat, known, lastSeq, raced, upsets>>
    BY <1>2 DEF Broadcast, history
  <2> QED
    BY <2>1, <2>2 DEF ServerTypeOK, BrowserTypeOK
<1>3. ASSUME NEW c \in Browsers, SendSnapshot(c) \/ SendTimers(c) \/ Heartbeat(c)
      PROVE  ConnTypeOK' /\ raced' \in [Browsers -> SUBSET Incidents] /\ upsets' \in 0..MaxUpsets
  <2>1. Joined(c)
    BY <1>3 DEF SendSnapshot, SendTimers, Heartbeat, ConnectionsAreTidy, Joined
  <2>2. views[c] \in RowMaps /\ Empty \in RowMaps /\ "snapshot" \in Types /\ "timer" \in Types
        /\ "heartbeat" \in Types
    BY EmptyMap DEF ServerTypeOK, Types, Showing
  <2>3. UNCHANGED <<known, lastSeq>>
    BY <1>3 DEF SendSnapshot, SendTimers, Heartbeat
  <2>4. PICK type \in Types, rows \in RowMaps : Send(c, type, rows)
    BY <1>3, <2>2 DEF SendSnapshot, SendTimers, Heartbeat
  <2>5. seq' \in [Browsers -> Nat] /\ wire' \in [Browsers -> Seq(Envelopes)]
    BY <2>1, <2>3, <2>4, SendGets
  <2>6. /\ link' \in [Browsers -> {"off", "joined", "queried", "live"}]
        /\ views' \in [Browsers -> RowMaps] /\ beat' \in [Browsers -> {"none", "read"}]
    BY <1>3, <2>2 DEF SendSnapshot, SendTimers, Heartbeat, ServerTypeOK
  <2>7. raced' \in [Browsers -> SUBSET Incidents]
    <3>1. Told(c) \ DOMAIN views[c] \in SUBSET Incidents
      BY ToldFacts
    <3> QED
      BY <1>3, <3>1 DEF SendSnapshot, SendTimers, Heartbeat, history
  <2>8. upsets' \in 0..MaxUpsets
    BY <1>3 DEF SendSnapshot, SendTimers, Heartbeat
  <2> QED
    BY <2>3, <2>5, <2>6, <2>7, <2>8 DEF ServerTypeOK, BrowserTypeOK
<1>4. ASSUME NEW c \in Browsers, Deliver(c) PROVE ConnTypeOK' /\ UNCHANGED <<raced, upsets>>
  <2>1. /\ wire' \in [Browsers -> Seq(Envelopes)] /\ known' \in [Browsers -> RowMaps]
        /\ lastSeq' \in [Browsers -> Nat]
    BY <1>4, DeliverTakes
  <2> QED
    BY <1>4, <2>1 DEF Deliver, server, history, ServerTypeOK, BrowserTypeOK
<1>5. ASSUME NEW c \in Browsers, Connect(c)
      PROVE  ConnTypeOK' /\ raced' \in [Browsers -> SUBSET Incidents] /\ upsets' = upsets
  BY <1>5, EmptyMap DEF Connect, ServerTypeOK, BrowserTypeOK
<1>6. ASSUME NEW c \in Browsers, Drop(c)
      PROVE  ConnTypeOK' /\ UNCHANGED raced /\ upsets' \in 0..MaxUpsets
  <2>1. <<>> \in Seq(Envelopes)
    BY EmptyFacts
  <2> QED
    BY <1>6, <2>1, EmptyMap DEF Drop, ServerTypeOK, BrowserTypeOK, history
<1>7. ASSUME NEW c \in Browsers, QuerySnapshot(c) \/ ReadTimers(c)
      PROVE  ConnTypeOK' /\ UNCHANGED raced /\ upsets' \in 0..MaxUpsets
  <2>1. ActiveViews \in RowMaps
    BY ActiveViewsFacts
  <2>2. /\ link' \in [Browsers -> {"off", "joined", "queried", "live"}]
        /\ views' \in [Browsers -> RowMaps] /\ beat' \in [Browsers -> {"none", "read"}]
        /\ UNCHANGED <<seq, wire, known, lastSeq, raced>> /\ upsets' \in 0..MaxUpsets
    BY <1>7, <2>1 DEF QuerySnapshot, ReadTimers, ServerTypeOK, history, browser
  <2> QED
    BY <2>2 DEF ServerTypeOK, BrowserTypeOK
<1>8. \/ /\ UNCHANGED <<server, browser, raced>> /\ upsets' \in {upsets, upsets + 1}
         /\ (upsets' = upsets \/ upsets < MaxUpsets)
      \/ \E t \in Tasks : Broadcast(t)
      \/ \E c \in Browsers : \/ SendSnapshot(c) \/ SendTimers(c) \/ Heartbeat(c)
                             \/ Deliver(c) \/ Connect(c) \/ Drop(c)
                             \/ QuerySnapshot(c) \/ ReadTimers(c)
  BY DEF Next, Write, BeginCreate, BeginClimb, BeginClose, Begin, Commit, Publish, WriterDies,
     RedisFails, RedisReturns, Supervise, Probe, Subscribe, Receive, SubscriberEnds, Poll,
     WindowEnds, Drained, PollHangs, ReceiveFails, PollFails, Serve, vars, history
<1> QED
  BY <1>1, <1>2, <1>3, <1>4, <1>5, <1>6, <1>7, <1>8

LEMMA TypesStep ==
  ASSUME TypeOK, RowsAreOnRungs, VersionsAreCounted, ConnectionsAreTidy, NumbersRunOn, [Next]_vars
  PROVE  TypeOK'
<1>1. DbInv
  BY DEF DbInv, TypeOK
<1>2. DbTypeOK' /\ FeedTypeOK'
  BY <1>1, DbStep, FeedKeepsTypes DEF DbInv, TypeOK
<1>3. ConnTypeOK' /\ raced' \in [Browsers -> SUBSET Incidents] /\ upsets' \in 0..MaxUpsets
  BY ConnectionsKeepTypes
<1>4. /\ lost' \subseteq Incidents
      /\ failed' \subseteq [inc : Incidents, kind : {"created", "tier_advanced", "updated"}]
  BY LostStep, FailedStep
<1> QED
  BY <1>2, <1>3, <1>4 DEF TypeOK, ConnTypeOK

\* A beat is read on a live connection only, and a drop forgets it.
LEMMA BeatsMove ==
  ASSUME ServerTypeOK, [Next]_vars, NEW b \in Browsers, beat'[b] = "read"
  PROVE  ReadTimers(b) \/ (beat[b] = "read" /\ ~Drop(b))
<1>1. CASE UNCHANGED <<beat, link>>
  BY <1>1 DEF Drop, Connect, ServerTypeOK
<1>2. ASSUME NEW c \in Browsers,
             Connect(c) \/ Drop(c) \/ QuerySnapshot(c) \/ SendSnapshot(c) \/ SendTimers(c) \/ ReadTimers(c)
      PROVE  ReadTimers(b) \/ (beat[b] = "read" /\ ~Drop(b))
  BY <1>2 DEF Connect, Drop, QuerySnapshot, SendSnapshot, SendTimers, ReadTimers, ServerTypeOK
<1>3. \/ UNCHANGED <<beat, link>>
      \/ \E c \in Browsers :
           Connect(c) \/ Drop(c) \/ QuerySnapshot(c) \/ SendSnapshot(c) \/ SendTimers(c) \/ ReadTimers(c)
  BY DEF Next, Write, BeginCreate, BeginClimb, BeginClose, Begin, Commit, Publish, WriterDies,
     RedisFails, RedisReturns, Supervise, Probe, Subscribe, Receive, SubscriberEnds, Poll,
     WindowEnds, Drained, PollHangs, ReceiveFails, PollFails, Broadcast, Serve, Heartbeat, Deliver, vars, server
<1> QED
  BY <1>1, <1>2, <1>3

LEMMA TidyStep ==
  ASSUME TypeOK, ConnectionsAreTidy, NumbersRunOn, [Next]_vars
  PROVE  ConnectionsAreTidy'
<1> USE DEF TypeOK
<1> SUFFICES ASSUME NEW b \in Browsers
             PROVE  /\ link'[b] = "off" => wire'[b] = <<>>
                    /\ beat'[b] = "read" => link'[b] = "live"
                    /\ link'[b] # "live" => \A n \in DOMAIN wire'[b] : wire'[b][n].type # "snapshot"
  BY DEF ConnectionsAreTidy
<1>1. /\ link[b] = "off" => wire[b] = <<>>
      /\ beat[b] = "read" => link[b] = "live"
      /\ link[b] # "live" => \A n \in DOMAIN wire[b] : wire[b][n].type # "snapshot"
  BY DEF ConnectionsAreTidy
<1>2. CASE Drop(b)
  <2>1. link'[b] = "off" /\ wire'[b] = <<>> /\ beat'[b] = "none"
    BY <1>2 DEF Drop, ServerTypeOK, BrowserTypeOK
  <2> QED
    BY <2>1, EmptyFacts
<1>3. CASE Connect(b)
  <2>1. link[b] = "off" /\ link'[b] = "joined" /\ wire'[b] = wire[b] /\ beat'[b] = beat[b]
    BY <1>3 DEF Connect, ServerTypeOK
  <2> QED
    BY <1>1, <2>1, EmptyFacts
<1>4. CASE ~Drop(b) /\ ~Connect(b)
  <2>1. link'[b] = "off" => link[b] = "off"
    BY <1>4, LinksMove
  <2>2. link[b] = "live" => link'[b] = "live"
    BY <1>4, LinksMove
  <2>3. link'[b] = "off" => wire'[b] = <<>>
    BY <1>1, <1>4, <2>1, ConnectionStep DEF Still, Gets, Takes, Joined
  <2>4. beat'[b] = "read" => link'[b] = "live"
    <3>1. ReadTimers(b) => link'[b] = "live"
      BY DEF ReadTimers, ServerTypeOK
    <3> QED
      BY <1>1, <1>4, <2>2, <3>1, BeatsMove
  <2>5. ASSUME link'[b] # "live", NEW n \in DOMAIN wire'[b] PROVE wire'[b][n].type # "snapshot"
    <3>1. \A m \in DOMAIN wire[b] : wire[b][m].type # "snapshot"
      BY <1>1, <2>2, <2>5
    <3>2. CASE Still(b)
      BY <2>5, <3>1, <3>2 DEF Still
    <3>3. CASE Takes(b)
      <4>1. \A m \in DOMAIN wire'[b] : m + 1 \in DOMAIN wire[b] /\ wire'[b][m] = wire[b][m + 1]
        BY <3>3, TakesFacts
      <4> QED
        BY <2>5, <3>1, <4>1
    <3>4. ASSUME NEW e \in Envelopes, Gets(b, e), Origin(b, e) PROVE wire'[b][n].type # "snapshot"
      <4>1. /\ Len(wire[b]) \in Nat
            /\ DOMAIN wire[b] = 1..Len(wire[b]) /\ DOMAIN wire'[b] = 1..(Len(wire[b]) + 1)
            /\ \A m \in DOMAIN wire[b] : wire'[b][m] = wire[b][m]
            /\ wire'[b][Len(wire[b]) + 1] = e
        BY <3>4, GetsFacts
      <4>2. e.type # "snapshot"
        <5>1. CASE SnapshotOf(b, e)
          BY <2>5, <5>1 DEF SnapshotOf, SendSnapshot, ServerTypeOK
        <5>2. CASE e.type \in {"timer", "heartbeat"}
          BY <5>2
        <5>3. ASSUME NEW t \in Tasks, ChangeOf(t, e) PROVE e.type # "snapshot"
          BY <5>3, ItemFacts DEF ChangeOf
        <5> QED
          BY <3>4, <5>1, <5>2, <5>3 DEF Origin
      <4>3. n \in DOMAIN wire[b] \/ n = Len(wire[b]) + 1
        BY <2>5, <4>1
      <4> QED
        BY <3>1, <4>1, <4>2, <4>3
    <3> QED
      BY <1>4, <3>2, <3>3, <3>4, ConnectionStep
  <2> QED
    BY <2>3, <2>4, <2>5
<1> QED
  BY <1>2, <1>3, <1>4

-----------------------------------------------------------------------------
(***************************************************************************)
(* What is broadcast follows the commits of a row.                         *)
(***************************************************************************)
\* Incident i is at version q or past it, in the table and in the rows in hand.
Reached(q, i) ==
  /\ q <= row[i].version
  /\ \A t \in Tasks : \A k \in DOMAIN hand[t] :
       hand[t][k].inc = i => q <= hand[t][k].row.version

\* A row in hand was there before, or is the row of the table.
LEMMA HandComesFrom ==
  ASSUME DbInv, FeedTypeOK, [Next]_vars, NEW t \in Tasks, NEW k \in DOMAIN hand'[t]
  PROVE  \/ \E m \in DOMAIN hand[t] : hand'[t][k] = hand[t][m]
         \/ hand'[t][k].row = row[hand'[t][k].inc]
<1>1. CASE hand'[t] = hand[t]
  BY <1>1
<1>2. CASE Receive
  <2>1. PICK item \in Items : /\ item.inc \in Incidents /\ item.row = row[item.inc]
                              /\ hand' = [hand EXCEPT !["push"] = <<item>>]
    BY <1>2, ReceiveFacts DEF DbInv
  <2>2. PICK page : page = <<item>> /\ DOMAIN page = {1} /\ page[1] = item
    BY SingleFacts
  <2>3. hand'["push"] = page /\ hand'["poll"] = hand["poll"]
    BY <2>1, <2>2, TaskFacts DEF FeedTypeOK
  <2> QED
    BY <2>1, <2>2, <2>3, TaskFacts
<1>3. CASE Poll
  <2>1. PICK page \in Seq(Items) :
          /\ hand' = [hand EXCEPT !["poll"] = page]
          /\ \A n \in DOMAIN page : page[n].row = row[page[n].inc]
    BY <1>3, PollFacts DEF DbInv
  <2>2. hand'["poll"] = page /\ hand'["push"] = hand["push"]
    BY <2>1, TaskFacts DEF FeedTypeOK
  <2> QED
    BY <2>1, <2>2, TaskFacts
<1>4. CASE PollFails \/ PollHangs
  <2>1. hand'["poll"] = <<>> /\ hand'["push"] = hand["push"]
    BY <1>4, PollEnds
  <2> QED
    BY <2>1, EmptyFacts, TaskFacts
<1>5. ASSUME NEW r \in Tasks, Broadcast(r)
      PROVE  \E m \in DOMAIN hand[t] : hand'[t][k] = hand[t][m]
  <2>1. hand[r] # <<>> /\ hand' = [hand EXCEPT ![r] = Tail(hand[r])]
    BY <1>5 DEF Broadcast
  <2>2. /\ \A n \in DOMAIN hand'[r] : n + 1 \in DOMAIN hand[r] /\ hand'[r][n] = hand[r][n + 1]
        /\ \A u \in Tasks \ {r} : hand'[u] = hand[u]
    BY <2>1, HandShrinks
  <2> QED
    BY <2>2
<1>6. \/ UNCHANGED hand \/ Receive \/ Poll \/ PollFails \/ PollHangs
      \/ \E r \in Tasks : Broadcast(r)
  BY FeedActions DEF feed, Commit, Publish, WriterDies, RedisFails, RedisReturns, Supervise, Probe,
     Subscribe, SubscriberEnds, WindowEnds, Drained, ReceiveFails
<1> QED
  BY <1>1, <1>2, <1>3, <1>4, <1>5, <1>6

LEMMA ReachedStays ==
  ASSUME DbInv, FeedTypeOK, [Next]_vars, NEW q \in Nat, NEW i \in Incidents, Reached(q, i)
  PROVE  Reached(q, i)'
<1>1. /\ row[i] \in Rows /\ row'[i] \in Rows
      /\ row[i].version \in Nat /\ row'[i].version \in Nat
      /\ row[i].version <= row'[i].version
  BY DbStep, RowFacts DEF DbInv, DbTypeOK
<1>2. q <= row'[i].version
  BY <1>1 DEF Reached
<1>3. ASSUME NEW t \in Tasks, NEW k \in DOMAIN hand'[t], hand'[t][k].inc = i
      PROVE  q <= hand'[t][k].row.version
  <2>1. CASE hand'[t][k].row = row[i]
    BY <2>1 DEF Reached
  <2>2. ASSUME NEW m \in DOMAIN hand[t], hand'[t][k] = hand[t][m]
        PROVE  q <= hand'[t][k].row.version
    BY <1>3, <2>2 DEF Reached
  <2> QED
    BY <1>3, <2>1, <2>2, HandComesFrom
<1> QED
  BY <1>2, <1>3 DEF Reached

\* The item that is being sent is the last of its incident in hand.
LEMMA SentIsReached ==
  ASSUME TypeOK, OneTaskReads, NEW t \in Tasks, NEW e, ChangeOf(t, e)
  PROVE  /\ hand[t][1].inc \in Incidents /\ hand[t][1].row.version \in Nat
         /\ \A q, i : q = hand[t][1].row.version /\ i = hand[t][1].inc => Reached(q, i)'
<1>1. Broadcast(t) /\ 1 \in DOMAIN hand[t] /\ hand[t] # <<>> /\ row' = row
      /\ hand' = [hand EXCEPT ![t] = Tail(hand[t])]
  BY DEF ChangeOf, Broadcast, db
<1>2. FeedTypeOK
  BY DEF TypeOK
<1>3. PICK item \in Items : item = hand[t][1]
  BY <1>1, <1>2, ItemFacts
<1>4. item.inc \in Incidents /\ item.row \in Rows /\ item.row.version \in Nat
  BY RowFacts DEF Items
<1>5. /\ \A n \in DOMAIN hand'[t] : n + 1 \in DOMAIN hand[t] /\ hand'[t][n] = hand[t][n + 1]
                                    /\ n \in Nat
      /\ \A u \in Tasks \ {t} : hand'[u] = hand[u]
  BY <1>1, <1>2, HandShrinks
<1>6. item.row.version <= row'[item.inc].version
  BY <1>1, <1>3 DEF OneTaskReads
<1>7. ASSUME NEW u \in Tasks, NEW k \in DOMAIN hand'[u] PROVE hand'[u][k].inc # item.inc
  <2>1. CASE u = t
    <3>1. k \in Nat /\ k + 1 \in DOMAIN hand[t] /\ hand'[t][k] = hand[t][k + 1]
      BY <1>5, <1>7, <2>1
    <3>2. k + 1 # 1
      <4>1. DOMAIN hand'[t] = 1..Len(hand'[t])
        <5>1. hand'[t] \in Seq(Items)
          BY <1>1, <1>2, HandShrinks
        <5> QED
          BY <5>1, LenProperties
      <4> QED
        BY <1>7, <2>1, <4>1
    <3> QED
      BY <1>1, <1>3, <2>1, <3>1, <3>2 DEF OneTaskReads
  <2>2. CASE u # t
    <3>1. hand'[u] = hand[u]
      BY <1>5, <2>2
    <3>2. hand[u] # <<>>
      BY <1>2, <1>7, <3>1, ItemFacts
    <3> QED
      BY <1>1, <2>2, <3>2, TaskFacts DEF OneTaskReads
  <2> QED
    BY <2>1, <2>2
<1> QED
  BY <1>3, <1>4, <1>6, <1>7 DEF Reached

\* The versions of an incident on a wire.
Sent(b, n, i) == n \in Deltas(b) /\ i \in DOMAIN wire[b][n].rows

Version(b, n, i) == wire[b][n].rows[i].version

ForwardOn(b) ==
  \A n, i : Sent(b, n, i) =>
    /\ Reached(Version(b, n, i), i)
    /\ \A m : Sent(b, m, i) /\ m < n => Version(b, m, i) <= Version(b, n, i)

LEMMA ForwardIsNeverBack ==
  BroadcastsNeverGoBack <=> \A b \in Browsers : ForwardOn(b)
<1>1. ASSUME BroadcastsNeverGoBack, NEW b \in Browsers PROVE ForwardOn(b)
  BY <1>1 DEF BroadcastsNeverGoBack, ForwardOn, Sent, Version, Reached
<1>2. ASSUME \A b \in Browsers : ForwardOn(b) PROVE BroadcastsNeverGoBack
  BY <1>2 DEF BroadcastsNeverGoBack, ForwardOn, Sent, Version, Reached
<1> QED
  BY <1>1, <1>2

LEMMA SentFacts ==
  ASSUME BrowserTypeOK, NEW b \in Browsers, NEW n, NEW i, Sent(b, n, i)
  PROVE  n \in DOMAIN wire[b] /\ i \in Incidents /\ Version(b, n, i) \in Nat
<1>1. n \in DOMAIN wire[b] /\ wire[b] \in Seq(Envelopes)
  BY DEF Sent, Deltas, BrowserTypeOK
<1>2. PICK map \in RowMaps : map = wire[b][n].rows
  <2>1. wire[b][n] \in Envelopes
    BY <1>1, LenProperties, ElementOfSeq
  <2> QED
    BY <2>1 DEF Envelopes
<1>3. i \in Incidents /\ map[i] \in Rows
  BY <1>2, RowMapFacts DEF Sent
<1> QED
  BY <1>1, <1>2, <1>3, RowFacts DEF Version

\* An envelope that stays where it is, or moves up, says what it said.
LEMMA ForwardKeeps ==
  ASSUME TypeOK, DbInv, [Next]_vars, NEW b \in Browsers, ForwardOn(b),
         NEW n, NEW o, NEW i, Sent(b, o, i), wire'[b][n] = wire[b][o]
  PROVE  /\ Reached(Version(b, n, i), i)'
         /\ Version(b, n, i)' = Version(b, o, i)
<1>1. Version(b, o, i) \in Nat /\ i \in Incidents
  BY SentFacts DEF TypeOK
<1>2. Reached(Version(b, o, i), i)
  BY DEF ForwardOn
<1>3. PICK q \in Nat : q = Version(b, o, i)
  BY <1>1
<1>4. Reached(q, i)'
  BY <1>1, <1>2, <1>3, ReachedStays DEF TypeOK
<1>5. Version(b, n, i)' = q
  BY <1>3 DEF Version
<1> QED
  BY <1>3, <1>4, <1>5 DEF Reached

LEMMA ForwardStep ==
  ASSUME TypeOK, DbInv, ConnectionsAreTidy, NumbersRunOn, OneTaskReads, BroadcastsNeverGoBack,
         [Next]_vars
  PROVE  BroadcastsNeverGoBack'
<1>0. (BroadcastsNeverGoBack <=> \A b \in Browsers : ForwardOn(b))'
  BY ForwardIsNeverBack, PTL
<1> SUFFICES ASSUME NEW b \in Browsers PROVE ForwardOn(b)'
  BY <1>0
<1>1. ForwardOn(b)
  BY ForwardIsNeverBack
<1>2. CASE wire'[b] = <<>>
  <2>1. Deltas(b)' = {}
    BY <1>2, EmptyFacts DEF Deltas
  <2> QED
    BY <2>1 DEF ForwardOn, Sent
<1>3. CASE Still(b)
  <2>1. \A n, i : Sent(b, n, i)' <=> Sent(b, n, i)
    BY <1>3 DEF Still, Sent, Deltas
  <2>2. \A n : wire'[b][n] = wire[b][n]
    BY <1>3 DEF Still
  <2>3. \A n, i : Sent(b, n, i) => Reached(Version(b, n, i), i)' /\ Version(b, n, i)' = Version(b, n, i)
    BY <1>1, <2>2, ForwardKeeps
  <2> QED
    BY <1>1, <2>1, <2>3 DEF ForwardOn
<1>4. CASE Takes(b)
  <2>1. /\ Len(wire[b]) \in Nat \ {0} /\ DOMAIN wire'[b] = 1..(Len(wire[b]) - 1)
        /\ \A n \in DOMAIN wire'[b] : n + 1 \in DOMAIN wire[b] /\ wire'[b][n] = wire[b][n + 1]
    BY <1>4, TakesFacts DEF TypeOK
  <2>2. \A n, i : Sent(b, n, i)' =>
          n \in Nat /\ Sent(b, n + 1, i) /\ wire'[b][n] = wire[b][n + 1]
    BY <2>1 DEF Sent, Deltas
  <2>3. \A n, i : Sent(b, n, i)' =>
          Reached(Version(b, n, i), i)' /\ Version(b, n, i)' = Version(b, n + 1, i)
    BY <1>1, <2>2, ForwardKeeps
  <2>4. \A n, m \in Nat : m < n => m + 1 < n + 1
    OBVIOUS
  <2> QED
    BY <1>1, <2>2, <2>3, <2>4 DEF ForwardOn
<1>5. ASSUME NEW e \in Envelopes, Gets(b, e), Origin(b, e) PROVE ForwardOn(b)'
  <2> DEFINE last == Len(wire[b]) + 1
  <2>1. /\ Len(wire[b]) \in Nat
        /\ DOMAIN wire[b] = 1..Len(wire[b]) /\ DOMAIN wire'[b] = 1..last
        /\ \A n \in DOMAIN wire[b] : wire'[b][n] = wire[b][n]
        /\ wire'[b][last] = e
    BY <1>5, GetsFacts DEF TypeOK
  <2>2. /\ last \in Nat /\ last \notin DOMAIN wire[b]
        /\ \A n \in DOMAIN wire'[b] : n \in Nat /\ (n = last \/ n \in DOMAIN wire[b])
        /\ \A n \in DOMAIN wire[b] : n < last
    BY <2>1
  <2>3. PICK end \in Nat : end = last
    BY <2>2
  <2> HIDE DEF last
  <2>4. \A n, i : Sent(b, n, i)' /\ n # end => Sent(b, n, i) /\ wire'[b][n] = wire[b][n]
    BY <2>1, <2>2, <2>3 DEF Sent, Deltas
  <2>5. \A n, i : Sent(b, n, i)' /\ n # end =>
          Reached(Version(b, n, i), i)' /\ Version(b, n, i)' = Version(b, n, i)
    BY <1>1, <2>4, ForwardKeeps
  <2>6. \A n, i : Sent(b, n, i)' => n \in Nat /\ n <= end
    BY <2>1, <2>2, <2>3 DEF Sent, Deltas
  <2>7. ASSUME NEW i, Sent(b, end, i)'
        PROVE  /\ Reached(Version(b, end, i), i)'
               /\ \A m : Sent(b, m, i)' /\ m < end => Version(b, m, i)' <= Version(b, end, i)'
    <3>1. e.type \in {"created", "updated", "tier_advanced"} /\ i \in DOMAIN e.rows
      BY <2>1, <2>3, <2>7 DEF Sent, Deltas
    <3>2. PICK t \in Tasks : ChangeOf(t, e)
      BY <1>5, <3>1 DEF Origin, SnapshotOf
    <3>3. PICK item : item = hand[t][1]
      OBVIOUS
    <3>4. i = item.inc /\ e.rows[i] = item.row
      BY <3>1, <3>2, <3>3 DEF ChangeOf
    <3>5. i \in Incidents /\ item.row.version \in Nat
      BY <3>2, <3>3, <3>4, SentIsReached
    <3>6. PICK q \in Nat : q = item.row.version
      BY <3>5
    <3>7. Reached(q, i)'
      BY <3>2, <3>3, <3>4, <3>6, SentIsReached
    <3>8. Version(b, end, i)' = q
      BY <2>1, <2>3, <3>4, <3>6 DEF Version
    <3>9. Reached(Version(b, end, i), i)'
      BY <3>7, <3>8 DEF Reached
    <3>10. ASSUME NEW m, Sent(b, m, i)', m < end PROVE Version(b, m, i)' <= q
      <4>1. m # end
        BY <2>6, <3>10
      <4>2. Sent(b, m, i) /\ Version(b, m, i)' = Version(b, m, i)
        BY <2>4, <2>5, <3>10, <4>1
      <4>3. Reached(Version(b, m, i), i)
        BY <1>1, <4>2 DEF ForwardOn
      <4>4. 1 \in DOMAIN hand[t] /\ hand[t][1].inc = i
        BY <3>2, <3>3, <3>4 DEF ChangeOf
      <4> QED
        BY <3>3, <3>6, <4>2, <4>3, <4>4 DEF Reached
    <3> QED
      BY <3>8, <3>9, <3>10
  <2>8. ASSUME NEW n, NEW i, Sent(b, n, i)', n # end
        PROVE  /\ Reached(Version(b, n, i), i)'
               /\ \A m : Sent(b, m, i)' /\ m < n => Version(b, m, i)' <= Version(b, n, i)'
    <3>1. ASSUME NEW m, Sent(b, m, i)', m < n PROVE Version(b, m, i)' <= Version(b, n, i)'
      <4>1. m # end
        BY <2>6, <2>8, <3>1
      <4> QED
        BY <1>1, <2>4, <2>5, <2>8, <3>1, <4>1 DEF ForwardOn
    <3> QED
      BY <2>5, <2>8, <3>1
  <2> QED
    BY <2>7, <2>8 DEF ForwardOn
<1>6. CASE Connect(b) \/ Drop(b)
  <2>1. wire'[b] = <<>>
    BY <1>6 DEF Connect, Drop, ConnectionsAreTidy, TypeOK, BrowserTypeOK
  <2> QED
    BY <1>2, <2>1
<1> QED
  BY <1>3, <1>4, <1>5, <1>6, ConnectionStep

-----------------------------------------------------------------------------
(***************************************************************************)
(* What a screen has been told, and what a snapshot takes away.            *)
(***************************************************************************)
\* Envelope n of a wire shows incident i.
Shows(b, n, i) ==
  n \in DOMAIN wire[b] /\ wire[b][n].type \in Showing /\ i \in DOMAIN wire[b][n].rows

\* Told, envelope by envelope.
ToldMeans ==
  \A b, i : i \in Told(b) <=> i \in DOMAIN known[b] \/ \E n : Shows(b, n, i)

LEMMA ToldIs == ToldMeans
BY DEF ToldMeans, Told, Shows

LEMMA ShownFromIs ==
  ASSUME NEW b, NEW n, NEW i
  PROVE  i \in ShownFrom(b, n) <=> \E m : m >= n /\ Shows(b, m, i)
BY DEF ShownFrom, Shows

\* What the snapshots on the wire of b will take away, raced has.
Explained(b) ==
  \A n, i : n \in DOMAIN wire[b] /\ wire[b][n].type = "snapshot"
            /\ (i \in DOMAIN known[b] \/ \E m : Shows(b, m, i))
     => i \in raced[b] \/ \E m : m >= n /\ Shows(b, m, i)

LEMMA SnapshotsAreExplained ==
  SnapshotsAreMissing <=> \A b \in Browsers : Explained(b)
<1>1. ASSUME SnapshotsAreMissing, NEW b \in Browsers PROVE Explained(b)
  <2>1. ASSUME NEW n \in DOMAIN wire[b], wire[b][n].type = "snapshot", NEW i \in Told(b)
        PROVE  i \in raced[b] \/ i \in ShownFrom(b, n)
    BY <1>1, <2>1 DEF SnapshotsAreMissing
  <2> QED
    BY <2>1, ToldIs, ShownFromIs DEF Explained, ToldMeans
<1>2. ASSUME \A b \in Browsers : Explained(b) PROVE SnapshotsAreMissing
  <2>1. ASSUME NEW b \in Browsers, NEW n \in DOMAIN wire[b], wire[b][n].type = "snapshot",
               NEW i \in Told(b)
        PROVE  i \in raced[b] \/ i \in ShownFrom(b, n)
    BY <1>2, <2>1, ToldIs, ShownFromIs DEF Explained, ToldMeans
  <2> QED
    BY <2>1 DEF SnapshotsAreMissing
<1> QED
  BY <1>1, <1>2

LEMMA RacedMoves ==
  ASSUME TypeOK, [Next]_vars, NEW b \in Browsers
  PROVE  raced'[b] = raced[b] \/ Connect(b) \/ SendSnapshot(b)
<1>1. CASE UNCHANGED raced
  BY <1>1
<1>2. ASSUME NEW c \in Browsers, Connect(c) \/ SendSnapshot(c)
      PROVE  raced'[b] = raced[b] \/ Connect(b) \/ SendSnapshot(b)
  BY <1>2 DEF Connect, SendSnapshot, TypeOK
<1>3. UNCHANGED raced \/ \E c \in Browsers : Connect(c) \/ SendSnapshot(c)
  BY DEF Next, Write, BeginCreate, BeginClimb, BeginClose, Begin, Commit, Publish, WriterDies,
     RedisFails, RedisReturns, Supervise, Probe, Subscribe, Receive, SubscriberEnds, Poll,
     WindowEnds, Drained, PollHangs, ReceiveFails, PollFails, Broadcast, Serve, QuerySnapshot, SendTimers, Heartbeat,
     ReadTimers, Drop, Deliver, vars, history
<1> QED
  BY <1>1, <1>2, <1>3

\* A connection that gets nothing, or takes what it has, has its snapshot not sent.
LEMMA RacedStays ==
  ASSUME TypeOK, ConnectionsAreTidy, [Next]_vars, NEW b \in Browsers, Still(b) \/ Takes(b),
         wire'[b] # <<>> \/ link[b] # "off"
  PROVE  raced'[b] = raced[b] /\ ~SendSnapshot(b)
<1>1. seq'[b] = seq[b] /\ seq[b] \in Nat
  BY DEF Still, Takes, TypeOK, ServerTypeOK
<1>2. ~SendSnapshot(b)
  BY <1>1 DEF SendSnapshot, Send, Stamped, TypeOK, ServerTypeOK
<1>3. ~Connect(b)
  <2>1. SUFFICES ASSUME link[b] = "off" PROVE wire'[b] = <<>>
    BY DEF Connect
  <2>2. wire[b] = <<>>
    BY <2>1 DEF ConnectionsAreTidy
  <2> QED
    BY <2>2 DEF Still, Takes
<1> QED
  BY <1>2, <1>3, RacedMoves

\* What an envelope that is sent shows.
LEMMA GetsShows ==
  ASSUME BrowserTypeOK, NEW b \in Browsers, NEW e \in Envelopes, Gets(b, e)
  PROVE  \A n, i : Shows(b, n, i)' <=>
           \/ Shows(b, n, i)
           \/ n = Len(wire[b]) + 1 /\ e.type \in Showing /\ i \in DOMAIN e.rows
<1>1. /\ Len(wire[b]) \in Nat
      /\ DOMAIN wire[b] = 1..Len(wire[b]) /\ DOMAIN wire'[b] = 1..(Len(wire[b]) + 1)
      /\ \A n \in DOMAIN wire[b] : wire'[b][n] = wire[b][n]
      /\ wire'[b][Len(wire[b]) + 1] = e
  BY GetsFacts
<1>2. PICK end : end = Len(wire[b]) + 1
  OBVIOUS
<1>3. /\ end \in DOMAIN wire'[b] /\ end \notin DOMAIN wire[b] /\ wire'[b][end] = e
      /\ \A n \in DOMAIN wire'[b] : n = end \/ n \in DOMAIN wire[b]
      /\ \A n \in DOMAIN wire[b] : n \in DOMAIN wire'[b] /\ wire'[b][n] = wire[b][n]
  BY <1>1, <1>2
<1> QED
  BY <1>2, <1>3 DEF Shows

\* What is left when the browser has taken an envelope.
LEMMA TakesShows ==
  ASSUME BrowserTypeOK, NEW b \in Browsers, Takes(b)
  PROVE  \A n, i : Shows(b, n, i)' <=> n \in Nat \ {0} /\ Shows(b, n + 1, i)
<1>1. /\ Len(wire[b]) \in Nat \ {0}
      /\ DOMAIN wire[b] = 1..Len(wire[b]) /\ DOMAIN wire'[b] = 1..(Len(wire[b]) - 1)
      /\ \A n \in DOMAIN wire'[b] : n + 1 \in DOMAIN wire[b] /\ wire'[b][n] = wire[b][n + 1]
  BY TakesFacts
<1>2. \A n : n \in DOMAIN wire'[b] <=> n \in Nat \ {0} /\ n + 1 \in DOMAIN wire[b]
  BY <1>1
<1> QED
  BY <1>1, <1>2 DEF Shows

\* What the browser knows when it has taken an envelope: it forgets with a snapshot only.
LEMMA TakesKnows ==
  ASSUME BrowserTypeOK, NEW b \in Browsers, Takes(b)
  PROVE  /\ \A i \in DOMAIN known'[b] : i \in DOMAIN known[b] \/ Shows(b, 1, i)
         /\ \A i : Shows(b, 1, i) => i \in DOMAIN known'[b]
         /\ wire[b][1].type # "snapshot" => DOMAIN known[b] \subseteq DOMAIN known'[b]
<1>1. 1 \in DOMAIN wire[b] /\ wire[b][1] \in Envelopes
  BY TakesFacts
<1>2. PICK env \in Envelopes : env = wire[b][1]
  BY <1>1
<1>3. PICK map \in RowMaps : map = known[b]
  BY DEF BrowserTypeOK
<1>4. known'[b] = Reduce(map, env)
  BY <1>2, <1>3 DEF Takes
<1>5. /\ env.type = "snapshot" => DOMAIN known'[b] = DOMAIN env.rows
      /\ env.type \in {"created", "updated"} => DOMAIN known'[b] = DOMAIN map \cup DOMAIN env.rows
      /\ env.type \notin Showing => DOMAIN known'[b] = DOMAIN map
  BY <1>4, ReduceFacts
<1>6. \A i : Shows(b, 1, i) <=> env.type \in Showing /\ i \in DOMAIN env.rows
  BY <1>1, <1>2 DEF Shows
<1>7. CASE env.type = "snapshot"
  BY <1>2, <1>5, <1>6, <1>7 DEF Showing
<1>8. CASE env.type \in {"created", "updated"}
  BY <1>3, <1>5, <1>6, <1>8 DEF Showing
<1>9. CASE env.type \notin Showing
  BY <1>3, <1>5, <1>6, <1>9
<1> QED
  BY <1>7, <1>8, <1>9 DEF Showing

LEMMA ExplainedStep ==
  ASSUME TypeOK, ConnectionsAreTidy, NumbersRunOn, SnapshotsAreMissing, [Next]_vars
  PROVE  SnapshotsAreMissing'
<1>0. (SnapshotsAreMissing <=> \A b \in Browsers : Explained(b))'
  BY SnapshotsAreExplained, PTL
<1> SUFFICES ASSUME NEW b \in Browsers PROVE Explained(b)'
  BY <1>0
<1>1. Explained(b) /\ BrowserTypeOK
  BY SnapshotsAreExplained DEF TypeOK
<1>2. CASE wire'[b] = <<>>
  BY <1>2, EmptyFacts DEF Explained
<1>3. CASE Still(b) /\ wire'[b] # <<>>
  <2>1. raced'[b] = raced[b] /\ wire'[b] = wire[b] /\ known'[b] = known[b]
    BY <1>3, RacedStays DEF Still
  <2>2. \A n, i : Shows(b, n, i)' <=> Shows(b, n, i)
    BY <2>1 DEF Shows
  <2> QED
    BY <1>1, <2>1, <2>2 DEF Explained
<1>4. CASE Takes(b) /\ wire'[b] # <<>>
  <2>1. raced'[b] = raced[b]
    BY <1>4, RacedStays
  <2>2. \A n \in DOMAIN wire'[b] : n \in Nat /\ n + 1 \in DOMAIN wire[b] /\ wire'[b][n] = wire[b][n + 1]
    BY <1>1, <1>4, TakesFacts
  <2>3. ASSUME NEW n \in DOMAIN wire'[b], wire'[b][n].type = "snapshot",
               NEW i, i \in DOMAIN known'[b] \/ \E m : Shows(b, m, i)'
        PROVE  i \in raced'[b] \/ \E m : m >= n /\ Shows(b, m, i)'
    <3>1. i \in DOMAIN known[b] \/ \E m : Shows(b, m, i)
      BY <1>1, <1>4, <2>3, TakesShows, TakesKnows
    <3>2. n \in Nat /\ n + 1 \in DOMAIN wire[b] /\ wire[b][n + 1].type = "snapshot"
      BY <2>2, <2>3
    <3>3. i \in raced[b] \/ \E m : m >= n + 1 /\ Shows(b, m, i)
      BY <1>1, <3>1, <3>2 DEF Explained
    <3>4. ASSUME NEW m, m >= n + 1, Shows(b, m, i) PROVE \E k : k >= n /\ Shows(b, k, i)'
      <4>1. m \in Nat \ {0} /\ n \in Nat \ {0}
        <5>1. DOMAIN wire[b] = 1..Len(wire[b]) /\ DOMAIN wire'[b] = 1..(Len(wire[b]) - 1)
              /\ Len(wire[b]) \in Nat
          BY <1>1, <1>4, TakesFacts
        <5> QED
          BY <2>3, <3>4, <5>1 DEF Shows
      <4>2. m - 1 \in Nat \ {0} /\ (m - 1) + 1 = m /\ m - 1 >= n
        BY <3>4, <4>1
      <4>3. Shows(b, m - 1, i)'
        BY <1>1, <1>4, <3>4, <4>2, TakesShows
      <4> QED
        BY <4>2, <4>3
    <3> QED
      BY <2>1, <3>3, <3>4
  <2> QED
    BY <2>3 DEF Explained
<1>5. ASSUME NEW e \in Envelopes, Gets(b, e), Origin(b, e) PROVE Explained(b)'
  <2>1. /\ Len(wire[b]) \in Nat /\ DOMAIN wire[b] = 1..Len(wire[b])
        /\ DOMAIN wire'[b] = 1..(Len(wire[b]) + 1)
        /\ \A n \in DOMAIN wire[b] : wire'[b][n] = wire[b][n]
        /\ wire'[b][Len(wire[b]) + 1] = e
    BY <1>1, <1>5, GetsFacts
  <2>2. PICK end \in Nat : end = Len(wire[b]) + 1
    BY <2>1
  <2>3. /\ end \in DOMAIN wire'[b] /\ wire'[b][end] = e
        /\ \A n \in DOMAIN wire'[b] : n \in Nat /\ n <= end /\ (n = end \/ n \in DOMAIN wire[b])
        /\ \A n \in DOMAIN wire[b] : n \in Nat /\ n < end /\ wire'[b][n] = wire[b][n]
    BY <2>1, <2>2
  <2>4. \A n, i : Shows(b, n, i)' <=>
           Shows(b, n, i) \/ (n = end /\ e.type \in Showing /\ i \in DOMAIN e.rows)
    BY <1>1, <1>5, <2>2, GetsShows
  <2>5. known'[b] = known[b] /\ Joined(b)
    BY <1>5 DEF Gets
  <2>6. ASSUME NEW n \in DOMAIN wire[b], wire[b][n].type = "snapshot",
               NEW i, i \in DOMAIN known'[b] \/ \E m : Shows(b, m, i)'
        PROVE  i \in raced'[b] \/ \E m : m >= n /\ Shows(b, m, i)'
    <3>1. link[b] = "live"
      BY <2>6 DEF ConnectionsAreTidy
    <3>2. raced'[b] = raced[b]
      BY <3>1, RacedMoves DEF Connect, SendSnapshot
    <3>3. CASE i \in DOMAIN known[b] \/ \E m : Shows(b, m, i)
      BY <1>1, <2>4, <2>6, <3>2, <3>3 DEF Explained
    <3>4. CASE e.type \in Showing /\ i \in DOMAIN e.rows
      <4>1. Shows(b, end, i)' /\ end >= n
        BY <2>3, <2>4, <2>6, <3>4
      <4> QED
        BY <4>1
    <3> QED
      BY <2>4, <2>5, <2>6, <3>3, <3>4
  <2>7. ASSUME e.type = "snapshot", NEW i, i \in DOMAIN known'[b] \/ \E m : Shows(b, m, i)'
        PROVE  i \in raced'[b] \/ \E m : m >= end /\ Shows(b, m, i)'
    <3>1. SnapshotOf(b, e)
      BY ZenonT(30), <1>5, <2>7, ItemFacts DEF Origin, ChangeOf, TypeOK
    <3>2. raced'[b] = Told(b) \ DOMAIN e.rows
      BY <3>1 DEF SnapshotOf, SendSnapshot, TypeOK
    <3>3. CASE i \in DOMAIN e.rows
      BY <2>4, <2>7, <3>3 DEF Showing
    <3>4. CASE i \notin DOMAIN e.rows
      <4>1. i \in DOMAIN known[b] \/ \E m : Shows(b, m, i)
        BY <2>4, <2>5, <2>7, <3>4
      <4> QED
        BY <3>2, <3>4, <4>1, ToldIs DEF ToldMeans
    <3> QED
      BY <3>3, <3>4
  <2> QED
    BY <2>3, <2>6, <2>7 DEF Explained
<1>6. CASE Connect(b) \/ Drop(b)
  <2>1. wire'[b] = <<>>
    BY <1>6 DEF Connect, Drop, ConnectionsAreTidy, TypeOK, BrowserTypeOK
  <2> QED
    BY <1>2, <2>1
<1> QED
  BY <1>2, <1>3, <1>4, <1>5, <1>6, ConnectionStep

-----------------------------------------------------------------------------
(***************************************************************************)
(* Creations: announced, in the inbox, in hand, and then on every wire.    *)
(***************************************************************************)
Creates(c, i) == c.kind = "created" /\ c.inc = i

Announced(i) == \E a \in announce : Creates(a, i)

Queued(i) == \E n \in DOMAIN inbox : Creates(inbox[n], i)

InHand(i) == \E k \in DOMAIN hand["push"] : Creates(hand["push"][k], i)

\* CreationKnown, in the parts that a creation goes through.
CreationMeans ==
  \A i : CreationKnown(i) <=>
         i \in lost \cup Unheard(failed) \/ Announced(i) \/ Queued(i) \/ InHand(i)

LEMMA CreationIs == CreationMeans
<1> SUFFICES ASSUME NEW i
             PROVE  CreationKnown(i) <=>
                      i \in lost \cup Unheard(failed) \/ Announced(i) \/ Queued(i) \/ InHand(i)
  BY DEF CreationMeans
<1>1. i \in Unheard(announce \cup {inbox[n] : n \in DOMAIN inbox}) <=> Announced(i) \/ Queued(i)
  <2>1. i \in Unheard(announce \cup {inbox[n] : n \in DOMAIN inbox}) <=>
          \E c \in announce \cup {inbox[n] : n \in DOMAIN inbox} : c.kind = "created" /\ c.inc = i
    BY UnheardFacts
  <2> QED
    BY <2>1 DEF Announced, Queued, Creates
<1> QED
  BY <1>1 DEF CreationKnown, InHand, Creates

LEMMA AnnouncedMoves ==
  ASSUME TypeOK, [Next]_vars, NEW i, Announced(i)
  PROVE  (i \in lost \/ Announced(i) \/ Queued(i))'
<1>1. PICK a \in announce : Creates(a, i)
  BY DEF Announced
<1>2. CASE a \in announce'
  BY <1>1, <1>2 DEF Announced
<1>3. i \in Unheard({a})
  BY <1>1, UnheardFacts DEF Creates
<1>4. CASE Publish(a)
  <2>1. \/ lost' = lost \cup Unheard({a})
        \/ \E n \in DOMAIN inbox' : inbox'[n] = a
    BY <1>4, PublishFacts DEF TypeOK
  <2> QED
    BY <1>1, <1>3, <2>1 DEF Queued
<1>5. CASE WriterDies(a)
  BY <1>3, <1>5 DEF WriterDies
<1>6. a \in announce' \/ Publish(a) \/ WriterDies(a)
  <2>1. CASE UNCHANGED announce
    BY <2>1
  <2>2. ASSUME NEW x \in txn, Commit(x) PROVE a \in announce'
    BY <2>2, AnnounceGrows DEF TypeOK, FeedTypeOK
  <2>3. ASSUME NEW c \in announce, Publish(c) \/ WriterDies(c)
        PROVE  a \in announce' \/ Publish(a) \/ WriterDies(a)
    BY <2>3 DEF Publish, WriterDies
  <2>4. \/ UNCHANGED announce
        \/ \E x \in txn : Commit(x)
        \/ \E c \in announce : Publish(c) \/ WriterDies(c)
    BY FeedActions DEF feed, RedisFails, RedisReturns, Supervise, Probe, Subscribe, Receive,
       SubscriberEnds, Poll, WindowEnds, Drained, PollHangs, ReceiveFails, PollFails, Broadcast
  <2> QED
    BY <2>1, <2>2, <2>3, <2>4
<1> QED
  BY <1>2, <1>4, <1>5, <1>6

LEMMA QueuedMoves ==
  ASSUME TypeOK, [Next]_vars, NEW i, Queued(i)
  PROVE  (i \in lost \cup Unheard(failed) \/ Queued(i) \/ InHand(i))'
<1>1. PICK n \in DOMAIN inbox : Creates(inbox[n], i)
  BY DEF Queued
<1>2. CASE UNCHANGED inbox
  BY <1>1, <1>2 DEF Queued
<1>3. ASSUME NEW a \in announce, Publish(a) PROVE Queued(i)'
  <2>1. n \in DOMAIN inbox' /\ inbox'[n] = inbox[n]
    BY <1>3, PublishFacts DEF TypeOK
  <2> QED
    BY <1>1, <2>1 DEF Queued
<1>4. CASE Receive
  <2>1. PICK item \in Items :
          /\ item.inc = inbox[1].inc /\ item.kind = inbox[1].kind
          /\ hand' = [hand EXCEPT !["push"] = <<item>>]
          /\ \A m \in DOMAIN inbox : m # 1 => \E k \in DOMAIN inbox' : inbox'[k] = inbox[m]
    BY <1>4, ReceiveFacts DEF TypeOK
  <2>2. CASE n = 1
    <3>1. PICK page : page = <<item>> /\ DOMAIN page = {1} /\ page[1] = item
      BY SingleFacts
    <3>2. hand'["push"] = page
      BY <2>1, <3>1, TaskFacts DEF TypeOK, FeedTypeOK
    <3>3. Creates(item, i)
      BY <1>1, <2>1, <2>2 DEF Creates
    <3> QED
      BY <3>1, <3>2, <3>3 DEF InHand
  <2>3. CASE n # 1
    BY <1>1, <2>1, <2>3 DEF Queued
  <2> QED
    BY <2>2, <2>3
<1>5. CASE SubscriberEnds
  <2>1. \E c \in {inbox[m] : m \in DOMAIN inbox} : c.kind = "created" /\ c.inc = i
    BY <1>1 DEF Creates
  <2>2. i \in Unheard({inbox[m] : m \in DOMAIN inbox})
    BY <2>1, UnheardFacts
  <2> QED
    BY <1>5, <2>2 DEF SubscriberEnds
<1>6. CASE ReceiveFails
  <2>1. /\ failed' = failed \cup {inbox[1]}
        /\ \A m \in DOMAIN inbox : m # 1 => \E k \in DOMAIN inbox' : inbox'[k] = inbox[m]
    BY <1>6, ReceiveFailsFacts DEF TypeOK
  <2>2. CASE n = 1
    <3>1. inbox[1] \in failed' /\ inbox[1].kind = "created" /\ inbox[1].inc = i
      BY <1>1, <2>1, <2>2 DEF Creates
    <3>2. (i \in Unheard(failed))'
      BY <3>1 DEF Unheard
    <3> QED
      BY <3>2
  <2>3. CASE n # 1
    BY <1>1, <2>1, <2>3 DEF Queued
  <2> QED
    BY <2>2, <2>3
<1>7. \/ UNCHANGED inbox \/ (\E a \in announce : Publish(a)) \/ Receive \/ ReceiveFails
      \/ SubscriberEnds
  BY FeedActions DEF feed, Commit, WriterDies, RedisFails, RedisReturns, Supervise, Probe,
     Subscribe, Poll, WindowEnds, Drained, PollFails, PollHangs, Broadcast
<1> QED
  BY <1>2, <1>3, <1>4, <1>5, <1>6, <1>7

LEMMA InHandMoves ==
  ASSUME TypeOK, [Next]_vars, NEW i, InHand(i)
  PROVE  \/ InHand(i)'
         \/ \E t \in Tasks : Broadcast(t) /\ 1 \in DOMAIN hand[t] /\ Creates(hand[t][1], i)
<1>1. PICK k \in DOMAIN hand["push"] : Creates(hand["push"][k], i)
  BY DEF InHand
<1>2. CASE hand'["push"] = hand["push"]
  BY <1>1, <1>2 DEF InHand
<1>3. hand["push"] # <<>>
  BY <1>1, ItemFacts, TaskFacts DEF TypeOK
<1>4. CASE Broadcast("push")
  <2>1. hand["push"] \in Seq(Items) /\ Len(hand["push"]) <= 1
    BY TaskFacts DEF TypeOK, FeedTypeOK
  <2>2. k = 1
    <3>1. DOMAIN hand["push"] = 1..Len(hand["push"]) /\ Len(hand["push"]) \in Nat
      BY <2>1, LenProperties
    <3> QED
      BY <2>1, <3>1
  <2> QED
    BY <1>1, <1>4, <2>2, TaskFacts
<1>5. hand'["push"] = hand["push"] \/ Broadcast("push")
  <2>1. CASE Poll
    <3>1. PICK page \in Seq(Items) : hand' = [hand EXCEPT !["poll"] = page]
      BY <2>1, PollFacts DEF TypeOK
    <3> QED
      BY <3>1, TaskFacts DEF TypeOK, FeedTypeOK
  <2>2. CASE PollFails \/ PollHangs \/ Broadcast("poll")
    BY <2>2, TaskFacts DEF PollFails, PollHangs, Broadcast, TypeOK, FeedTypeOK
  <2>3. UNCHANGED hand \/ Poll \/ PollFails \/ PollHangs \/ Broadcast("push") \/ Broadcast("poll")
    BY <1>3, TaskFacts, FeedActions DEF feed, Commit, Publish, WriterDies, RedisFails, RedisReturns,
       Supervise, Probe, Subscribe, Receive, ReceiveFails, SubscriberEnds, WindowEnds, Drained
  <2> QED
    BY <2>1, <2>2, <2>3
<1> QED
  BY <1>2, <1>4, <1>5

\* A creation stays on its way, or lost, until it is sent.
LEMMA CreationMoves ==
  ASSUME TypeOK, [Next]_vars, NEW i, CreationKnown(i)
  PROVE  \/ CreationKnown(i)'
         \/ \E t \in Tasks : Broadcast(t) /\ 1 \in DOMAIN hand[t] /\ Creates(hand[t][1], i)
<1>0. CreationMeans'
  BY CreationIs, PTL
<1>1. i \in lost \cup Unheard(failed) => (i \in lost \cup Unheard(failed))'
  BY LostStep, FailedStep DEF Unheard
<1>2. i \in lost \cup Unheard(failed) \/ Announced(i) \/ Queued(i) \/ InHand(i)
  BY CreationIs DEF CreationMeans
<1> QED
  BY <1>0, <1>1, <1>2, AnnouncedMoves, QueuedMoves, InHandMoves DEF CreationMeans

\* What is created now is announced now.
LEMMA OpensAreAnnounced ==
  ASSUME TypeOK, DbInv, [Next]_vars, NEW i \in Incidents, row'[i].status \in ActiveStatuses
  PROVE  row[i].status \in ActiveStatuses \/ CreationKnown(i)'
<1>0. CreationMeans'
  BY CreationIs, PTL
<1>1. CASE row'[i] = row[i]
  BY <1>1
<1>2. ASSUME NEW t \in txn, Commit(t)
      PROVE  row[i].status \in ActiveStatuses \/ CreationKnown(i)'
  <2>1. CASE Skips(t) \/ t.inc # i
    <3>1. row'[i] = row[i]
      BY <1>2, <2>1, CommitMoves DEF TypeOK, DbTypeOK
    <3> QED
      BY <3>1
  <2>2. CASE ~Skips(t) /\ t.inc = i
    <3>1. row'[i] = Written(t)
      BY <1>2, <2>2, CommitMoves DEF TypeOK, DbTypeOK
    <3>2. row[i].status \in ActiveStatuses \/ t.does = "created"
      BY <2>2, <3>1, WrittenFacts
    <3>3. t.does = "created" => [inc |-> i, kind |-> "created"] \in announce'
      BY <1>2, <2>2, AnnounceGrows DEF TypeOK, FeedTypeOK
    <3>4. t.does = "created" => Announced(i)'
      BY <3>3 DEF Announced, Creates
    <3> QED
      BY <1>0, <3>2, <3>4 DEF CreationMeans
  <2> QED
    BY <2>1, <2>2
<1>3. ASSUME NEW j \in Incidents, Write(j) PROVE row'[i] = row[i]
  BY <1>3, WriteKeepsDb
<1> QED
  BY <1>1, <1>2, <1>3, DbActions DEF db

\* A creation that is sent, every connection is told.
LEMMA SentIsTold ==
  ASSUME TypeOK, NEW b \in Browsers, Joined(b), NEW i \in Incidents, NEW t \in Tasks,
         Broadcast(t), 1 \in DOMAIN hand[t], Creates(hand[t][1], i)
  PROVE  (i \in Told(b))'
<1>1. PICK item \in Items :
        /\ item = hand[t][1]
        /\ \E e \in Envelopes : /\ e.type = item.kind /\ e.rows = [j \in {item.inc} |-> item.row]
                                /\ Gets(b, e)
  BY BroadcastGets DEF TypeOK, ConnTypeOK
<1>2. PICK e \in Envelopes : /\ e.type = item.kind /\ e.rows = [j \in {item.inc} |-> item.row]
                             /\ Gets(b, e)
  BY <1>1
<1>3. e.type \in Showing /\ i \in DOMAIN e.rows
  BY <1>1, <1>2 DEF Creates, Showing
<1>4. \E n : Shows(b, n, i)'
  BY ZenonT(30), <1>2, <1>3, GetsShows DEF TypeOK
<1>5. ToldMeans'
  BY ToldIs, PTL
<1> QED
  BY <1>4, <1>5 DEF ToldMeans

\* What a screen has been told it goes on showing, but for a snapshot; raced says when.
LEMMA ToldStays ==
  ASSUME TypeOK, ConnectionsAreTidy, NumbersRunOn, SnapshotsAreMissing, [Next]_vars,
         NEW b \in Browsers, ~Connect(b), ~Drop(b), NEW i \in Told(b)
  PROVE  (i \in Told(b))' \/ (link[b] = "live" /\ i \in raced[b])
<1>1. i \in DOMAIN known[b] \/ \E n : Shows(b, n, i)
  BY ToldIs DEF ToldMeans
<1>2. ToldMeans'
  BY ToldIs, PTL
<1>3. CASE Still(b)
  BY <1>1, <1>2, <1>3 DEF Still, Shows, ToldMeans
<1>4. ASSUME NEW e \in Envelopes, Gets(b, e) PROVE (i \in Told(b))'
  <2>1. \A n : Shows(b, n, i) => Shows(b, n, i)'
    BY <1>4, GetsShows DEF TypeOK
  <2>2. known'[b] = known[b]
    BY <1>4 DEF Gets
  <2> QED
    BY <1>1, <1>2, <2>1, <2>2 DEF ToldMeans
<1>5. CASE Takes(b)
  <2>1. /\ \A j : Shows(b, 1, j) => j \in DOMAIN known'[b]
        /\ wire[b][1].type # "snapshot" => DOMAIN known[b] \subseteq DOMAIN known'[b]
    BY <1>5, TakesKnows DEF TypeOK
  <2>2. ASSUME NEW n, Shows(b, n, i) PROVE (i \in Told(b))'
    <3>1. CASE n = 1
      BY <1>2, <2>1, <2>2, <3>1 DEF ToldMeans
    <3>2. CASE n # 1
      <4>1. n \in Nat \ {0}
        <5>1. DOMAIN wire[b] = 1..Len(wire[b]) /\ Len(wire[b]) \in Nat
          BY <1>5, TakesFacts DEF TypeOK
        <5> QED
          BY <2>2, <5>1 DEF Shows
      <4>2. n - 1 \in Nat \ {0} /\ (n - 1) + 1 = n
        BY <3>2, <4>1
      <4>3. Shows(b, n - 1, i)'
        BY <1>5, <2>2, <4>2, TakesShows DEF TypeOK
      <4> QED
        BY <1>2, <4>3 DEF ToldMeans
    <3> QED
      BY <3>1, <3>2
  <2>3. CASE wire[b][1].type # "snapshot"
    BY <1>1, <1>2, <2>1, <2>2, <2>3 DEF ToldMeans
  <2>4. CASE wire[b][1].type = "snapshot"
    <3>1. 1 \in DOMAIN wire[b]
      BY <1>5, TakesFacts DEF TypeOK
    <3>2. link[b] = "live"
      BY <2>4, <3>1 DEF ConnectionsAreTidy
    <3>3. i \in raced[b] \/ \E m : Shows(b, m, i)
      BY <1>1, <2>4, <3>1, SnapshotsAreExplained DEF Explained
    <3> QED
      BY <2>2, <3>2, <3>3
  <2> QED
    BY <2>3, <2>4
<1> QED
  BY <1>3, <1>4, <1>5, ConnectionStep

\* The views of a snapshot that has been read wait unchanged.
LEMMA ViewsStay ==
  ASSUME TypeOK, ConnectionsAreTidy, [Next]_vars, NEW b \in Browsers,
         link[b] = "queried", link'[b] = "queried"
  PROVE  views'[b] = views[b]
<1>1. beat[b] # "read"
  BY DEF ConnectionsAreTidy
<1>2. CASE UNCHANGED views
  BY <1>2
<1>3. ASSUME NEW c \in Browsers,
             QuerySnapshot(c) \/ SendSnapshot(c) \/ SendTimers(c) \/ ReadTimers(c) \/ Drop(c)
      PROVE  views'[b] = views[b]
  BY <1>1, <1>3 DEF QuerySnapshot, SendSnapshot, SendTimers, ReadTimers, Drop, TypeOK, ServerTypeOK
<1>4. \/ UNCHANGED views
      \/ \E c \in Browsers :
           QuerySnapshot(c) \/ SendSnapshot(c) \/ SendTimers(c) \/ ReadTimers(c) \/ Drop(c)
  BY DEF Next, Write, BeginCreate, BeginClimb, BeginClose, Begin, Commit, Publish, WriterDies,
     RedisFails, RedisReturns, Supervise, Probe, Subscribe, Receive, SubscriberEnds, Poll,
     WindowEnds, Drained, PollHangs, ReceiveFails, PollFails, Broadcast, Serve, Heartbeat, Connect, Deliver, vars, server
<1> QED
  BY <1>2, <1>3, <1>4

\* The screen of b accounts for incident i.
Accounted(b, i) ==
  /\ link[b] = "queried" => i \in DOMAIN views[b] \cup Told(b) \/ CreationKnown(i)
  /\ link[b] = "live" => i \in raced[b] \cup Told(b) \/ CreationKnown(i)

LEMMA AccountsStep ==
  ASSUME TypeOK, DbInv, ConnectionsAreTidy, NumbersRunOn, SnapshotsAreMissing,
         OpenAreAccountedFor, [Next]_vars
  PROVE  OpenAreAccountedFor'
<1> SUFFICES ASSUME NEW b \in Browsers, NEW i \in Incidents, row'[i].status \in ActiveStatuses,
                    ~CreationKnown(i)'
             PROVE  Accounted(b, i)'
  BY DEF OpenAreAccountedFor, Accounted
<1>1. row[i].status \in ActiveStatuses
  BY OpensAreAnnounced
<1>2. Accounted(b, i)
  BY <1>1 DEF OpenAreAccountedFor, Accounted
<1>3. CASE Connect(b) \/ Drop(b)
  <2>1. link'[b] \in {"joined", "off"}
    BY <1>3 DEF Connect, Drop, TypeOK, ServerTypeOK
  <2> QED
    BY <2>1 DEF Accounted
<1>4. CASE ~Connect(b) /\ ~Drop(b)
  <2>1. link[b] \in {"queried", "live"} /\ CreationKnown(i) => (i \in Told(b))'
    BY CreationMoves, SentIsTold DEF Joined
  <2>2. i \in Told(b) => (i \in Told(b))' \/ (link[b] = "live" /\ i \in raced[b])
    BY <1>4, ToldStays
  <2>3. CASE link'[b] = link[b] /\ link[b] = "queried"
    <3>1. views'[b] = views[b]
      BY <2>3, ViewsStay
    <3> QED
      BY <1>2, <2>1, <2>2, <2>3, <3>1 DEF Accounted
  <2>4. CASE link'[b] = link[b] /\ link[b] = "live"
    <3>1. raced'[b] = raced[b]
      BY <2>4, RacedMoves DEF Connect, SendSnapshot
    <3> QED
      BY <1>2, <2>1, <2>2, <2>4, <3>1 DEF Accounted
  <2>5. CASE link'[b] = link[b] /\ link[b] \notin {"queried", "live"}
    BY <2>5 DEF Accounted
  <2>6. CASE QuerySnapshot(b) /\ link'[b] = "queried"
    <3>1. views'[b] = ActiveViews
      BY <2>6 DEF QuerySnapshot, TypeOK, ServerTypeOK
    <3>2. i \in DOMAIN ActiveViews
      BY <1>1, ActiveViewsFacts DEF TypeOK
    <3> QED
      BY <2>6, <3>1, <3>2 DEF Accounted
  <2>7. CASE SendSnapshot(b) /\ link[b] = "queried" /\ link'[b] = "live"
    <3>1. i \in DOMAIN views[b] \cup Told(b) \/ (i \in Told(b))'
      BY <1>2, <2>1, <2>7 DEF Accounted
    <3>2. i \in Told(b) => (i \in Told(b))'
      BY <2>2, <2>7
    <3>3. i \in DOMAIN views[b] => (i \in Told(b))'
      <4>1. views[b] \in RowMaps /\ "snapshot" \in Types /\ UNCHANGED <<known, lastSeq>>
            /\ Send(b, "snapshot", views[b]) /\ Joined(b)
        BY <2>7 DEF SendSnapshot, Joined, TypeOK, ServerTypeOK, Types, Showing
      <4>2. PICK e \in Envelopes : e.type = "snapshot" /\ e.rows = views[b] /\ Gets(b, e)
        BY <4>1, SendGets DEF TypeOK, ConnTypeOK
      <4>3. i \in DOMAIN views[b] => \E n : Shows(b, n, i)'
        BY <4>2, GetsShows DEF TypeOK, Showing
      <4>4. ToldMeans'
        BY ToldIs, PTL
      <4> QED
        BY <4>3, <4>4 DEF ToldMeans
    <3> QED
      BY <2>7, <3>1, <3>2, <3>3 DEF Accounted
  <2> QED
    BY <1>4, <2>3, <2>4, <2>5, <2>6, <2>7, LinksMove DEF TypeOK
<1> QED
  BY <1>3, <1>4

-----------------------------------------------------------------------------
(***************************************************************************)
(* The inductive invariant, and what follows from it.                      *)
(***************************************************************************)
LEMMA InitTypes == Init => TypeOK
<1> SUFFICES ASSUME Init PROVE TypeOK
  OBVIOUS
<1> USE DEF Init
<1>1. DbTypeOK
  <2>1. MaxChanges \in Nat /\ 0 \in 0..MaxChanges
    OBVIOUS
  <2>2. NoRow \in Rows
    BY <2>1, LadderFacts DEF NoRow, Rows
  <2> QED
    BY <2>1, <2>2 DEF DbTypeOK
<1>2. FeedTypeOK
  <2>1. <<>> \in Seq(Changes) /\ <<>> \in Seq(Items) /\ Len(<<>>) = 0
    BY EmptyFacts
  <2>2. hand = [t \in Tasks |-> <<>>] /\ hand["push"] = <<>> /\ hand["poll"] = <<>>
    BY TaskFacts
  <2> QED
    BY <2>1, <2>2 DEF FeedTypeOK
<1>3. ServerTypeOK
  BY EmptyMap DEF ServerTypeOK
<1>4. BrowserTypeOK
  BY EmptyMap, EmptyFacts DEF BrowserTypeOK
<1> QED
  BY <1>1, <1>2, <1>3, <1>4 DEF TypeOK

LEMMA InitIInv == Init => IInv
<1> SUFFICES ASSUME Init PROVE IInv
  OBVIOUS
<1>1. TypeOK
  BY InitTypes
<1>2. /\ \A i \in Incidents : row[i].status = "NOT_CREATED" /\ row[i].version = 0
      /\ txn = {} /\ clock = 0
  BY DEF Init, NoRow
<1>3. /\ \A b \in Browsers : wire[b] = <<>> /\ link[b] = "off" /\ beat[b] = "none"
      /\ \A t \in Tasks : hand[t] = <<>>
  BY DEF Init
<1>4. DOMAIN <<>> = {}
  BY EmptyFacts
<1>5. RowsAreOnRungs /\ VersionsAreCounted
  BY <1>2, LadderFacts, FS_EmptySet DEF RowsAreOnRungs, VersionsAreCounted
<1>6. ConnectionsAreTidy /\ NumbersRunOn
  BY <1>3, <1>4 DEF ConnectionsAreTidy, NumbersRunOn, Joined
<1>7. OneTaskReads
  BY <1>3, <1>4, TaskFacts DEF OneTaskReads
<1>8. BroadcastsNeverGoBack /\ SnapshotsAreMissing
  BY <1>3, <1>4 DEF BroadcastsNeverGoBack, Deltas, SnapshotsAreMissing
<1>9. OpenAreAccountedFor
  BY <1>3 DEF OpenAreAccountedFor
<1> QED
  BY <1>1, <1>5, <1>6, <1>7, <1>8, <1>9 DEF IInv

LEMMA IInvStep == IInv /\ [Next]_vars => IInv'
<1> SUFFICES ASSUME IInv, [Next]_vars PROVE IInv'
  OBVIOUS
<1> USE DEF IInv
<1>1. DbInv
  BY DEF DbInv, TypeOK
<1>2. RowsAreOnRungs' /\ VersionsAreCounted'
  BY <1>1, DbStep DEF DbInv
<1>3. TypeOK'
  BY TypesStep
<1>4. ConnectionsAreTidy' /\ NumbersRunOn'
  BY TidyStep, NumbersStep
<1>5. OneTaskReads'
  BY <1>1, <1>3, ReadStep DEF TypeOK
<1>6. BroadcastsNeverGoBack'
  BY <1>1, ForwardStep
<1>7. SnapshotsAreMissing'
  BY ExplainedStep
<1>8. OpenAreAccountedFor'
  BY <1>1, AccountsStep
<1> QED
  BY <1>2, <1>3, <1>4, <1>5, <1>6, <1>7, <1>8

\* In every reachable state rows are on their rungs, versions are counted by the
\* transactions, connections are tidy and numbered on, one task reads and sends,
\* nothing on a wire is ahead of the table, and every open incident is accounted for.
THEOREM InductiveInvariant == Spec => []IInv
<1>1. Init => IInv
  BY InitIInv
<1>2. IInv /\ [Next]_vars => IInv'
  BY IInvStep
<1> QED
  BY <1>1, <1>2, PTL DEF Spec

\* Every variable of the live feed keeps its type: the fallback holds a batch of
\* rows at most, however many transactions are open on a row.
THEOREM TypeCorrect == Spec => []TypeOK
<1>1. IInv => TypeOK
  BY DEF IInv
<1> QED
  BY <1>1, InductiveInvariant, PTL

\* The reducer of a connected browser never sees a gap in the numbers and never
\* drops an envelope as old, however often the connection was lost before.
THEOREM EnvelopesApply == Spec => []EveryEnvelopeApplies
<1>1. IInv => EveryEnvelopeApplies
  <2> SUFFICES ASSUME IInv, NEW b \in Browsers, Joined(b)
               PROVE  /\ lastSeq[b] + Len(wire[b]) = seq[b]
                      /\ \A n \in DOMAIN wire[b] :
                           /\ ~IsForwardGap(lastSeq[b] + n - 1, wire[b][n].seq)
                           /\ ~Stale(lastSeq[b] + n - 1, wire[b][n])
    BY DEF EveryEnvelopeApplies
  <2>1. /\ lastSeq[b] + Len(wire[b]) = seq[b]
        /\ \A n \in DOMAIN wire[b] : wire[b][n].seq = lastSeq[b] + n
    BY DEF IInv, NumbersRunOn
  <2>2. lastSeq[b] \in Nat /\ wire[b] \in Seq(Envelopes)
    BY DEF IInv, TypeOK, BrowserTypeOK
  <2>3. \A n \in DOMAIN wire[b] : n \in Nat
    BY <2>2, LenProperties
  <2> QED
    BY <2>1, <2>2, <2>3 DEF IsForwardGap, Stale
<1> QED
  BY <1>1, InductiveInvariant, PTL

\* What is broadcast about an incident follows the commits of its row, although
\* announcements come in any order and by two ways, and a failed page is sent again.
THEOREM NeverBack == Spec => []BroadcastsNeverGoBack
<1>1. IInv => BroadcastsNeverGoBack
  BY DEF IInv
<1> QED
  BY <1>1, InductiveInvariant, PTL

\* An open incident that a connected screen does not show was never heard of, was
\* failed over by the subscriber, is still on its way, or was taken away by the
\* connection's own snapshot.
THEOREM MissingExplained == Spec => []MissingIsExplained
<1>1. IInv => MissingIsExplained
  <2> SUFFICES ASSUME IInv, NEW b \in Browsers, NEW i \in Incidents, link[b] = "live",
                      row[i].status \in ActiveStatuses
               PROVE  \/ i \in Told(b)
                      \/ i \in lost \cup Unheard(failed) \cup raced[b]
                      \/ i \in Unheard(announce \cup {inbox[n] : n \in DOMAIN inbox})
                      \/ \E t \in Tasks : \E k \in DOMAIN hand[t] : hand[t][k].inc = i
    BY DEF MissingIsExplained
  <2>1. i \in raced[b] \cup Told(b) \/ CreationKnown(i)
    BY DEF IInv, OpenAreAccountedFor
  <2> QED
    BY <2>1, TaskFacts DEF CreationKnown
<1> QED
  BY <1>1, InductiveInvariant, PTL
=============================================================================
