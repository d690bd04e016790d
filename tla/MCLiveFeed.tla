----------------------------- MODULE MCLiveFeed -----------------------------
(***************************************************************************)
(* A small instance of LiveFeed for TLC.  The second transaction may be of *)
(* another incident, or else a third may follow, for two closes that have  *)
(* both read their incident open.  That cuts off only transactions that    *)
(* would begin, and nothing is assumed of those.                           *)
(***************************************************************************)
EXTENDS LiveFeed, TLC

Begun  == {i \in Incidents : Exists(i)} \cup {t.inc : t \in txn}
Closes == {t \in txn : t.does \in Ladder!Closed}

\* Incidents are alike: this one comes first.
InTurn == Begun # {} => (CHOOSE i \in Incidents : TRUE) \in Begun

ThirdIsARace ==
  /\ clock' > 2 => Cardinality(Begun') = 1
  /\ clock = 2 /\ clock' = 3 => Cardinality(Closes') = 2

SmallNext == Next /\ InTurn' /\ ThirdIsARace

SmallSpec == Init /\ [][SmallNext]_vars /\ Fairness
=============================================================================
