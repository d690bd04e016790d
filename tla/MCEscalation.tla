--------------------------- MODULE MCEscalation ---------------------------
(* Small instances of Escalation for TLC. *)
EXTENDS Escalation, TLC

Row(t, a, d) == [tier |-> t, anomaly |-> a, delay |-> d]

\* Every tier configured, one for the anomaly type with a site-wide row beside it and
\* one site-wide only; the delay is a tick, so that a row whose tier has just fired is
\* not due again at once.
AllTiers == {Row(0, AnyType, 0), Row(1, AnyType, 2), Row(1, "ppe_no_hardhat", 1),
             Row(2, AnyType, 1), Row(2, "loitering", 2)}

\* Tier 2 has no escalation_tiers row for the incidents' type.
NoTier2 == {Row(0, AnyType, 0), Row(1, AnyType, 1), Row(2, "loitering", 1)}

Symmetry == Permutations(Incidents) \cup Permutations(Workers) \cup Permutations(Requests)
===========================================================================
