----------------------------- MODULE MCNotifier -----------------------------
(***************************************************************************)
(* The notifier relay for TLC: rows and relays are interchangeable.        *)
(***************************************************************************)
EXTENDS Notifier, TLC

Symmetry == Permutations(Rows) \cup Permutations(Relays)
=============================================================================
