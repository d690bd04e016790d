----------------------------- MODULE MCReplies ------------------------------
(***************************************************************************)
(* Replies for TLC: rows, incidents, phones and webhook requests are each  *)
(* interchangeable.                                                        *)
(***************************************************************************)
EXTENDS Replies, TLC

Symmetry ==
  Permutations(Rows) \cup Permutations(Incidents)
    \cup Permutations(Phones) \cup Permutations(Handlers)
=============================================================================
