------------------------------ MODULE MCIngest ------------------------------
(* Small instances of Ingest for TLC. *)
EXTENDS Ingest, TLC

\* Every event has the one key there is.
OneKey == [e \in Events |-> CHOOSE k \in Keys : TRUE]
=============================================================================
