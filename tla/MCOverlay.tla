----------------------------- MODULE MCOverlay ------------------------------
(***************************************************************************)
(* The overlay pipeline for TLC.                                           *)
(***************************************************************************)
EXTENDS Overlay

FramesOfTrack == [e \in BOOLEAN |-> IF e THEN 0 ELSE 7]
=============================================================================
