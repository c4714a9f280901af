---------------------------- MODULE MCGapAdapter ----------------------------
(* Model-checking instance of GapAdapter. *)
EXTENDS GapAdapter
=============================================================================
