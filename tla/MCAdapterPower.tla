--------------------------- MODULE MCAdapterPower ---------------------------
(***************************************************************************)
(* Model-checking instance of AdapterPower.                                *)
(***************************************************************************)
EXTENDS AdapterPower
=============================================================================
