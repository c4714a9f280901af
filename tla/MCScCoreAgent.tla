--------------------------- MODULE MCScCoreAgent ---------------------------
(***************************************************************************)
(* Model-checking instance of ScCoreAgent: a headset and a keyboard.       *)
(***************************************************************************)
EXTENDS ScCoreAgent

CONSTANTS headset, keyboard

MCDevice == {headset, keyboard}
MCHeadsets == {headset}
MCKeyboards == {keyboard}
=============================================================================
