-------------------------- MODULE MCCallbackSlots --------------------------
(***************************************************************************)
(* Small instances of CallbackSlots for TLC: a table that a few calls      *)
(* fill, where the code has 16 slots.                                      *)
(***************************************************************************)
EXTENDS CallbackSlots

=============================================================================
