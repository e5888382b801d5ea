------------------------------- MODULE MCShim -------------------------------
(***************************************************************************)
(* Small instances of Shim for TLC: a few ComPrimitives, which may be      *)
(* accepted, answered and freed in any order.                              *)
(***************************************************************************)
EXTENDS Shim

=============================================================================
