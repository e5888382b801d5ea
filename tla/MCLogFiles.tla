----------------------------- MODULE MCLogFiles -----------------------------
(***************************************************************************)
(* Small instances of LogFiles for TLC: one thread of the application and  *)
(* the delivery thread, over two seconds.                                  *)
(***************************************************************************)
EXTENDS LogFiles

=============================================================================
