----------------------------- MODULE MCDelivery -----------------------------
(***************************************************************************)
(* Small instances of Delivery for TLC: events that are due at once and    *)
(* events that are due later, and a wait that is a few ticks long where    *)
(* the code waits 40.                                                      *)
(***************************************************************************)
EXTENDS Delivery

MCDelays == {0, 2}

=============================================================================
