----------------------------- MODULE EventQueue -----------------------------
(***************************************************************************)
(* The event list of the scheduler (src/src/scheduler.c), as pure          *)
(* operators on sequences.                                                 *)
(*                                                                         *)
(* The list is a singly linked chain walked from its head under one        *)
(* critical section, so each call is one atomic step on the sequence of    *)
(* its events.  An event is a record with at least                         *)
(*    link  the (h_mod, h_cll) pair it is addressed to                     *)
(*    cop   the handle of the ComPrimitive it answers                      *)
(*    due   the time from which it may be handed out                       *)
(* The payload is left to the modules that use the queue.                  *)
(***************************************************************************)
EXTENDS Integers, Sequences, SequencesExt

(***************************************************************************)
(* The test both walks make: right link, and the due time has come.        *)
(***************************************************************************)
Due(e, link, n) == e.link = link /\ e.due <= n

(***************************************************************************)
(* Mutants.  The names that start with Mut are slips the code might have   *)
(* made; nothing in the specification uses them.                           *)
(***************************************************************************)
MutPushedAtHead(q, e) == <<e>> \o q

MutPushedOverHead(q, e) == <<e>>

MutFirstDueAnyLink(q, k, link, n) ==
    /\ k \in DOMAIN q
    /\ q[k].due <= n
    /\ \A j \in DOMAIN q : j < k => q[j].due > n

MutLeftInPlace(q, k) == q

(***************************************************************************)
(* scheduler_push: the new node goes to the tail, whatever its due time.   *)
(***************************************************************************)
Pushed(q, e) == Append(q, e)

(***************************************************************************)
(* The walk of scheduler_pop_due stops at position k: the first node, in   *)
(* list order, that is due on the link.                                    *)
(***************************************************************************)
IsFirstDue(q, k, link, n) ==
    /\ k \in DOMAIN q
    /\ Due(q[k], link, n)
    /\ \A j \in DOMAIN q : j < k => ~ Due(q[j], link, n)

(***************************************************************************)
(* The chain once the node at position k has been unlinked.                *)
(***************************************************************************)
Detached(q, k) == RemoveAt(q, k)

(***************************************************************************)
(* The peek of the delivery thread: does any node satisfy the test?        *)
(***************************************************************************)
HasDue(q, link, n) == \E k \in DOMAIN q : Due(q[k], link, n)

=============================================================================
