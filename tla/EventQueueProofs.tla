-------------------------- MODULE EventQueueProofs --------------------------
(***************************************************************************)
(* What the list operations of src/src/scheduler.c do to the events of the *)
(* list, for every list: the facts the proofs about the data path rest on. *)
(***************************************************************************)
EXTENDS EventQueue, SequenceTheorems, TLAPS

(***************************************************************************)
(* scheduler_push leaves every event where it is and puts the new one      *)
(* last.                                                                   *)
(***************************************************************************)
LEMMA PushedProperties ==
    ASSUME NEW S, NEW q \in Seq(S), NEW e \in S
    PROVE  /\ Pushed(q, e) \in Seq(S)
           /\ DOMAIN Pushed(q, e) = 1 .. Len(q) + 1
           /\ DOMAIN q = 1 .. Len(q) /\ Len(q) \in Nat
           /\ \A k \in DOMAIN q : Pushed(q, e)[k] = q[k]
           /\ Pushed(q, e)[Len(q) + 1] = e
BY AppendProperties DEF Pushed

(***************************************************************************)
(* Unlinking a node moves every later event up by one and changes nothing  *)
(* else.                                                                   *)
(***************************************************************************)
LEMMA DetachedProperties ==
    ASSUME NEW S, NEW q \in Seq(S), NEW k \in DOMAIN q
    PROVE  /\ Detached(q, k) \in Seq(S)
           /\ DOMAIN Detached(q, k) = 1 .. Len(q) - 1
           /\ DOMAIN q = 1 .. Len(q) /\ Len(q) \in Nat
           /\ \A j \in 1 .. Len(q) - 1 :
                 Detached(q, k)[j] = q[IF j < k THEN j ELSE j + 1]
<1> DEFINE before == SubSeq(q, 1, k - 1)
           after  == SubSeq(q, k + 1, Len(q))
<1>0. k \in 1 .. Len(q) /\ Len(q) \in Nat /\ DOMAIN q = 1 .. Len(q)
  OBVIOUS
<1>1. /\ before \in Seq(S)
      /\ Len(before) = k - 1
      /\ \A j \in 1 .. k - 1 : before[j] = q[j]
  BY <1>0, SubSeqProperties
<1>2. /\ after \in Seq(S)
      /\ Len(after) = Len(q) - k
      /\ \A j \in 1 .. Len(q) - k : after[j] = q[k + j]
  BY <1>0, SubSeqProperties
<1> HIDE DEF before, after
<1>3. /\ before \o after \in Seq(S)
      /\ Len(before \o after) = Len(q) - 1
  <2>1. /\ before \o after \in Seq(S)
        /\ Len(before \o after) = Len(before) + Len(after)
    BY <1>1, <1>2, ConcatProperties
  <2> QED
    BY <2>1, <1>0, <1>1, <1>2
<1>4. ASSUME NEW j \in 1 .. Len(q) - 1
      PROVE  (before \o after)[j] = q[IF j < k THEN j ELSE j + 1]
  <2>1. (before \o after)[j] = IF j <= Len(before) THEN before[j] ELSE after[j - Len(before)]
    BY <1>0, <1>1, <1>2, ConcatProperties
  <2> QED
    BY <2>1, <1>0, <1>1, <1>2
<1>5. Detached(q, k) = before \o after
  BY DEF Detached, RemoveAt, before, after
<1>6. DOMAIN (before \o after) = 1 .. Len(q) - 1
  BY <1>3
<1> QED
  BY <1>0, <1>3, <1>4, <1>5, <1>6

=============================================================================
