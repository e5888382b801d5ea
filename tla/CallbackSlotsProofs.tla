------------------------ MODULE CallbackSlotsProofs ------------------------
(***************************************************************************)
(* Proofs about CallbackSlots, for any number of threads, slots and calls. *)
(***************************************************************************)
EXTENDS CallbackSlots, TLAPS

USE SlotsAssumption, ThreadsAssumption
USE DEF Cbs, Null, Empty, NoSlot, Labels, Inside

(***************************************************************************)
(* The lock is raw, the table empty and nobody in a call.                  *)
(***************************************************************************)
LEMMA InitSlots == Init => SlotsInv
<1> SUFFICES ASSUME Init PROVE SlotsInv
  OBVIOUS
<1>1. TypeOK
  <2>1. /\ table \in [0 .. MaxSlots -> Cbs \cup {Empty}]
        /\ pc \in [Threads -> Labels]
        /\ cb \in [Threads -> Cbs \cup {Null}]
        /\ slot \in [Threads -> {NoSlot} \cup 0 .. MaxSlots - 1]
    BY DEF Init
  <2>2. /\ inited \in BOOLEAN
        /\ lock \in {"raw", "free", "stuck"} \cup Threads
        /\ done \subseteq (0 .. MaxSlots - 1) \X Cbs
    BY DEF Init
  <2>3. count \in 0 .. MaxSlots /\ begun \in 0 .. MaxCalls
    BY DEF Init
  <2> QED
    BY <2>1, <2>2, <2>3 DEF TypeOK
<1>2. LockWorks /\ TableIsFilled
  BY DEF Init, LockWorks, TableIsFilled
<1> QED
  BY <1>1, <1>2 DEF SlotsInv

(***************************************************************************)
(* Every step of the call keeps the types, provided the lock works and the *)
(* table is filled from below.                                             *)
(***************************************************************************)
LEMMA StepType ==
    ASSUME SlotsInv, [Next]_vars
    PROVE  TypeOK'
<1> USE DEF SlotsInv, TypeOK, TableIsFilled, Goto
<1>1. ASSUME NEW t \in Threads, NEW f \in {Null, begun + 1}, Begin(t, f) PROVE TypeOK'
  BY <1>1 DEF Begin
<1>2. ASSUME NEW t \in Threads, Continue(t) PROVE TypeOK'
  <2>1. CASE InitLock(t) \/ SetFlag(t) \/ Enter(t) \/ PassOver(t)
    BY <2>1 DEF InitLock, SetFlag, Enter, PassOver, WayOut
  <2>2. CASE Claim(t)
    BY <2>2 DEF Claim, RoomLeft
  <2>3. CASE Count(t)
    BY <2>3 DEF Count, Counted
  <2>4. CASE Store(t)
    BY <2>4 DEF Store
  <2>5. CASE Leave(t)
    BY <2>5 DEF Leave
  <2>6. CASE Forward(t)
    BY <2>6 DEF Forward
  <2> QED
    BY <1>2, <2>1, <2>2, <2>3, <2>4, <2>5, <2>6 DEF Continue
<1>3. CASE UNCHANGED vars
  BY <1>3 DEF vars
<1> HIDE DEF SlotsInv, TypeOK, TableIsFilled, Goto
<1> QED
  BY <1>1, <1>2, <1>3 DEF Next

(***************************************************************************)
(* The critical section is initialised once, so it excludes.               *)
(***************************************************************************)
LEMMA StepLock ==
    ASSUME FirstAlone, SlotsInv, [Next]_vars
    PROVE  LockWorks'
<1> USE DEF SlotsInv, TypeOK, LockWorks, Goto
<1>1. ASSUME NEW t \in Threads, NEW f \in {Null, begun + 1}, Begin(t, f) PROVE LockWorks'
  BY <1>1 DEF Begin
<1>2. ASSUME NEW t \in Threads, Continue(t) PROVE LockWorks'
  <2>1. CASE InitLock(t)
    BY <2>1 DEF InitLock
  <2>2. CASE SetFlag(t)
    BY <2>2 DEF SetFlag
  <2>3. CASE Enter(t)
    BY <2>3 DEF Enter
  <2>4. CASE Claim(t) \/ PassOver(t) \/ Count(t) \/ Store(t)
    BY <2>4 DEF Claim, PassOver, WayOut, Count, Store
  <2>5. CASE Leave(t)
    BY <2>5 DEF Leave
  <2>6. CASE Forward(t)
    BY <2>6 DEF Forward
  <2> QED
    BY <1>2, <2>1, <2>2, <2>3, <2>4, <2>5, <2>6 DEF Continue
<1>3. CASE UNCHANGED vars
  BY <1>3 DEF vars
<1> HIDE DEF SlotsInv, TypeOK, LockWorks, Goto
<1> QED
  BY <1>1, <1>2, <1>3 DEF Next

(***************************************************************************)
(* Slots are filled in order, each by one registration.                    *)
(***************************************************************************)
LEMMA StepTable ==
    ASSUME SlotsInv, [Next]_vars
    PROVE  TableIsFilled'
<1> USE DEF SlotsInv, TypeOK, LockWorks, TableIsFilled, Goto
<1>1. ASSUME NEW t \in Threads, NEW f \in {Null, begun + 1}, Begin(t, f)
      PROVE  TableIsFilled'
  BY <1>1 DEF Begin
<1>2. ASSUME NEW t \in Threads, Continue(t) PROVE TableIsFilled'
  <2>1. CASE InitLock(t) \/ SetFlag(t) \/ Enter(t)
    BY <2>1 DEF InitLock, SetFlag, Enter
  <2>2. CASE Claim(t)
    BY <2>2 DEF Claim, RoomLeft
  <2>3. CASE PassOver(t)
    BY <2>3 DEF PassOver, WayOut
  <2>4. CASE Count(t)
    BY <2>4 DEF Count, Counted
  <2>5. CASE Store(t)
    BY <2>5 DEF Store
  <2>6. CASE Leave(t)
    BY <2>6 DEF Leave
  <2>7. CASE Forward(t)
    BY <2>7 DEF Forward
  <2> QED
    BY <1>2, <2>1, <2>2, <2>3, <2>4, <2>5, <2>6, <2>7 DEF Continue
<1>3. CASE UNCHANGED vars
  BY <1>3 DEF vars
<1> HIDE DEF SlotsInv, TypeOK, LockWorks, TableIsFilled, Goto
<1> QED
  BY <1>1, <1>2, <1>3 DEF Next

(***************************************************************************)
(* When the very first registration is alone, the lock excludes, the       *)
(* table is filled from below, and no slot passes the end of it, for any   *)
(* number of threads and any size of the table.                            *)
(***************************************************************************)
THEOREM SlotsInvariance == ASSUME FirstAlone PROVE Spec => []SlotsInv
<1>1. SlotsInv /\ [Next]_vars => SlotsInv'
  BY StepType, StepLock, StepTable DEF SlotsInv
<1> QED
  BY <1>1, InitSlots, PTL DEF Spec

(***************************************************************************)
(* Then no two registrations ever share a slot.  Without that condition    *)
(* they may: the run "callback_slots_first_race" is the counterexample.    *)
(***************************************************************************)
THEOREM SlotsAreKept == ASSUME FirstAlone PROVE Spec => []NoRegistrationLost
<1>1. SlotsInv => NoRegistrationLost
  BY DEF SlotsInv, TableIsFilled, NoRegistrationLost
<1> QED
  BY <1>1, SlotsInvariance, PTL

(***************************************************************************)
(* Nor does g_cb_count pass MAX_CB_SLOTS, or a slot the end of the table.  *)
(***************************************************************************)
THEOREM TableIsNotOverrun == ASSUME FirstAlone PROVE Spec => []TypeOK
<1>1. SlotsInv => TypeOK
  BY DEF SlotsInv
<1> QED
  BY <1>1, SlotsInvariance, PTL

=============================================================================
