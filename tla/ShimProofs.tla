----------------------------- MODULE ShimProofs -----------------------------
(***************************************************************************)
(* Proofs about Shim, for any number of ComPrimitives, any modes in the    *)
(* registry, and whatever is missing when the DLL comes up.                *)
(***************************************************************************)
EXTENDS Shim, TLAPS

USE RegistryAssumption, ShimFlagAssumption DEF dll, traffic

(***************************************************************************)
(* Nothing is loaded.                                                      *)
(***************************************************************************)
LEMMA InitShim == Init => TypeOK
BY DEF Init, TypeOK, Modes, Sides

(***************************************************************************)
(* What DllMain leaves behind fits together: in a serving mode there is a  *)
(* recording, whichever of the vendor DLL, the recording and the scheduler *)
(* is missing.                                                             *)
(***************************************************************************)
LEMMA AttachTypes ==
    ASSUME TypeOK, NEW reg \in Registry, Attach(reg)
    PROVE  TypeOK'
<1>1. reg \in Modes
  OBVIOUS
<1>2. PICK dllFound \in BOOLEAN, recFound \in BOOLEAN, memory \in BOOLEAN :
          LoadVendor(reg, dllFound) /\ StartEngine(reg, recFound, memory)
  BY DEF Attach
<1>3. /\ vendor' \in BOOLEAN
      /\ recording' \in BOOLEAN
      /\ scheduler' \in BOOLEAN
      /\ scheduler' => recording'
      /\ mode' \in Modes
      /\ mode' \in Serving => recording'
  BY <1>1, <1>2 DEF LoadVendor, StartEngine, Modes, Serving
<1> QED
  BY <1>3 DEF TypeOK, Attach, ServedByEngine

(***************************************************************************)
(* The exports and the detach keep the types.                              *)
(***************************************************************************)
LEMMA StepShim == TypeOK /\ [Next]_vars => TypeOK'
<1> SUFFICES ASSUME TypeOK, [Next]_vars PROVE TypeOK'
  OBVIOUS
<1>1. ASSUME NEW reg \in Registry, Attach(reg) PROVE TypeOK'
  BY <1>1, AttachTypes
<1> USE DEF TypeOK, Sides, ServedByEngine
<1>2. CASE PDUConstruct
  <2>1. CASE vendor /\ constructed' = TRUE /\ UNCHANGED <<phase, dll, traffic>>
    BY <2>1
  <2>2. CASE CallThroughNull
    BY <2>2 DEF CallThroughNull
  <2> QED
    BY <1>2, <2>1, <2>2 DEF PDUConstruct
<1>3. CASE PDURegisterEventCallback
  BY <1>3 DEF PDURegisterEventCallback
<1>4. ASSUME NEW c \in Cops, PDUStartComPrimitive(c) PROVE TypeOK'
  BY <1>4 DEF PDUStartComPrimitive
<1>5. ASSUME NEW c \in Cops, PDUGetEventItem(c) PROVE TypeOK'
  BY <1>5 DEF PDUGetEventItem
<1>6. ASSUME NEW c \in Cops, PDUDestroyItem(c) PROVE TypeOK'
  BY <1>6 DEF PDUDestroyItem
<1>7. CASE Detach
  BY <1>7 DEF Detach
<1>8. CASE UNCHANGED vars
  BY <1>8 DEF vars
<1> QED
  BY <1>1, <1>2, <1>3, <1>4, <1>5, <1>6, <1>7, <1>8 DEF Next, Poll

(***************************************************************************)
(* While the DLL is up in a serving mode it has a recording to serve from. *)
(***************************************************************************)
THEOREM ShimTypes == Spec => []TypeOK
BY InitShim, StepShim, PTL DEF Spec

-----------------------------------------------------------------------------

(***************************************************************************)
(* Every wrapper goes by the mode of the moment, so the replies and the    *)
(* callback could only part if the mode changed between two calls.  It is  *)
(* settled before the first one.                                           *)
(***************************************************************************)
RoutingInv ==
    /\ phase = "down" => queued = {} /\ listener = "none"
    /\ \A c \in queued : side[c] = PolledSide
    /\ listener \in {"none", PolledSide}

(***************************************************************************)
(* No step separates the callback from the replies.                        *)
(***************************************************************************)
LEMMA StepRouting == TypeOK /\ RoutingInv /\ [Next]_vars => RoutingInv'
<1> SUFFICES ASSUME TypeOK, RoutingInv, [Next]_vars PROVE RoutingInv'
  OBVIOUS
<1> USE DEF RoutingInv, PolledSide, ServedByEngine
<1>1. ASSUME NEW reg \in Registry, Attach(reg) PROVE RoutingInv'
  BY <1>1 DEF Attach
<1>2. CASE PDUConstruct
  BY <1>2 DEF PDUConstruct, CallThroughNull
<1>3. CASE PDURegisterEventCallback
  BY <1>3 DEF PDURegisterEventCallback
<1>4. ASSUME NEW c \in Cops, PDUStartComPrimitive(c) PROVE RoutingInv'
  BY <1>4 DEF PDUStartComPrimitive, TypeOK
<1>5. ASSUME NEW c \in Cops, PDUGetEventItem(c) PROVE RoutingInv'
  BY <1>5 DEF PDUGetEventItem
<1>6. ASSUME NEW c \in Cops, PDUDestroyItem(c) PROVE RoutingInv'
  BY <1>6 DEF PDUDestroyItem
<1>7. CASE Detach
  BY <1>7 DEF Detach
<1>8. CASE UNCHANGED vars
  BY <1>8 DEF vars
<1> QED
  BY <1>1, <1>2, <1>3, <1>4, <1>5, <1>6, <1>7, <1>8 DEF Next, Poll

(***************************************************************************)
(* The callback is always on the side where the replies are, also when a   *)
(* missing recording has turned playback into passthrough.                 *)
(***************************************************************************)
THEOREM RepliesMeetTheCallback == Spec => []CallbackFollowsReplies
<1>1. Init => RoutingInv
  BY DEF Init, RoutingInv
<1>2. RoutingInv => CallbackFollowsReplies
  BY DEF RoutingInv, CallbackFollowsReplies
<1> QED
  BY <1>1, <1>2, StepRouting, ShimTypes, PTL DEF Spec

=============================================================================
