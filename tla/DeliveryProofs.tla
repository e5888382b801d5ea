--------------------------- MODULE DeliveryProofs ---------------------------
(***************************************************************************)
(* Proofs about Delivery, for any links, callbacks, delays and timings:    *)
(*    DeliveryTypes        TypeOK is an invariant                          *)
(*    StopInvariance,                                                      *)
(*    StopIsTimelyEnough   no use after free, when the callback and the    *)
(*                         sleep together are shorter than the wait        *)
(*    StaleAtMostOnce      a replaced callback is called at most once more *)
(***************************************************************************)
EXTENDS Delivery, EventQueueProofs

USE TimingAssumption DEF shared, thread, history, SleepFrom, Raised, HasEnded, WaitIsOver

(***************************************************************************)
(* Types before fremsoft_init.                                             *)
(***************************************************************************)
LEMMA InitTypes == Init => TypeOK
<1> SUFFICES ASSUME Init PROVE TypeOK
  OBVIOUS
<1>1. slot \in Slots /\ snap \in Slots
  BY DEF Init, NoSlot, Slots
<1>2. queue \in Seq([link : Links, due : Nat])
  BY DEF Init
<1>3. /\ stopFlag \in BOOLEAN
      /\ orphaned \in BOOLEAN
      /\ owner \in OwnerNames
      /\ dpc \in DpcNames
  BY DEF Init, OwnerNames, DpcNames
<1>4. /\ now \in Nat
      /\ pushed \in Nat
      /\ registered \in Nat
      /\ stale \in Nat
      /\ waited \in 0 .. WaitTicks
      /\ timer = 0
      /\ dpc = "none"
  BY DEF Init
<1> QED
  BY <1>1, <1>2, <1>3, <1>4 DEF TypeOK

(***************************************************************************)
(* What the application does.                                              *)
(***************************************************************************)
LEMMA ApplicationTypes == TypeOK /\ Application => TypeOK'
<1> SUFFICES ASSUME TypeOK, Application PROVE TypeOK'
  OBVIOUS
<1>1. ASSUME NEW link \in Links, NEW delay \in Delays, PushEvent(link, delay)
      PROVE  TypeOK'
  <2>1. now + delay \in Nat
    BY DEF TypeOK
  <2>2. queue' \in Seq([link : Links, due : Nat])
    BY <1>1, <2>1, PushedProperties DEF TypeOK, PushEvent
  <2> QED
    BY <1>1, <2>2 DEF TypeOK, PushEvent
<1>2. ASSUME NEW link \in Links, PollEvent(link) PROVE TypeOK'
  <2>1. queue' \in Seq([link : Links, due : Nat])
    <3>1. PICK k \in DOMAIN queue : queue' = Detached(queue, k)
      BY <1>2 DEF PollEvent
    <3> QED
      BY <3>1, DetachedProperties DEF TypeOK
  <2> QED
    BY <1>2, <2>1 DEF TypeOK, PollEvent
<1>3. ASSUME NEW link \in Links, NEW cb \in Callbacks \cup {NoCb}, SetCallback(link, cb)
      PROVE  TypeOK'
  <2>1. slot' \in Slots
    BY <1>3 DEF SetCallback, Slots
  <2> QED
    BY <1>3, <2>1 DEF TypeOK, SetCallback
<1>4. CASE Unload
  BY <1>4 DEF TypeOK, Unload, OwnerNames
<1>5. CASE ProcessExit
  BY <1>5 DEF TypeOK, ProcessExit, OwnerNames, DpcNames, HasThread
<1> QED
  BY <1>1, <1>2, <1>3, <1>4, <1>5 DEF Application

(***************************************************************************)
(* What the delivery thread does.                                          *)
(***************************************************************************)
LEMMA DeliverTypes == TypeOK /\ Deliver => TypeOK'
<1> SUFFICES ASSUME TypeOK, Deliver PROVE TypeOK'
  OBVIOUS
<1> USE DEF TypeOK, DpcNames
<1>1. CASE CheckStop
  BY <1>1 DEF CheckStop
<1>2. CASE TakeSnapshot
  BY <1>2 DEF TakeSnapshot
<1>3. CASE Peek
  BY <1>3 DEF Peek
<1>4. CASE EnterCallback
  BY <1>4 DEF EnterCallback
<1>5. CASE LeaveCallback
  BY <1>5 DEF LeaveCallback
<1>6. CASE WakeUp
  <2>1. snap' \in Slots
    BY <1>6 DEF WakeUp, NoSlot, Slots
  <2> QED
    BY <1>6, <2>1 DEF WakeUp
<1>7. CASE ThreadEnds
  BY <1>7 DEF ThreadEnds
<1> QED
  BY <1>1, <1>2, <1>3, <1>4, <1>5, <1>6, <1>7 DEF Deliver

(***************************************************************************)
(* Application, delivery thread, start, shutdown and time together.        *)
(***************************************************************************)
LEMMA StepTypes == TypeOK /\ [Next]_vars => TypeOK'
<1> SUFFICES ASSUME TypeOK, [Next]_vars PROVE TypeOK'
  OBVIOUS
<1>1. CASE StartThread \/ StartWithoutThread
  <2>1. CASE StartThread
    BY <2>1 DEF TypeOK, StartThread, OwnerNames, DpcNames
  <2>2. CASE StartWithoutThread
    BY <2>2 DEF TypeOK, StartWithoutThread, OwnerNames, DpcNames
  <2> QED
    BY <1>1, <2>1, <2>2
<1>2. CASE Application
  BY <1>2, ApplicationTypes
<1>3. CASE Deliver
  BY <1>3, DeliverTypes
<1>4. CASE Shutdown
  <2>1. CASE RaiseStopFlag
    BY <2>1 DEF TypeOK, RaiseStopFlag, OwnerNames
  <2>2. CASE EndWait
    BY <2>2 DEF TypeOK, EndWait, OwnerNames
  <2>3. CASE Free
    <3>1. queue' \in Seq([link : Links, due : Nat])
      BY <2>3 DEF Free
    <3> QED
      BY <2>3, <3>1 DEF TypeOK, Free, OwnerNames
  <2>4. CASE EndAtOrphanedLock
    BY <2>4 DEF TypeOK, EndAtOrphanedLock, OwnerNames
  <2> QED
    BY <1>4, <2>1, <2>2, <2>3, <2>4 DEF Shutdown
<1>5. CASE Tick
  BY <1>5 DEF TypeOK, Tick, OwnerNames, DpcNames
<1>6. CASE UNCHANGED vars
  BY <1>6 DEF TypeOK, vars
<1> QED
  BY <1>1, <1>2, <1>3, <1>4, <1>5, <1>6 DEF Next

(***************************************************************************)
(* The variables keep their types, and no sleep, callback or wait exceeds  *)
(* the time that limits it.                                                *)
(***************************************************************************)
THEOREM DeliveryTypes == Spec => []TypeOK
BY InitTypes, StepTypes, PTL DEF Spec

-----------------------------------------------------------------------------
(* The stop is timely enough                                               *)

TimelyStop == CallbackTicks + SleepTicks < WaitTicks

(***************************************************************************)
(* Before fremsoft_init there is nothing to stop.                          *)
(***************************************************************************)
LEMMA InitStop == Init => ShutdownInv
BY DEF Init, ShutdownInv, FlagIsUp, WaitIsBounded, ThreadIsDone, WaitsOnlyOnce

(***************************************************************************)
(* One case per action. The clock is the interesting one: a tick of the    *)
(* wait is a tick of the callback or of the sleep the thread is in.        *)
(***************************************************************************)
LEMMA StepStop ==
    ASSUME TimelyStop, TypeOK, ShutdownInv, [Next]_vars
    PROVE  ShutdownInv'
<1> USE DEF ShutdownInv, FlagIsUp, WaitIsBounded, ThreadIsDone, WaitsOnlyOnce, HasThread
<1>1. CASE StartThread \/ StartWithoutThread
  BY <1>1 DEF StartThread, StartWithoutThread
<1>2. CASE Application
  BY <1>2 DEF Application, PushEvent, PollEvent, SetCallback, Unload, ProcessExit
<1>3. CASE Deliver
  <2> USE DEF TypeOK, DpcNames, OwnerNames
  <2>1. CASE CheckStop
    BY <2>1 DEF CheckStop
  <2>2. CASE TakeSnapshot \/ Peek
    BY <2>2 DEF TakeSnapshot, Peek
  <2>3. CASE EnterCallback
    BY <2>3 DEF EnterCallback
  <2>4. CASE LeaveCallback
    BY <2>4 DEF LeaveCallback
  <2>5. CASE WakeUp
    BY <2>5 DEF WakeUp
  <2>6. CASE ThreadEnds
    BY <2>6 DEF ThreadEnds
  <2> QED
    BY <1>3, <2>1, <2>2, <2>3, <2>4, <2>5, <2>6 DEF Deliver
<1>4. CASE Shutdown
  <2>1. CASE RaiseStopFlag
    BY <2>1 DEF RaiseStopFlag, TypeOK, DpcNames
  <2>2. CASE EndWait
    BY <2>2 DEF EndWait, TypeOK, DpcNames, TimelyStop
  <2>3. CASE Free \/ EndAtOrphanedLock
    BY <2>3 DEF Free, EndAtOrphanedLock
  <2> QED
    BY <1>4, <2>1, <2>2, <2>3 DEF Shutdown
<1>5. CASE Tick
  BY <1>5 DEF Tick, TypeOK
<1>6. CASE UNCHANGED vars
  BY <1>6 DEF vars
<1> QED
  BY <1>1, <1>2, <1>3, <1>4, <1>5, <1>6 DEF Next

(***************************************************************************)
(* When the application's callback and one Sleep(5) together take less     *)
(* than the 200 ms of WaitForSingleObject, the wait of the shutdown        *)
(* outlasts whatever the delivery thread is in when the stop flag goes up. *)
(***************************************************************************)
THEOREM StopInvariance ==
    ASSUME CallbackTicks + SleepTicks < WaitTicks
    PROVE  Spec => []ShutdownInv
<1>1. TypeOK /\ ShutdownInv /\ [Next]_vars => ShutdownInv'
  BY StepStop DEF TimelyStop
<1> QED
  BY <1>1, InitStop, DeliveryTypes, PTL DEF Spec

(***************************************************************************)
(* Under the same condition the delivery thread has made its last access   *)
(* when scheduler_free runs.  Without it, it need not have: the run        *)
(* "slow_callback" is the counterexample.                                  *)
(***************************************************************************)
THEOREM StopIsTimelyEnough ==
    ASSUME CallbackTicks + SleepTicks < WaitTicks
    PROVE  Spec => []NoUseAfterFree
<1>1. ShutdownInv => NoUseAfterFree
  BY DEF ShutdownInv, ThreadIsDone, NoUseAfterFree
<1> QED
  BY <1>1, StopInvariance, PTL

-----------------------------------------------------------------------------
(* At most one stale call                                                  *)

(***************************************************************************)
(* Once a stale call was made, what the thread holds on its way to the     *)
(* next one is what is in the slot.                                        *)
(***************************************************************************)
StaleInv ==
    /\ stale \in {0, 1}
    /\ stale = 1 /\ dpc \in {"peek", "call"} => snap = slot

(***************************************************************************)
(* No step makes a second stale call possible.                             *)
(***************************************************************************)
LEMMA StaleStep == StaleInv /\ [Next]_vars => StaleInv'
<1> SUFFICES ASSUME StaleInv, [Next]_vars PROVE StaleInv'
  OBVIOUS
<1> USE DEF StaleInv
<1>1. CASE StartThread \/ StartWithoutThread
  BY <1>1 DEF StartThread, StartWithoutThread
<1>2. CASE Application
  <2>1. ASSUME NEW link \in Links, NEW delay \in Delays, PushEvent(link, delay)
        PROVE  StaleInv'
    BY <2>1 DEF PushEvent
  <2>2. ASSUME NEW link \in Links, PollEvent(link) PROVE StaleInv'
    BY <2>2 DEF PollEvent
  <2>3. ASSUME NEW link \in Links, NEW cb \in Callbacks \cup {NoCb}, SetCallback(link, cb)
        PROVE  StaleInv'
    BY <2>3 DEF SetCallback
  <2>4. CASE Unload \/ ProcessExit
    BY <2>4 DEF Unload, ProcessExit, HasThread
  <2> QED
    BY <1>2, <2>1, <2>2, <2>3, <2>4 DEF Application
<1>3. CASE Deliver
  <2>1. CASE TakeSnapshot
    BY <2>1 DEF TakeSnapshot
  <2>2. CASE EnterCallback
    BY <2>2 DEF EnterCallback
  <2>3. CASE CheckStop \/ Peek \/ LeaveCallback
    BY <2>3 DEF CheckStop, Peek, LeaveCallback
  <2>4. CASE WakeUp \/ ThreadEnds
    BY <2>4 DEF WakeUp, ThreadEnds
  <2> QED
    BY <1>3, <2>1, <2>2, <2>3, <2>4 DEF Deliver
<1>4. CASE Shutdown
  BY <1>4 DEF Shutdown, RaiseStopFlag, EndWait, Free, EndAtOrphanedLock
<1>5. CASE Tick \/ UNCHANGED vars
  BY <1>5 DEF Tick, vars
<1> QED
  BY <1>1, <1>2, <1>3, <1>4, <1>5 DEF Next

(***************************************************************************)
(* After a registration the delivery thread calls the callback that was    *)
(* replaced at most once, whatever the timing of callback, sleep and wait. *)
(***************************************************************************)
THEOREM StaleAtMostOnce == Spec => []AtMostOneStaleCall
<1>1. Init => StaleInv
  BY DEF Init, StaleInv
<1>2. StaleInv => AtMostOneStaleCall
  BY DEF StaleInv, AtMostOneStaleCall
<1> QED
  BY <1>1, <1>2, StaleStep, PTL DEF Spec

=============================================================================
