------------------------------ MODULE Delivery ------------------------------
(***************************************************************************)
(* The life of the scheduler (src/src/scheduler.c): its one callback slot, *)
(* the delivery thread that calls it, and the shutdown that stops the      *)
(* thread and frees the scheduler.                                         *)
(*                                                                         *)
(* Pushes and polls are single steps here (Playback.tla takes them apart); *)
(* the delivery thread takes one step per critical section and one for the *)
(* call, which it makes outside the lock.                                  *)
(*                                                                         *)
(* A tick is the 5 ms the delivery thread sleeps.  Steps take no time, and *)
(* a thread that can run does so within the tick: only sleeping, waiting   *)
(* and the application's callback let time pass.                           *)
(***************************************************************************)
EXTENDS EventQueue, FiniteSets

CONSTANTS
    Links,            \* the (hMod, hCLL) pairs the application opened
    Callbacks,        \* the functions it registers
    NoCb,             \* NULL
    Delays,           \* the delays of pushed events, in ticks
    CallbackTicks,    \* the longest the application stays in a callback
    SleepTicks,       \* Sleep(5)
    WaitTicks,        \* WaitForSingleObject(thread, 200)
    CreateMayFail,    \* BOOLEAN: CreateThread may fail
    MaxEvents,        \* bound: events pushed
    MaxRegistrations, \* bound: calls of PDURegisterEventCallback
    MaxTime           \* bound: the clock stops there

ASSUME TimingAssumption ==
    /\ CallbackTicks \in Nat
    /\ SleepTicks \in Nat \ {0}
    /\ WaitTicks \in Nat
    /\ Delays \subseteq Nat

ASSUME CreateAssumption == CreateMayFail \in BOOLEAN

VARIABLES
    now,          \* GetTickCount64
    queue,        \* the list: events [link, due]
    slot,         \* cb, cb_h_mod and cb_h_cll
    stopFlag,     \* stop_flag
    orphaned,     \* the thread inside the lock of the scheduler was killed
    owner,        \* where fremsoft_init and fremsoft_shutdown are
    waited,       \* ticks the shutdown has been waiting
    dpc,          \* where the delivery thread is
    snap,         \* its local copy of the slot
    timer,        \* ticks it has been in Sleep or in the callback
    pushed,       \* history: events pushed
    registered,   \* history: calls of PDURegisterEventCallback
    stale         \* history: calls since the slot last changed that used an older value

vars == <<now, queue, slot, stopFlag, orphaned, owner, waited, dpc, snap, timer,
          pushed, registered, stale>>

shared == <<queue, slot, stopFlag, orphaned>>           \* the scheduler_t

thread == <<dpc, snap, timer>>

history == <<pushed, registered, stale>>

NoSlot == [cb |-> NoCb, link |-> NoCb]

Init ==
    /\ now = 0
    /\ queue = << >>
    /\ slot = NoSlot
    /\ stopFlag = FALSE
    /\ orphaned = FALSE
    /\ owner = "new"
    /\ waited = 0
    /\ dpc = "none"
    /\ snap = NoSlot
    /\ timer = 0
    /\ pushed = 0
    /\ registered = 0
    /\ stale = 0

-----------------------------------------------------------------------------
(* fremsoft_init: scheduler_new, then scheduler_start_delivery_thread      *)

StartThread ==
    /\ owner = "new"
    /\ owner' = "up"
    /\ dpc' = "check"
    /\ UNCHANGED <<now, shared, waited, snap, timer, history>>

(***************************************************************************)
(* CreateThread fails: a warning is logged and initialisation succeeds.    *)
(***************************************************************************)
StartWithoutThread ==
    /\ CreateMayFail
    /\ owner = "new"
    /\ owner' = "up"
    /\ UNCHANGED <<now, shared, waited, thread, history>>

-----------------------------------------------------------------------------
(* The application                                                         *)

PushEvent(link, delay) ==
    /\ owner = "up"
    /\ pushed < MaxEvents
    /\ queue' = Pushed(queue, [link |-> link, due |-> now + delay])
    /\ pushed' = pushed + 1
    /\ UNCHANGED <<now, slot, stopFlag, orphaned, owner, waited, thread, registered, stale>>

PollEvent(link) ==
    /\ owner = "up"
    /\ \E k \in DOMAIN queue :
          IsFirstDue(queue, k, link, now) /\ queue' = Detached(queue, k)
    /\ UNCHANGED <<now, slot, stopFlag, orphaned, owner, waited, thread, history>>

(***************************************************************************)
(* PDURegisterEventCallback.  There is one slot: a registration replaces   *)
(* whatever was there, also when it is for another link.                   *)
(***************************************************************************)
SetCallback(link, cb) ==
    /\ owner = "up"
    /\ registered < MaxRegistrations
    /\ slot' = [cb |-> cb, link |-> link]
    /\ registered' = registered + 1
    /\ stale' = 0
    /\ UNCHANGED <<now, queue, stopFlag, orphaned, owner, waited, thread, pushed>>

-----------------------------------------------------------------------------
(* The delivery thread                                                     *)

CheckStop ==
    /\ dpc = "check"
    /\ dpc' = IF stopFlag THEN "exiting" ELSE "snapshot"
    /\ UNCHANGED <<now, shared, owner, waited, snap, timer, history>>

TakeSnapshot ==
    /\ dpc = "snapshot"
    /\ snap' = slot
    /\ dpc' = IF slot.cb # NoCb THEN "peek" ELSE "sleep"
    /\ UNCHANGED <<now, shared, owner, waited, timer, history>>

(***************************************************************************)
(* In the mutant, the walk gives up at the first node that does not match. *)
(***************************************************************************)
MutHasNews == queue # << >> /\ Due(queue[1], snap.link, now)

HasNews == HasDue(queue, snap.link, now)

Peek ==
    /\ dpc = "peek"
    /\ dpc' = IF HasNews THEN "call" ELSE "sleep"
    /\ UNCHANGED <<now, shared, owner, waited, snap, timer, history>>

EnterCallback ==
    /\ dpc = "call"
    /\ dpc' = "calling"
    /\ stale' = IF snap # slot THEN stale + 1 ELSE stale
    /\ UNCHANGED <<now, shared, owner, waited, snap, timer, pushed, registered>>

(***************************************************************************)
(* Sleep(5) starts anew; in the mutant it goes on from the callback.       *)
(***************************************************************************)
MutSleepFrom == timer

SleepFrom == 0

LeaveCallback ==
    /\ dpc = "calling"
    /\ dpc' = "sleep"
    /\ timer' = SleepFrom
    /\ UNCHANGED <<now, shared, owner, waited, snap, history>>

(***************************************************************************)
(* Mutant: the slot is read once, before the loop.                         *)
(***************************************************************************)
MutWakeWithOldSnapshot ==
    /\ dpc = "sleep"
    /\ timer >= SleepTicks
    /\ dpc' = IF stopFlag THEN "exiting"
              ELSE IF snap.cb # NoCb THEN "peek" ELSE "snapshot"
    /\ timer' = 0
    /\ UNCHANGED <<now, shared, owner, waited, snap, history>>

WakeUp ==
    /\ dpc = "sleep"
    /\ timer >= SleepTicks
    /\ dpc' = "check"
    /\ timer' = 0
    /\ snap' = NoSlot
    /\ UNCHANGED <<now, shared, owner, waited, history>>

(***************************************************************************)
(* External.  A thread of the process ends under the loader lock, which    *)
(* DllMain holds from the moment fremsoft_shutdown starts; its handle is   *)
(* not signalled before.                                                   *)
(***************************************************************************)
ThreadEnds ==
    /\ dpc = "exiting"
    /\ owner \notin {"stopping", "waiting", "freeing"}
    /\ dpc' = "ended"
    /\ UNCHANGED <<now, shared, owner, waited, snap, timer, history>>

-----------------------------------------------------------------------------
(* fremsoft_shutdown, from DllMain                                         *)

HasThread == dpc # "none"

(***************************************************************************)
(* The application unloads the DLL while its threads live on ...           *)
(***************************************************************************)
Unload ==
    /\ owner = "up"
    /\ owner' = "stopping"
    /\ UNCHANGED <<now, shared, waited, thread, history>>

(***************************************************************************)
(* ... or the process exits: every other thread is gone before DllMain is  *)
(* called, and one of them, the delivery thread or one that was pushing,   *)
(* polling or registering, may have been inside the lock.                  *)
(***************************************************************************)
ProcessExit ==
    /\ owner = "up"
    /\ owner' = "stopping"
    /\ dpc' = IF HasThread THEN "ended" ELSE "none"
    /\ orphaned' \in BOOLEAN
    /\ UNCHANGED <<now, queue, slot, stopFlag, waited, snap, timer, history>>

MutRaised == stopFlag

Raised == TRUE

RaiseStopFlag ==
    /\ owner = "stopping"
    /\ IF HasThread
       THEN owner' = "waiting" /\ stopFlag' = Raised
       ELSE owner' = "freeing" /\ stopFlag' = stopFlag
    /\ UNCHANGED <<now, queue, slot, orphaned, waited, thread, history>>

(***************************************************************************)
(* The wait ends when the thread has, or after 200 ms; the result is not   *)
(* looked at.  In the mutant it is WaitForSingleObject(thread, INFINITE).  *)
(***************************************************************************)
HasEnded == dpc = "ended"

MutWaitIsOver == HasEnded

WaitIsOver == HasEnded \/ waited >= WaitTicks

EndWait ==
    /\ owner = "waiting"
    /\ WaitIsOver
    /\ owner' = "freeing"
    /\ UNCHANGED <<now, shared, waited, thread, history>>

Free ==
    /\ owner = "freeing"
    /\ ~ orphaned
    /\ queue' = << >>
    /\ owner' = "freed"
    /\ UNCHANGED <<now, slot, stopFlag, orphaned, waited, thread, history>>

(***************************************************************************)
(* External.  scheduler_free enters a lock whose owner is gone: the system *)
(* ends the exiting process there, and nothing is freed.                   *)
(***************************************************************************)
EndAtOrphanedLock ==
    /\ owner = "freeing"
    /\ orphaned
    /\ owner' = "freed"
    /\ UNCHANGED <<now, shared, waited, thread, history>>

-----------------------------------------------------------------------------

(***************************************************************************)
(* A tick passes when every thread sleeps or waits with time left, or is   *)
(* in the application's code.                                              *)
(***************************************************************************)
Tick ==
    /\ owner \in {"up", "waiting"}
    /\ owner = "waiting" => waited < WaitTicks /\ ~ HasEnded
    /\ \/ dpc \in {"none", "exiting", "ended"}
       \/ dpc = "calling" /\ timer < CallbackTicks
       \/ dpc = "sleep" /\ timer < SleepTicks
    /\ now' = IF now < MaxTime THEN now + 1 ELSE now
    /\ waited' = IF owner = "waiting" THEN waited + 1 ELSE waited
    /\ timer' = IF dpc \in {"calling", "sleep"} THEN timer + 1 ELSE timer
    /\ UNCHANGED <<shared, owner, dpc, snap, history>>

Deliver ==
    \/ CheckStop
    \/ TakeSnapshot
    \/ Peek
    \/ EnterCallback
    \/ LeaveCallback
    \/ WakeUp
    \/ ThreadEnds

Shutdown ==
    \/ RaiseStopFlag
    \/ EndWait
    \/ Free
    \/ EndAtOrphanedLock

Application ==
    \/ \E link \in Links, delay \in Delays : PushEvent(link, delay)
    \/ \E link \in Links : PollEvent(link)
    \/ \E link \in Links, cb \in Callbacks \cup {NoCb} : SetCallback(link, cb)
    \/ Unload
    \/ ProcessExit

Next ==
    \/ StartThread
    \/ StartWithoutThread
    \/ Application
    \/ Deliver
    \/ Shutdown
    \/ Tick

Spec == Init /\ [][Next]_vars

(***************************************************************************)
(* The two threads of the code run, and time passes.  The application owes *)
(* nothing: it need not poll, register or unload.                          *)
(***************************************************************************)
FairSpec == Spec /\ WF_vars(Deliver) /\ WF_vars(Shutdown) /\ WF_vars(Tick)

-----------------------------------------------------------------------------
(* Properties                                                              *)

Slots == [cb : Callbacks \cup {NoCb}, link : Links \cup {NoCb}]

DpcNames == {"none", "check", "snapshot", "peek", "call", "calling", "sleep",
             "exiting", "ended"}

OwnerNames == {"new", "up", "stopping", "waiting", "freeing", "freed"}

(***************************************************************************)
(* Type invariant: the variables have their types, and no thread stays in  *)
(* Sleep, in the callback or in the wait of the shutdown longer than the   *)
(* time that limits it (scheduler.c, delivery_thread_proc and              *)
(* scheduler_stop_delivery_thread).                                        *)
(***************************************************************************)
TypeOK ==
    /\ now \in Nat
    /\ queue \in Seq([link : Links, due : Nat])
    /\ slot \in Slots
    /\ snap \in Slots
    /\ stopFlag \in BOOLEAN
    /\ orphaned \in BOOLEAN
    /\ owner \in OwnerNames
    /\ dpc \in DpcNames
    /\ owner = "new" => dpc = "none"
    /\ waited \in 0 .. WaitTicks
    /\ timer \in Nat
    /\ dpc = "calling" => timer <= CallbackTicks
    /\ dpc = "sleep" => timer <= SleepTicks
    /\ dpc \in {"none", "check", "snapshot", "peek", "call"} => timer = 0
    /\ pushed \in Nat
    /\ registered \in Nat
    /\ stale \in Nat

(***************************************************************************)
(* No use after free: once scheduler_free has run, the delivery thread     *)
(* never enters the lock again or reads the scheduler (scheduler.c:123,    *)
(* 124, 135).  Nothing but the 200 ms wait of the shutdown stands between  *)
(* the two, and the wait's result is ignored.                              *)
(***************************************************************************)
NoUseAfterFree ==
    owner = "freed" => dpc \notin {"check", "snapshot", "peek"}

(***************************************************************************)
(* The callback is read under the lock and called outside it, so a call    *)
(* may follow PDURegisterEventCallback with the callback it replaced or    *)
(* removed.  That happens at most once after a registration: the next      *)
(* round of the loop reads the slot again (scheduler.c:124-128).           *)
(***************************************************************************)
AtMostOneStaleCall == stale <= 1

(***************************************************************************)
(* fremsoft_shutdown, once begun, returns (scheduler.c:163): DllMain holds *)
(* the loader lock that the delivery thread needs to end, so a shutdown    *)
(* that waited for the thread without a timeout would never return.        *)
(***************************************************************************)
ShutdownCompletes == owner = "stopping" ~> owner = "freed"

Listening(link) == slot.cb # NoCb /\ slot.link = link

(***************************************************************************)
(* An event that is due on the link of the registered callback is          *)
(* announced to that link, unless it is polled, the callback is replaced   *)
(* or removed, or the DLL is unloaded first (scheduler.h:9-12).            *)
(***************************************************************************)
DueEventIsAnnounced ==
    \A link \in Links :
        owner = "up" /\ HasThread /\ Listening(link) /\ HasDue(queue, link, now)
            ~> \/ dpc = "calling" /\ snap.link = link
               \/ ~ HasDue(queue, link, now)
               \/ ~ Listening(link)
               \/ owner # "up"

(***************************************************************************)
(* Why NoUseAfterFree holds when the callback and the sleep together are   *)
(* shorter than the wait: from the moment the stop flag is up, the thread  *)
(* is at most the rest of one callback and one sleep from its last read of *)
(* the scheduler (scheduler.c:160-166).  The inductive invariant:          *)
(*  - the flag is up whenever the shutdown waits for, or freed without     *)
(*    waiting for, a thread that runs;                                     *)
(*  - while it waits, the ticks waited are bounded by where the thread is; *)
(*  - after the wait the thread has made its last read.                    *)
(***************************************************************************)
FlagIsUp ==
    owner \in {"waiting", "freeing", "freed"} /\ HasThread => stopFlag

WaitIsBounded ==
    owner = "waiting" =>
        /\ dpc \in {"snapshot", "peek", "call"} => waited = 0
        /\ dpc = "calling" => waited <= timer
        /\ dpc = "sleep" => waited <= CallbackTicks + timer
        /\ dpc = "check" => waited <= CallbackTicks + SleepTicks

ThreadIsDone ==
    owner \in {"freeing", "freed"} => dpc \in {"none", "exiting", "ended"}

WaitsOnlyOnce == owner \in {"new", "up", "stopping"} => waited = 0

ShutdownInv ==
    /\ FlagIsUp
    /\ WaitIsBounded
    /\ ThreadIsDone
    /\ WaitsOnlyOnce

=============================================================================
