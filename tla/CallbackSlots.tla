--------------------------- MODULE CallbackSlots ---------------------------
(***************************************************************************)
(* PDURegisterEventCallback of the shim in the modes that forward it       *)
(* (src/shim/cstech2win/src/wrappers.c): the table of registered           *)
(* callbacks, the critical section that guards it, and the initialisation  *)
(* of that critical section by whoever comes first.                        *)
(*                                                                         *)
(* Threads of the application register concurrently.  The flag that says   *)
(* the critical section exists is read and written outside any lock, so    *)
(* each access is a step of its own.  So are reading g_cb_count, writing   *)
(* it back and filling the slot: only the lock holds them together.        *)
(***************************************************************************)
EXTENDS Integers

CONSTANTS
    Threads,       \* threads of the application
    MaxSlots,      \* MAX_CB_SLOTS
    FirstAlone,    \* BOOLEAN: no call begins during the very first one
    MaxCalls       \* bound: registrations

ASSUME SlotsAssumption == MaxSlots \in Nat \ {0} /\ MaxCalls \in Nat

ASSUME ThreadsAssumption == Threads \cap {"raw", "free", "stuck"} = {}

ASSUME FirstAssumption == FirstAlone \in BOOLEAN

Cbs == 1 .. MaxCalls      \* the n-th registration passes its own callback ...
Null == 0                 \* ... or NULL
Empty == 0                \* a slot nothing was stored in
NoSlot == -1

VARIABLES
    inited,      \* g_cb_lock_initialized
    lock,        \* g_cb_lock: "raw", "free", the thread inside, or "stuck"
    count,       \* g_cb_count
    table,       \* real_cb of each slot, one past the end included
    pc,          \* pc[t]: where thread t is
    cb,          \* cb[t]: the callback it registers
    slot,        \* slot[t]: its local variable slot
    begun,       \* history: calls begun
    done         \* history: <<slot, callback>> of the calls that took a slot

vars == <<inited, lock, count, table, pc, cb, slot, begun, done>>

Init ==
    /\ inited = FALSE
    /\ lock = "raw"
    /\ count = 0
    /\ table = [s \in 0 .. MaxSlots |-> Empty]
    /\ pc = [t \in Threads |-> "idle"]
    /\ cb = [t \in Threads |-> Null]
    /\ slot = [t \in Threads |-> NoSlot]
    /\ begun = 0
    /\ done = {}

Goto(t, label) == pc' = [pc EXCEPT ![t] = label]

-----------------------------------------------------------------------------
(* The call                                                                *)

(***************************************************************************)
(* A call begins and reads the flag.                                       *)
(***************************************************************************)
Begin(t, f) ==
    /\ pc[t] = "idle"
    /\ begun < MaxCalls
    /\ FirstAlone /\ ~ inited => \A u \in Threads : pc[u] = "idle"
    /\ begun' = begun + 1
    /\ cb' = [cb EXCEPT ![t] = f]
    /\ slot' = [slot EXCEPT ![t] = NoSlot]
    /\ Goto(t, IF inited THEN "lock" ELSE "init")
    /\ UNCHANGED <<inited, lock, count, table, done>>

(***************************************************************************)
(* InitializeCriticalSection: whatever the lock was, it is free now.       *)
(***************************************************************************)
InitLock(t) ==
    /\ pc[t] = "init"
    /\ lock' = "free"
    /\ Goto(t, "flag")
    /\ UNCHANGED <<inited, count, table, cb, slot, begun, done>>

SetFlag(t) ==
    /\ pc[t] = "flag"
    /\ inited' = TRUE
    /\ Goto(t, "lock")
    /\ UNCHANGED <<lock, count, table, cb, slot, begun, done>>

Enter(t) ==
    /\ pc[t] = "lock"
    /\ lock = "free"
    /\ lock' = t
    /\ Goto(t, "claim")
    /\ UNCHANGED <<inited, count, table, cb, slot, begun, done>>

(***************************************************************************)
(* Room in the table is looked for under the lock; a NULL callback takes   *)
(* no slot, and neither does one that finds the table full.                *)
(***************************************************************************)
MutRoomLeft == count <= MaxSlots

RoomLeft == count < MaxSlots

Claim(t) ==
    /\ pc[t] = "claim"
    /\ RoomLeft /\ cb[t] # Null
    /\ slot' = [slot EXCEPT ![t] = count]
    /\ Goto(t, "count")
    /\ UNCHANGED <<inited, lock, count, table, cb, begun, done>>

(***************************************************************************)
(* In the mutant, a call without a slot returns with the lock.             *)
(***************************************************************************)
MutWayOut == "forward"

WayOut == "leave"

PassOver(t) ==
    /\ pc[t] = "claim"
    /\ ~ (RoomLeft /\ cb[t] # Null)
    /\ Goto(t, WayOut)
    /\ UNCHANGED <<inited, lock, count, table, cb, slot, begun, done>>

(***************************************************************************)
(* The count moves past the slot before that is filled; in the mutant it   *)
(* stays.                                                                  *)
(***************************************************************************)
MutCounted(t) == count

Counted(t) == slot[t] + 1

Count(t) ==
    /\ pc[t] = "count"
    /\ count' = Counted(t)
    /\ Goto(t, "store")
    /\ UNCHANGED <<inited, lock, table, cb, slot, begun, done>>

Store(t) ==
    /\ pc[t] = "store"
    /\ table' = [table EXCEPT ![slot[t]] = cb[t]]
    /\ Goto(t, "leave")
    /\ UNCHANGED <<inited, lock, count, cb, slot, begun, done>>

(***************************************************************************)
(* LeaveCriticalSection does not check who owns the lock.  A thread that   *)
(* does not, because the lock was initialised again under it, leaves it in *)
(* a state nobody promised: as it was, free, or unusable for ever.         *)
(***************************************************************************)
Leave(t) ==
    /\ pc[t] = "leave"
    /\ IF lock = t THEN lock' = "free" ELSE lock' \in {lock, "free", "stuck"}
    /\ Goto(t, "forward")
    /\ UNCHANGED <<inited, count, table, cb, slot, begun, done>>

(***************************************************************************)
(* The caller's own callback is registered with the vendor DLL, slot or    *)
(* not: the trampolines are disabled.                                      *)
(***************************************************************************)
Forward(t) ==
    /\ pc[t] = "forward"
    /\ done' = IF slot[t] # NoSlot THEN done \cup {<<slot[t], cb[t]>>} ELSE done
    /\ Goto(t, "idle")
    /\ UNCHANGED <<inited, lock, count, table, cb, slot, begun>>

Continue(t) ==
    \/ InitLock(t)
    \/ SetFlag(t)
    \/ Enter(t)
    \/ Claim(t)
    \/ PassOver(t)
    \/ Count(t)
    \/ Store(t)
    \/ Leave(t)
    \/ Forward(t)

Next ==
    \E t \in Threads :
        \/ \E f \in {Null, begun + 1} : Begin(t, f)
        \/ Continue(t)

Spec == Init /\ [][Next]_vars

(***************************************************************************)
(* A thread inside a call runs on.  The number of calls is finite, so the  *)
(* critical section need not be fair.                                      *)
(***************************************************************************)
FairSpec == Spec /\ \A t \in Threads : WF_vars(Continue(t))

-----------------------------------------------------------------------------
(* Properties                                                              *)

Labels == {"idle", "init", "flag", "lock", "claim", "count", "store", "leave", "forward"}

Inside(t) == pc[t] \in {"claim", "count", "store", "leave"}

(***************************************************************************)
(* Type invariant of the table and of the calls around it: in particular   *)
(* g_cb_count never passes MAX_CB_SLOTS, nor a slot its last index.        *)
(***************************************************************************)
TypeOK ==
    /\ inited \in BOOLEAN
    /\ lock \in {"raw", "free", "stuck"} \cup Threads
    /\ count \in 0 .. MaxSlots
    /\ table \in [0 .. MaxSlots -> Cbs \cup {Empty}]
    /\ pc \in [Threads -> Labels]
    /\ cb \in [Threads -> Cbs \cup {Null}]
    /\ slot \in [Threads -> {NoSlot} \cup 0 .. MaxSlots - 1]
    /\ begun \in 0 .. MaxCalls
    /\ done \subseteq (0 .. MaxSlots - 1) \X Cbs

(***************************************************************************)
(* The table still holds every callback that was given a slot: no two      *)
(* registrations ever share one (wrappers.c, g_cb_slots), however they     *)
(* interleave.                                                             *)
(***************************************************************************)
NoRegistrationLost == \A r \in done : table[r[1]] = r[2]

(***************************************************************************)
(* A registration that has begun returns: no path through the call leaves  *)
(* the critical section locked (wrappers.c, the table full or cb NULL).    *)
(***************************************************************************)
EveryRegistrationReturns == \A t \in Threads : pc[t] # "idle" ~> pc[t] = "idle"

(***************************************************************************)
(* Why no registration is lost when the first call is alone: the inductive *)
(* invariant.  The lock is initialised once, before anybody can be inside, *)
(* so at most one thread is; a filled slot is below the count, and the     *)
(* thread inside counts, then fills, the first free one, which no other    *)
(* call was given.                                                         *)
(***************************************************************************)
LockWorks ==
    /\ \A t \in Threads : Inside(t) <=> lock = t
    /\ \A t \in Threads : pc[t] \in {"lock", "forward"} \/ Inside(t) => inited
    /\ \A t \in Threads : pc[t] \in {"init", "flag"} =>
          ~ inited /\ \A u \in Threads : u # t => pc[u] = "idle"
    /\ lock # "stuck"

TableIsFilled ==
    /\ \A t \in Threads : pc[t] \in {"init", "flag", "lock", "claim"} => slot[t] = NoSlot
    /\ \A t \in Threads : pc[t] = "count" =>
          slot[t] = count /\ count < MaxSlots /\ cb[t] # Null
    /\ \A t \in Threads : pc[t] = "store" =>
          /\ slot[t] \in 0 .. count - 1 /\ cb[t] # Null
          /\ \A u \in Threads : pc[u] = "forward" => slot[u] # slot[t]
          /\ \A r \in done : r[1] # slot[t]
    /\ \A t \in Threads : pc[t] \in {"leave", "forward"} /\ slot[t] # NoSlot =>
          slot[t] < count /\ table[slot[t]] = cb[t] /\ cb[t] # Null
    /\ \A r \in done : r[1] < count /\ table[r[1]] = r[2]

SlotsInv == TypeOK /\ LockWorks /\ TableIsFilled

=============================================================================
