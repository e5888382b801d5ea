-------------------------------- MODULE Shim --------------------------------
(***************************************************************************)
(* The life of the DLL and the routing of its exports: what DllMain sets   *)
(* up (src/shim/cstech2win/src/dllmain.c, fremsoft_init of                 *)
(* src/src/fremsoft.c), and which side, FremSoft's engine or the vendor's  *)
(* DLL, each export goes to from then on (wrappers.c, forwarders.c).       *)
(*                                                                         *)
(* The engine is reduced to the handles it accepted and the events it      *)
(* holds, or does not hold: Playback.tla and Delivery.tla look inside.     *)
(* The vendor's DLL is external and may answer what it is asked.           *)
(***************************************************************************)
EXTENDS Integers

CONSTANTS
    Cops,             \* ComPrimitives the application may start
    Registry,         \* the modes the registry may hold
    VendorMayBeAway,  \* BOOLEAN: CSTech2Win_real.dll may be missing
    MemoryMayFail     \* BOOLEAN: allocations of the engine may fail

Modes == {"passthrough", "record", "playback", "standalone"}

Serving == {"playback", "standalone"}     \* mode >= FREMSOFT_MODE_PLAYBACK

ASSUME RegistryAssumption == Registry \subseteq Modes

ASSUME ShimFlagAssumption == VendorMayBeAway \in BOOLEAN /\ MemoryMayFail \in BOOLEAN

VARIABLES
    phase,        \* "down", "up", "gone", or how the process came to grief
    mode,         \* g_mode
    vendor,       \* g_hRealDll # NULL: the g_real_ pointers are set
    recording,    \* g_recording # NULL
    scheduler,    \* g_scheduler # NULL
    constructed,  \* the application has called PDUConstruct
    side,         \* side[c]: which side accepted ComPrimitive c
    queued,       \* the ComPrimitives whose reply waits on their side
    items,        \* those whose reply the application holds as an item
    listener,     \* the side that knows the application's callback
    misfreed      \* history: items freed by the side that did not allocate them

vars == <<phase, mode, vendor, recording, scheduler, constructed, side, queued,
          items, listener, misfreed>>

dll == <<mode, vendor, recording, scheduler>>

traffic == <<side, queued, items, listener, misfreed>>

Init ==
    /\ phase = "down"
    /\ mode = "passthrough"
    /\ vendor = FALSE
    /\ recording = FALSE
    /\ scheduler = FALSE
    /\ constructed = FALSE
    /\ side = [c \in Cops |-> "none"]
    /\ queued = {}
    /\ items = {}
    /\ listener = "none"
    /\ misfreed = {}

-----------------------------------------------------------------------------
(* DLL_PROCESS_ATTACH                                                      *)

(***************************************************************************)
(* load_real_dll is skipped in standalone mode only.  When the file is not *)
(* there, a line is logged and every pointer stays NULL.                   *)
(***************************************************************************)
LoadVendor(reg, found) == vendor' = (reg # "standalone" /\ found)

(***************************************************************************)
(* fremsoft_init.  Without a recording the mode falls back to passthrough, *)
(* whether or not there is anything to pass through to; without a          *)
(* scheduler it stays.  DllMain ignores the result.                        *)
(***************************************************************************)
MutStartEngine(reg, found, memory) ==
    /\ recording' = (reg \in Serving /\ found)
    /\ mode' = reg
    /\ scheduler' = (recording' /\ memory)

StartEngine(reg, found, memory) ==
    /\ recording' = (reg \in Serving /\ found)
    /\ mode' = IF reg \in Serving /\ ~ found THEN "passthrough" ELSE reg
    /\ scheduler' = (recording' /\ memory)

Attach(reg) ==
    /\ phase = "down"
    /\ phase' = "up"
    /\ \E dllFound, recFound, memory \in BOOLEAN :
          /\ dllFound \/ VendorMayBeAway
          /\ memory \/ MemoryMayFail
          /\ LoadVendor(reg, dllFound)
          /\ StartEngine(reg, recFound, memory)
    /\ UNCHANGED <<constructed, traffic>>

-----------------------------------------------------------------------------
(* The exports                                                             *)

ServedByEngine == mode \in Serving

(***************************************************************************)
(* A call through a g_real_ pointer that was never set.                    *)
(***************************************************************************)
CallThroughNull ==
    /\ ~ vendor
    /\ phase' = "null_call"
    /\ UNCHANGED <<dll, constructed, traffic>>

(***************************************************************************)
(* The application's first call.  PDUConstruct, PDUIoCtl, PDUSetComParam   *)
(* and the forwarders never ask for the mode.                              *)
(***************************************************************************)
PDUConstruct ==
    /\ phase = "up"
    /\ ~ constructed
    /\ \/ /\ vendor
          /\ constructed' = TRUE
          /\ UNCHANGED <<phase, dll, traffic>>
       \/ CallThroughNull

MutRegisterWithVendor ==
    /\ phase = "up"
    /\ constructed
    /\ listener' = "vendor"
    /\ UNCHANGED <<phase, dll, constructed, side, queued, items, misfreed>>

PDURegisterEventCallback ==
    /\ phase = "up"
    /\ constructed
    /\ IF ServedByEngine
       THEN listener' = IF scheduler THEN "engine" ELSE listener
       ELSE listener' = "vendor"
    /\ UNCHANGED <<phase, dll, constructed, side, queued, items, misfreed>>

(***************************************************************************)
(* A request gets a handle and PDU_STATUS_NOERROR on either side, but not  *)
(* always a reply.  The engine queues none when it has no scheduler to     *)
(* push to, for a ComPrimitive that is not SENDRECV, for a request too     *)
(* short to hold a service, for an exchange recorded without replies, and  *)
(* when the buffer or the node of the event cannot be allocated: Playback  *)
(* has these cases apart.                                                  *)
(***************************************************************************)
PDUStartComPrimitive(c) ==
    /\ phase = "up"
    /\ constructed
    /\ side[c] = "none"
    /\ side' = [side EXCEPT ![c] = IF ServedByEngine THEN "engine" ELSE "vendor"]
    /\ \/ queued' = queued
       \/ (ServedByEngine => scheduler) /\ queued' = queued \cup {c}
    /\ UNCHANGED <<phase, dll, constructed, items, listener, misfreed>>

(***************************************************************************)
(* A poll reaches one side, and gets a reply only if that side holds one.  *)
(* The engine takes the event off its list before it allocates the item:   *)
(* when that fails, the reply is lost.                                     *)
(***************************************************************************)
MutPolledSide == IF mode = "standalone" THEN "engine" ELSE "vendor"

PolledSide == IF ServedByEngine THEN "engine" ELSE "vendor"

PDUGetEventItem(c) ==
    /\ phase = "up"
    /\ constructed
    /\ c \in queued
    /\ side[c] = PolledSide
    /\ queued' = queued \ {c}
    /\ \/ items' = items \cup {c}
       \/ ServedByEngine /\ MemoryMayFail /\ items' = items
    /\ UNCHANGED <<phase, dll, constructed, side, listener, misfreed>>

(***************************************************************************)
(* The export is a forwarder: the vendor frees every item, also the ones   *)
(* fremsoft_PDUGetEventItem got from its own heap.  Freeing a block of     *)
(* another heap is undefined: the process may live on or end here.         *)
(***************************************************************************)
PDUDestroyItem(c) ==
    /\ phase = "up"
    /\ constructed
    /\ c \in items
    /\ items' = items \ {c}
    /\ IF side[c] = "vendor"
       THEN phase' = phase /\ misfreed' = misfreed
       ELSE phase' \in {phase, "heap_fault"} /\ misfreed' = misfreed \cup {c}
    /\ UNCHANGED <<dll, constructed, side, queued, listener>>

(***************************************************************************)
(* DLL_PROCESS_DETACH: fremsoft_shutdown, then FreeLibrary.                *)
(***************************************************************************)
Detach ==
    /\ phase = "up"
    /\ phase' = "gone"
    /\ vendor' = FALSE
    /\ recording' = FALSE
    /\ scheduler' = FALSE
    /\ UNCHANGED <<mode, constructed, traffic>>

-----------------------------------------------------------------------------

Poll == \E c \in Cops : PDUGetEventItem(c)

Next ==
    \/ \E reg \in Registry : Attach(reg)
    \/ PDUConstruct
    \/ PDURegisterEventCallback
    \/ \E c \in Cops : PDUStartComPrimitive(c)
    \/ Poll
    \/ \E c \in Cops : PDUDestroyItem(c)
    \/ Detach

Spec == Init /\ [][Next]_vars

(***************************************************************************)
(* The application polls for as long as it runs.                           *)
(***************************************************************************)
FairSpec == Spec /\ WF_vars(Poll)

-----------------------------------------------------------------------------
(* Properties                                                              *)

Sides == {"none", "engine", "vendor"}

(***************************************************************************)
(* Type invariant, with what fremsoft_init owes the wrappers: while the    *)
(* DLL is up in a serving mode there is a recording to serve from, and     *)
(* there is never a scheduler without one (fremsoft.c:143-157).            *)
(***************************************************************************)
TypeOK ==
    /\ phase \in {"down", "up", "gone", "null_call", "heap_fault"}
    /\ mode \in Modes
    /\ vendor \in BOOLEAN
    /\ recording \in BOOLEAN
    /\ scheduler \in BOOLEAN
    /\ constructed \in BOOLEAN
    /\ side \in [Cops -> Sides]
    /\ queued \subseteq Cops
    /\ items \subseteq Cops
    /\ listener \in Sides
    /\ misfreed \subseteq Cops
    /\ phase = "up" /\ ServedByEngine => recording
    /\ scheduler => recording

(***************************************************************************)
(* The callback is registered on the side where the replies are queued:    *)
(* the wrappers of PDURegisterEventCallback and PDUStartComPrimitive       *)
(* decide alike (wrappers.c:158, 338).                                     *)
(***************************************************************************)
CallbackFollowsReplies ==
    listener # "none" => \A c \in queued : side[c] = listener

(***************************************************************************)
(* No reply is stranded: one that is queued, on either side, is taken from *)
(* there as long as the application polls and the DLL stays up.  The polls *)
(* go where the request went (wrappers.c:158, 209), also after a missing   *)
(* recording has turned playback into passthrough (fremsoft.c:149).        *)
(***************************************************************************)
NoReplyIsStranded ==
    \A c \in Cops : c \in queued ~> c \notin queued \/ phase # "up"

(***************************************************************************)
(* An item is freed by the side that allocated it (fremsoft.c:365,         *)
(* forwarders.c:90).                                                       *)
(***************************************************************************)
ItemsFreedByTheirAllocator == misfreed = {}

=============================================================================
