------------------------------ MODULE GhostCar ------------------------------
(***************************************************************************)
(* What playback promises the diagnostic application, without threads, a   *)
(* queue or memory: a car that answers from a script.                      *)
(*                                                                         *)
(* A request is accepted at some time on some link.  Each reply of its     *)
(* script is handed over at most once, on that link, never before the      *)
(* request's time plus the recorded offset of the reply and, when the link *)
(* has a single reader, in recorded order.                                 *)
(*                                                                         *)
(* Playback.tla shows that the code of src/src/fremsoft.c and              *)
(* src/src/scheduler.c implements this specification.                      *)
(***************************************************************************)
EXTENDS Integers, Sequences

CONSTANTS
    Cops,       \* the handles given to ComPrimitives
    Links,      \* the (module, link) pairs the application opened
    Requests,   \* the requests it may send
    Replies,    \* [Requests -> Nat]: how many replies each one has
    Offset,     \* Offset[r][i]: when reply i of r is due, after the request
    NoCall,     \* no request was accepted under this handle
    Ordered     \* BOOLEAN: each link has one reader at a time

VARIABLES
    clock,      \* the tick counter of the machine
    calls,      \* [Cops -> request accepted under the handle, or NoCall]
    heard       \* [Cops -> replies handed over, in that order]

vars == <<clock, calls, heard>>

-----------------------------------------------------------------------------

Init ==
    /\ clock = 0
    /\ calls = [c \in Cops |-> NoCall]
    /\ heard = [c \in Cops |-> << >>]

Accept(c, link, req) ==
    /\ calls[c] = NoCall
    /\ calls' = [calls EXCEPT ![c] = [link |-> link, req |-> req, at |-> clock]]
    /\ UNCHANGED <<clock, heard>>

IsHeard(c, i) == \E n \in DOMAIN heard[c] : heard[c][n].idx = i

(***************************************************************************)
(* A reply comes once, and after those before it in the script.  It need   *)
(* not be the next one: memory may run out, and replies be lost.           *)
(***************************************************************************)
MayFollow(c, i) ==
    /\ ~ IsHeard(c, i)
    /\ Ordered => \A n \in DOMAIN heard[c] : heard[c][n].idx < i

Deliver(c, i) ==
    /\ calls[c] # NoCall
    /\ i \in 1 .. Replies[calls[c].req]
    /\ calls[c].at + Offset[calls[c].req][i] <= clock
    /\ MayFollow(c, i)
    /\ heard' = [heard EXCEPT ![c] = Append(@, [link |-> calls[c].link, idx |-> i])]
    /\ UNCHANGED <<clock, calls>>

Tick ==
    /\ clock' = clock + 1
    /\ UNCHANGED <<calls, heard>>

Next ==
    \/ \E c \in Cops, link \in Links, req \in Requests : Accept(c, link, req)
    \/ \E c \in Cops : calls[c] # NoCall
                       /\ \E i \in 1 .. Replies[calls[c].req] : Deliver(c, i)
    \/ Tick

Spec == Init /\ [][Next]_vars

=============================================================================
