------------------------------ MODULE Playback ------------------------------
(***************************************************************************)
(* The playback data path: PDUStartComPrimitive and PDUGetEventItem of     *)
(* src/src/fremsoft.c over the event list of src/src/scheduler.c.          *)
(*                                                                         *)
(* Every thread of the application may be inside one of the two calls, and *)
(* a call is as many steps as it has moments other threads can see: the    *)
(* handle is taken, the recording is consulted and the clock read, then    *)
(* each reply is pushed and logged in turn; a poll reads the clock, takes  *)
(* the first due event, and builds the item it hands over.                 *)
(*                                                                         *)
(* A reply buffer is named by the handle and the position of the reply it  *)
(* carries: the code allocates exactly one per reply.                      *)
(***************************************************************************)
EXTENDS EventQueue, FiniteSets

CONSTANTS
    Threads,          \* threads of the application that call the API
    Links,            \* the (hMod, hCLL) pairs it opened
    Requests,         \* the requests it may send
    Recorded,         \* those the recording has an exchange for
    Delay,            \* [Recorded -> delay of each reply after the one before]
    NrcDelay,         \* delay of the negative reply to an unknown request
    NoCall,           \* no request was accepted under this handle
    NoJob,            \* the thread is in no call
    AllocMayFail,     \* BOOLEAN: malloc and calloc may return NULL
    OneReader,        \* BOOLEAN: a link is polled by one thread at a time
    MaxCops,          \* bound: handles given out
    Horizon,          \* bound: last time a request is looked up
    MaxTime           \* bound: last time

(***************************************************************************)
(* The delays of the replies a request will be given: its recorded ones,   *)
(* or the one delay of the NRC.                                            *)
(***************************************************************************)
Script(req) == IF req \in Recorded THEN Delay[req] ELSE <<NrcDelay>>

Replies == [req \in Requests |-> Len(Script(req))]

ASSUME ScriptAssumption ==
    /\ Recorded \subseteq Requests
    /\ NrcDelay \in Nat
    /\ Delay \in [Recorded -> Seq(Nat)]

(***************************************************************************)
(* Offset[req][i]: how long after its request reply i is due, the sum of   *)
(* the first i delays.                                                     *)
(***************************************************************************)
Offset ==
    [req \in Requests |->
        LET sum[i \in 0 .. Len(Script(req))] ==
                IF i = 0 THEN 0 ELSE sum[i - 1] + Script(req)[i]
        IN  sum]

ASSUME FlagAssumption == AllocMayFail \in BOOLEAN /\ OneReader \in BOOLEAN

ASSUME BoundAssumption ==
    MaxCops \in Nat /\ Horizon \in Nat /\ MaxTime \in Nat

Cops == 1 .. MaxCops

Call  == [link : Links, req : Requests, at : Nat]
Event == [cop : Cops, idx : Nat, link : Links, due : Nat]
Frame == [cop : Cops, link : Links, req : Requests, base : Nat, cum : Nat, i : Nat]
Poll  == [link : Links, at : Nat]
Item  == [link : Links, cop : Cops, idx : Nat]

ASSUME NullAssumption == NoCall \notin Call /\ NoJob \notin Frame \cup Poll \cup Item

VARIABLES
    now,        \* GetTickCount64
    queue,      \* the scheduler's list
    nextCop,    \* g_next_h_cop: handles given out so far
    pc,         \* pc[t]: where thread t is
    job,        \* job[t]: the locals of the call t is in
    freed,      \* reply buffers given back to the allocator
    calls,      \* history: what was accepted under each handle, and when
    heard,      \* history: items handed over for each handle, in order
    lost        \* history: replies an allocation failure swallowed

vars == <<now, queue, nextCop, pc, job, freed, calls, heard, lost>>

Init ==
    /\ now = 0
    /\ queue = << >>
    /\ nextCop = 0
    /\ pc = [t \in Threads |-> "idle"]
    /\ job = [t \in Threads |-> NoJob]
    /\ freed = {}
    /\ calls = [c \in Cops |-> NoCall]
    /\ heard = [c \in Cops |-> << >>]
    /\ lost = {}

-----------------------------------------------------------------------------
(* PDUStartComPrimitive                                                    *)

Goto(t, label) == pc' = [pc EXCEPT ![t] = label]

Return(t) == Goto(t, "idle") /\ job' = [job EXCEPT ![t] = NoJob]

(***************************************************************************)
(* A ComPrimitive that is not SENDRECV, or is too short to hold a CAN id   *)
(* and a service, takes a handle and is acknowledged: nothing else.        *)
(***************************************************************************)
AckOnly(t) ==
    /\ pc[t] = "idle"
    /\ nextCop < MaxCops
    /\ nextCop' = nextCop + 1
    /\ UNCHANGED <<now, queue, pc, job, freed, calls, heard, lost>>

(***************************************************************************)
(* A diagnostic request takes its handle, which the caller can see from    *)
(* here on, and is logged.                                                 *)
(***************************************************************************)
BeginSend(t, link, req) ==
    /\ pc[t] = "idle"
    /\ nextCop < MaxCops
    /\ now <= Horizon
    /\ nextCop' = nextCop + 1
    /\ Goto(t, "lookup")
    /\ job' = [job EXCEPT ![t] = [cop |-> nextCop + 1, link |-> link, req |-> req,
                                  base |-> 0, cum |-> 0, i |-> 0]]
    /\ UNCHANGED <<now, queue, freed, calls, heard, lost>>

(***************************************************************************)
(* The recording is searched, then the clock is read: both replies of the  *)
(* script and the NRC are timed from this moment.                          *)
(***************************************************************************)
Lookup(t) ==
    /\ pc[t] = "lookup"
    /\ Goto(t, "push")
    /\ job' = [job EXCEPT ![t].base = now, ![t].cum = 0, ![t].i = 1]
    /\ calls' = [calls EXCEPT ![job[t].cop] =
                    [link |-> job[t].link, req |-> job[t].req, at |-> now]]
    /\ UNCHANGED <<now, queue, nextCop, freed, heard, lost>>

(***************************************************************************)
(* One turn of the loop over the replies, up to its log line: the delay is *)
(* added first, so a reply that is skipped still delays the next ones.     *)
(***************************************************************************)
MutCumForgotten(f) == Script(f.req)[f.i]

CumNow(f) == f.cum + Script(f.req)[f.i]

NewEvent(f) == [cop |-> f.cop, idx |-> f.i, link |-> f.link, due |-> f.base + CumNow(f)]

Push(t) ==
    /\ pc[t] = "push"
    /\ job[t].i <= Len(Script(job[t].req))
    /\ queue' = Pushed(queue, NewEvent(job[t]))
    /\ job' = [job EXCEPT ![t].cum = CumNow(job[t])]
    /\ Goto(t, "log")
    /\ UNCHANGED <<now, nextCop, freed, calls, heard, lost>>

(***************************************************************************)
(* scheduler_push finds no memory for its node.  The caller ignores the    *)
(* result: the reply is gone and its buffer stays allocated for ever.      *)
(***************************************************************************)
PushFails(t) ==
    /\ AllocMayFail
    /\ pc[t] = "push"
    /\ job[t].i <= Len(Script(job[t].req))
    /\ lost' = lost \cup {<<job[t].cop, job[t].i>>}
    /\ job' = [job EXCEPT ![t].cum = CumNow(job[t])]
    /\ Goto(t, "log")
    /\ UNCHANGED <<now, queue, nextCop, freed, calls, heard>>

MutSkipTwo(t) ==
    /\ AllocMayFail
    /\ pc[t] = "push"
    /\ job[t].i <= Len(Script(job[t].req))
    /\ lost' = lost \cup {<<job[t].cop, job[t].i>>}
    /\ job' = [job EXCEPT ![t].cum = CumNow(job[t]), ![t].i = @ + 1]
    /\ Goto(t, "log")
    /\ UNCHANGED <<now, queue, nextCop, freed, calls, heard>>

(***************************************************************************)
(* No memory for the buffer: the reply is skipped, log line included.      *)
(***************************************************************************)
SkipReply(t) ==
    /\ AllocMayFail
    /\ pc[t] = "push"
    /\ job[t].i <= Len(Script(job[t].req))
    /\ lost' = lost \cup {<<job[t].cop, job[t].i>>}
    /\ job' = [job EXCEPT ![t].cum = CumNow(job[t]), ![t].i = @ + 1]
    /\ UNCHANGED <<now, queue, nextCop, pc, freed, calls, heard>>

(***************************************************************************)
(* The log line reads the reply out of the buffer that was just pushed.    *)
(***************************************************************************)
LogReply(t) ==
    /\ pc[t] = "log"
    /\ Goto(t, "push")
    /\ job' = [job EXCEPT ![t].i = @ + 1]
    /\ UNCHANGED <<now, queue, nextCop, freed, calls, heard, lost>>

EndSend(t) ==
    /\ pc[t] = "push"
    /\ job[t].i > Len(Script(job[t].req))
    /\ Return(t)
    /\ UNCHANGED <<now, queue, nextCop, freed, calls, heard, lost>>

-----------------------------------------------------------------------------
(* PDUGetEventItem                                                         *)

(***************************************************************************)
(* The links a thread is reading: a poll holds one from its clock reading, *)
(* an item under construction until it is handed over.                     *)
(***************************************************************************)
IsReading(t, link) == pc[t] \in {"poll", "build"} /\ job[t].link = link

BeginPoll(t, link) ==
    /\ pc[t] = "idle"
    /\ OneReader => \A u \in Threads : ~ IsReading(u, link)
    /\ Goto(t, "poll")
    /\ job' = [job EXCEPT ![t] = [link |-> link, at |-> now]]
    /\ UNCHANGED <<now, queue, nextCop, freed, calls, heard, lost>>

(***************************************************************************)
(* scheduler_pop_due, one walk under the lock: PollFinds takes the event   *)
(* out of the list, PollIsEmpty returns PDU_ERR_EVENT_QUEUE_EMPTY.         *)
(***************************************************************************)
PollFinds(t) ==
    /\ pc[t] = "poll"
    /\ \E k \in DOMAIN queue :
          /\ IsFirstDue(queue, k, job[t].link, job[t].at)
          /\ queue' = Detached(queue, k)
          /\ job' = [job EXCEPT ![t] = [link |-> job[t].link,
                                        cop |-> queue[k].cop, idx |-> queue[k].idx]]
    /\ Goto(t, "build")
    /\ UNCHANGED <<now, nextCop, freed, calls, heard, lost>>

PollIsEmpty(t) ==
    /\ pc[t] = "poll"
    /\ ~ HasDue(queue, job[t].link, job[t].at)
    /\ Return(t)
    /\ UNCHANGED <<now, queue, nextCop, freed, calls, heard, lost>>

(***************************************************************************)
(* The reply is copied into the item and its buffer freed.                 *)
(***************************************************************************)
HandOver(t) ==
    /\ pc[t] = "build"
    /\ heard' = [heard EXCEPT ![job[t].cop] =
                    Append(@, [link |-> job[t].link, idx |-> job[t].idx])]
    /\ freed' = freed \cup {<<job[t].cop, job[t].idx>>}
    /\ Return(t)
    /\ UNCHANGED <<now, queue, nextCop, calls, lost>>

(***************************************************************************)
(* No memory for the item: the event was already taken out of the list, so *)
(* the reply is lost with its buffer and the caller gets FCT_FAILED.       *)
(***************************************************************************)
BuildFails(t) ==
    /\ AllocMayFail
    /\ pc[t] = "build"
    /\ lost' = lost \cup {<<job[t].cop, job[t].idx>>}
    /\ freed' = freed \cup {<<job[t].cop, job[t].idx>>}
    /\ Return(t)
    /\ UNCHANGED <<now, queue, nextCop, calls, heard>>

-----------------------------------------------------------------------------
(* Time                                                                    *)

(***************************************************************************)
(* Time passes at any point of any call.  The bounds keep the last lookup  *)
(* within Horizon, and the clock within MaxTime.                           *)
(***************************************************************************)
Tick ==
    /\ now < MaxTime
    /\ (\E t \in Threads : pc[t] = "lookup") => now < Horizon
    /\ now' = now + 1
    /\ UNCHANGED <<queue, nextCop, pc, job, freed, calls, heard, lost>>

-----------------------------------------------------------------------------

(***************************************************************************)
(* The steps of a thread inside a call: it never waits for another thread. *)
(***************************************************************************)
Continue(t) ==
    \/ Lookup(t)
    \/ Push(t)
    \/ PushFails(t)
    \/ SkipReply(t)
    \/ LogReply(t)
    \/ EndSend(t)
    \/ PollFinds(t)
    \/ PollIsEmpty(t)
    \/ HandOver(t)
    \/ BuildFails(t)

Next ==
    \/ \E t \in Threads :
          \/ AckOnly(t)
          \/ \E link \in Links, req \in Requests : BeginSend(t, link, req)
          \/ \E link \in Links : BeginPoll(t, link)
          \/ Continue(t)
    \/ Tick

Spec == Init /\ [][Next]_vars

(***************************************************************************)
(* A call runs to its end, the clock advances, and the application polls   *)
(* each of its links again and again (src/src/scheduler.c, "Tech2Win calls *)
(* PDUGetEventItem in a poll loop").                                       *)
(***************************************************************************)
Fairness ==
    /\ WF_vars(Tick)
    /\ \A t \in Threads : WF_vars(Continue(t))
    /\ \A link \in Links : SF_vars(\E t \in Threads : BeginPoll(t, link))

FairSpec == Spec /\ Fairness

-----------------------------------------------------------------------------
(* Types                                                                   *)

FrameLabels == {"lookup", "push", "log"}

(***************************************************************************)
(* The locals of a thread fit the point of the call it has reached; in     *)
(* particular the loop index stays within the script of the request.       *)
(***************************************************************************)
LocalsOK(t) ==
    /\ pc[t] = "idle" => job[t] = NoJob
    /\ pc[t] \in FrameLabels => job[t] \in Frame
    /\ pc[t] = "push" => job[t].i \in 1 .. Len(Script(job[t].req)) + 1
    /\ pc[t] = "log" => job[t].i \in 1 .. Len(Script(job[t].req))
    /\ pc[t] = "poll" => job[t] \in Poll
    /\ pc[t] = "build" => job[t] \in Item

(***************************************************************************)
(* Type invariant of the data path of fremsoft.c and scheduler.c.          *)
(***************************************************************************)
TypeOK ==
    /\ now \in Nat
    /\ queue \in Seq(Event)
    /\ nextCop \in 0 .. MaxCops
    /\ pc \in [Threads -> FrameLabels \cup {"idle", "poll", "build"}]
    /\ DOMAIN job = Threads
    /\ \A t \in Threads : LocalsOK(t)
    /\ freed \in SUBSET (Cops \X Nat)
    /\ calls \in [Cops -> Call \cup {NoCall}]
    /\ heard \in [Cops -> Seq([link : Links, idx : Nat])]
    /\ lost \in SUBSET (Cops \X Nat)

-----------------------------------------------------------------------------
(* Safety                                                                  *)

(***************************************************************************)
(* The replies to one request reach the application in the order they were *)
(* recorded, whatever is queued between them and whoever pushes meanwhile: *)
(* the list is not sorted, and a pop may take an event from its middle.    *)
(* It takes one reader per link: see ReadersRace in the README.            *)
(***************************************************************************)
RecordedOrder ==
    \A c \in Cops : \A m, n \in DOMAIN heard[c] :
        m < n => heard[c][m].idx < heard[c][n].idx

(***************************************************************************)
(* When the car would have sent reply i of handle c.                       *)
(***************************************************************************)
DueTime(c, i) == calls[c].at + Offset[calls[c].req][i]

(***************************************************************************)
(* No reply reaches the application before the car would have sent it: the *)
(* time of the lookup plus every recorded delay up to that reply.          *)
(***************************************************************************)
NeverEarly ==
    \A c \in Cops : \A n \in DOMAIN heard[c] :
        calls[c] # NoCall /\ DueTime(c, heard[c][n].idx) <= now

(***************************************************************************)
(* Where a reply can be: not scheduled yet, in the list, taken out by a    *)
(* poll that has not returned, handed over, or swallowed by a failed       *)
(* allocation.                                                             *)
(***************************************************************************)
Places == {"to come", "queued", "in hand", "heard", "lost"}

ToCome(c, i) ==
    \E t \in Threads :
        \/ pc[t] = "push" /\ job[t].cop = c /\ i >= job[t].i
        \/ pc[t] = "log" /\ job[t].cop = c /\ i > job[t].i

InQueue(c, i) == \E k \in DOMAIN queue : queue[k].cop = c /\ queue[k].idx = i

InHand(c, i) ==
    \E t \in Threads : pc[t] = "build" /\ job[t].cop = c /\ job[t].idx = i

IsHeard(c, i) == \E n \in DOMAIN heard[c] : heard[c][n].idx = i

IsAt(p, c, i) ==
    \/ p = "to come" /\ ToCome(c, i)
    \/ p = "queued" /\ InQueue(c, i)
    \/ p = "in hand" /\ InHand(c, i)
    \/ p = "heard" /\ IsHeard(c, i)
    \/ p = "lost" /\ <<c, i>> \in lost

(***************************************************************************)
(* No reply of an accepted request is ever dropped silently or handed out  *)
(* twice: between the loop of PDUStartComPrimitive and the polls it is in  *)
(* exactly one place at any time.                                          *)
(***************************************************************************)
ReplyAccounting ==
    \A c \in Cops :
        calls[c] # NoCall =>
            \A i \in 1 .. Len(Script(calls[c].req)) :
                \E p \in Places : \A q \in Places : IsAt(q, c, i) <=> q = p

(***************************************************************************)
(* scheduler.h says the scheduler owns the buffer of a pushed event; the   *)
(* line PDUStartComPrimitive logs after the push still reads it, so it had *)
(* better not have been freed by a poll in the meantime.                   *)
(***************************************************************************)
LogReadsLiveBuffer ==
    \A t \in Threads : pc[t] = "log" => <<job[t].cop, job[t].i>> \notin freed

-----------------------------------------------------------------------------
(* Why the replies stay in order: the inductive invariant                  *)

(***************************************************************************)
(* A handle belongs to at most one running call, and nothing happened      *)
(* under a handle that is not given out or not looked up yet.              *)
(***************************************************************************)
HandlesAreFresh ==
    /\ \A t \in Threads : pc[t] \in FrameLabels => job[t].cop <= nextCop
    /\ \A t \in Threads : pc[t] = "lookup" => calls[job[t].cop] = NoCall
    /\ \A t, u \in Threads :
          pc[t] \in FrameLabels /\ pc[u] \in FrameLabels /\ t # u => job[t].cop # job[u].cop
    /\ \A c \in Cops : c > nextCop => calls[c] = NoCall
    /\ \A c \in Cops : calls[c] = NoCall => heard[c] = << >>

(***************************************************************************)
(* A reply under handle c on a link is one of the script of its request.   *)
(***************************************************************************)
IsReply(c, link, i) ==
    /\ calls[c] # NoCall
    /\ link = calls[c].link
    /\ i \in 1 .. Len(Script(calls[c].req))

(***************************************************************************)
(* The last reply the loop of a call has dealt with.                       *)
(***************************************************************************)
LastSent(t) == IF pc[t] = "log" THEN job[t].i ELSE job[t].i - 1

FramesMatchCalls ==
    \A t \in Threads : pc[t] \in {"push", "log"} =>
        /\ calls[job[t].cop] =
              [link |-> job[t].link, req |-> job[t].req, at |-> job[t].base]
        /\ job[t].cum = Offset[job[t].req][LastSent(t)]

QueueMatchesCalls ==
    \A k \in DOMAIN queue :
        /\ IsReply(queue[k].cop, queue[k].link, queue[k].idx)
        /\ queue[k].due = DueTime(queue[k].cop, queue[k].idx)

ItemsMatchCalls ==
    \A t \in Threads :
        /\ pc[t] = "poll" => job[t].at <= now
        /\ pc[t] = "build" =>
              /\ IsReply(job[t].cop, job[t].link, job[t].idx)
              /\ DueTime(job[t].cop, job[t].idx) <= now

HeardMatchesCalls ==
    \A c \in Cops : \A n \in DOMAIN heard[c] :
        /\ IsReply(c, heard[c][n].link, heard[c][n].idx)
        /\ DueTime(c, heard[c][n].idx) <= now

(***************************************************************************)
(* Among the events of one handle, the list is in script order and in due  *)
(* order, which it is not across handles.  This is what makes the first    *)
(* due event of the list the oldest one of its handle.                     *)
(***************************************************************************)
QueueInScriptOrder ==
    \A j, k \in DOMAIN queue :
        j < k /\ queue[j].cop = queue[k].cop =>
            queue[j].idx < queue[k].idx /\ queue[j].due <= queue[k].due

(***************************************************************************)
(* The loop of a call is ahead of everything it sent.                      *)
(***************************************************************************)
LoopIsAhead ==
    \A t \in Threads : pc[t] \in {"push", "log"} =>
        /\ \A k \in DOMAIN queue : queue[k].cop = job[t].cop =>
              queue[k].idx <= LastSent(t) /\ queue[k].due <= job[t].base + job[t].cum
        /\ \A u \in Threads : pc[u] = "build" /\ job[u].cop = job[t].cop =>
              job[u].idx <= LastSent(t)
        /\ \A n \in DOMAIN heard[job[t].cop] : heard[job[t].cop][n].idx <= LastSent(t)

SoleReader ==
    \A t, u \in Threads : \A link \in Links :
        IsReading(t, link) /\ IsReading(u, link) => t = u

(***************************************************************************)
(* What was handed over precedes what is being handed over, which precedes *)
(* what is still in the list.                                              *)
(***************************************************************************)
StagesInOrder ==
    /\ \A k \in DOMAIN queue :
          /\ \A n \in DOMAIN heard[queue[k].cop] :
                heard[queue[k].cop][n].idx < queue[k].idx
          /\ \A t \in Threads : pc[t] = "build" /\ job[t].cop = queue[k].cop =>
                job[t].idx < queue[k].idx
    /\ \A t \in Threads : pc[t] = "build" =>
          \A n \in DOMAIN heard[job[t].cop] : heard[job[t].cop][n].idx < job[t].idx

(***************************************************************************)
(* The inductive invariant: what the push of PDUStartComPrimitive and the  *)
(* pop of PDUGetEventItem preserve together.                               *)
(***************************************************************************)
IInv ==
    /\ TypeOK
    /\ HandlesAreFresh
    /\ FramesMatchCalls
    /\ QueueMatchesCalls
    /\ ItemsMatchCalls
    /\ HeardMatchesCalls
    /\ QueueInScriptOrder
    /\ LoopIsAhead
    /\ OneReader => SoleReader /\ StagesInOrder /\ RecordedOrder

-----------------------------------------------------------------------------
(* Liveness and refinement                                                 *)

ReplyIndices == UNION {1 .. Len(Script(r)) : r \in Requests}

Wanted(c, i) == calls[c] # NoCall /\ i \in 1 .. Len(Script(calls[c].req))

(***************************************************************************)
(* Every reply of an accepted request is eventually handed over, as long   *)
(* as no allocation fails and the application keeps polling.               *)
(***************************************************************************)
EveryReplyArrives ==
    \A c \in Cops, i \in ReplyIndices : Wanted(c, i) ~> IsHeard(c, i)

(***************************************************************************)
(* The code behaves as a car that answers from a script.                   *)
(***************************************************************************)
Car == INSTANCE GhostCar WITH
    clock <- now, Ordered <- OneReader

CarSpec == Car!Spec

=============================================================================
