----------------------------- MODULE CarProofs ------------------------------
(***************************************************************************)
(* Proofs about the replies of Playback, for every number of threads,      *)
(* links and handles, and every outcome of the allocations:                *)
(*    NoReplyGoesAstray   each reply is in exactly one place               *)
(*    ImplementsTheCar    the code behaves as the car of GhostCar          *)
(***************************************************************************)
EXTENDS PlaybackProofs

-----------------------------------------------------------------------------
(* Every reply in one place                                                *)

IsOnlyAt(p, c, i) == \A q \in Places : IsAt(q, c, i) <=> q = p

(***************************************************************************)
(* Two polls never hold the same reply, and a reply is lost only after its *)
(* request was looked up: with these, one place for each reply is kept.    *)
(***************************************************************************)
Holds(t, c, i) == pc[t] = "build" /\ job[t].cop = c /\ job[t].idx = i

HeldOnce ==
    \A t, u \in Threads : \A c \in Cops : \A i \in Nat :
        Holds(t, c, i) /\ Holds(u, c, i) => t = u

LostWasCalled == \A c \in Cops : \A i \in Nat : <<c, i>> \in lost => calls[c] # NoCall

AccountInv == IInv /\ ReplyAccounting /\ HeldOnce /\ LostWasCalled

(***************************************************************************)
(* The same of the loop of a call: what it has yet to send.                *)
(***************************************************************************)
Owes(t, c, i) ==
    \/ pc[t] = "push" /\ job[t].cop = c /\ i >= job[t].i
    \/ pc[t] = "log" /\ job[t].cop = c /\ i > job[t].i

Others(t) == \A u \in Threads : u # t => pc'[u] = pc[u] /\ job'[u] = job[u]

(***************************************************************************)
(* What a step of thread t must leave as it is for a reply it is not about.*)
(***************************************************************************)
LeftAlone(t, c, i) ==
    /\ Owes(t, c, i)' <=> Owes(t, c, i)
    /\ Holds(t, c, i)' <=> Holds(t, c, i)
    /\ InQueue(c, i)' <=> InQueue(c, i)
    /\ IsHeard(c, i)' <=> IsHeard(c, i)
    /\ <<c, i>> \in lost' <=> <<c, i>> \in lost

(***************************************************************************)
(* A place, spelled out.                                                   *)
(***************************************************************************)
LEMMA PlaceMeans ==
    ASSUME NEW c, NEW i, NEW p \in Places
    PROVE  IsOnlyAt(p, c, i) <=>
             /\ ToCome(c, i) <=> p = "to come"
             /\ InQueue(c, i) <=> p = "queued"
             /\ InHand(c, i) <=> p = "in hand"
             /\ IsHeard(c, i) <=> p = "heard"
             /\ <<c, i>> \in lost <=> p = "lost"
BY DEF IsOnlyAt, IsAt, Places

(***************************************************************************)
(* The same after a step.                                                  *)
(***************************************************************************)
LEMMA PlaceMeansNext ==
    ASSUME NEW c, NEW i, NEW p \in Places
    PROVE  IsOnlyAt(p, c, i)' <=>
             /\ ToCome(c, i)' <=> p = "to come"
             /\ InQueue(c, i)' <=> p = "queued"
             /\ InHand(c, i)' <=> p = "in hand"
             /\ IsHeard(c, i)' <=> p = "heard"
             /\ <<c, i>> \in lost' <=> p = "lost"
BY DEF IsOnlyAt, IsAt, Places

(***************************************************************************)
(* A reply that a step leaves alone stays in its place.                    *)
(***************************************************************************)
LEMMA StaysInPlace ==
    ASSUME NEW t \in Threads, Others(t), NEW c, NEW i, LeftAlone(t, c, i),
           NEW p \in Places, IsOnlyAt(p, c, i)
    PROVE  IsOnlyAt(p, c, i)'
<1>1. ToCome(c, i)' <=> ToCome(c, i)
  BY DEF ToCome, Others, LeftAlone, Owes
<1>2. InHand(c, i)' <=> InHand(c, i)
  BY DEF InHand, Others, LeftAlone, Holds
<1> QED
  BY <1>1, <1>2, PlaceMeans, PlaceMeansNext DEF LeftAlone

(***************************************************************************)
(* A step of thread t keeps the account if it leaves every reply alone but *)
(* the one it puts in a place of its own.                                  *)
(***************************************************************************)
LEMMA AccountKept ==
    ASSUME AccountInv, NEW t \in Threads, Others(t),
           \A c \in Cops : \A i \in Nat : Wanted(c, i)' =>
              \/ Wanted(c, i) /\ LeftAlone(t, c, i)
              \/ \E p \in Places : IsOnlyAt(p, c, i)'
    PROVE  ReplyAccounting'
<1> SUFFICES ASSUME NEW c \in Cops, (calls[c] # NoCall)',
                    NEW i \in 1 .. Len(Script(calls'[c].req))
             PROVE  \E p \in Places : IsOnlyAt(p, c, i)'
  BY DEF ReplyAccounting, IsOnlyAt
<1>1. i \in Nat /\ Wanted(c, i)'
  BY DEF Wanted
<1>2. CASE Wanted(c, i) /\ LeftAlone(t, c, i)
  <2>1. PICK p \in Places : IsOnlyAt(p, c, i)
    BY <1>2 DEF AccountInv, ReplyAccounting, IsOnlyAt, Wanted
  <2> QED
    BY <1>2, <2>1, StaysInPlace
<1> QED
  BY <1>1, <1>2

Account == ReplyAccounting /\ HeldOnce /\ LostWasCalled

(***************************************************************************)
(* The loop of a call answers for its own request: it owes nothing beyond  *)
(* the script.                                                             *)
(***************************************************************************)
LEMMA SendingCall ==
    ASSUME AccountInv, NEW t \in Threads, pc[t] \in {"push", "log"}
    PROVE  /\ job[t] \in Frame /\ job[t].cop \in Cops /\ job[t].i \in Nat
           /\ calls[job[t].cop] # NoCall
           /\ calls[job[t].cop].req = job[t].req
           /\ pc[t] = "push" => job[t].i \in 1 .. Len(Script(job[t].req)) + 1
           /\ pc[t] = "log" => job[t].i \in 1 .. Len(Script(job[t].req))
           /\ \A u \in Threads : u # t => \A i \in Nat : ~ Owes(u, job[t].cop, i)
<1>1. job[t] \in Frame /\ LocalsOK(t)
  BY DEF AccountInv, IInv, TypeOK, LocalsOK
<1>2. /\ job[t].cop \in Cops /\ job[t].i \in Nat
      /\ job[t].link \in Links /\ job[t].req \in Requests /\ job[t].base \in Nat
  BY <1>1 DEF Frame
<1>3. calls[job[t].cop] = [link |-> job[t].link, req |-> job[t].req, at |-> job[t].base]
  BY DEF AccountInv, IInv, FramesMatchCalls
<1>4. calls[job[t].cop] # NoCall
  BY <1>2, <1>3, NullAssumption DEF Call
<1>5. \A u \in Threads : u # t => \A i \in Nat : ~ Owes(u, job[t].cop, i)
  BY DEF AccountInv, IInv, HandlesAreFresh, FrameLabels, Owes
<1> QED
  BY <1>1, <1>2, <1>3, <1>4, <1>5 DEF LocalsOK

(***************************************************************************)
(* A step that moves no reply.                                             *)
(***************************************************************************)
LEMMA NothingMoves ==
    ASSUME AccountInv, NEW t \in Threads, Others(t),
           UNCHANGED <<queue, calls, heard, lost>>,
           pc[t] # "build", pc'[t] # "build",
           \A c \in Cops : \A i \in Nat :
              Wanted(c, i) => (Owes(t, c, i)' <=> Owes(t, c, i))
    PROVE  Account'
<1>1. \A c \in Cops : \A i \in Nat : Wanted(c, i) => LeftAlone(t, c, i)
  BY DEF LeftAlone, Holds, InQueue, IsHeard
<1>2. ReplyAccounting'
  BY <1>1, AccountKept DEF Wanted
<1>3. HeldOnce'
  BY DEF AccountInv, HeldOnce, Holds, Others
<1>4. LostWasCalled'
  BY DEF AccountInv, LostWasCalled
<1> QED
  BY <1>2, <1>3, <1>4 DEF Account

(***************************************************************************)
(* The steps that move no reply: a loop that ends owes nothing.            *)
(***************************************************************************)
LEMMA QuietSteps ==
    ASSUME AccountInv, NEW t \in Threads,
           \/ AckOnly(t)
           \/ \E link \in Links, req \in Requests : BeginSend(t, link, req)
           \/ \E link \in Links : BeginPoll(t, link)
           \/ LogReply(t) \/ EndSend(t) \/ PollIsEmpty(t)
    PROVE  Account'
<1>0. t \in DOMAIN pc /\ DOMAIN job = Threads /\ DOMAIN pc = Threads
  BY DEF AccountInv, IInv, TypeOK
<1> USE DEF Goto, Return
<1>1. /\ Others(t) /\ UNCHANGED <<queue, calls, heard, lost>>
      /\ pc[t] # "build" /\ pc'[t] # "build"
  BY <1>0 DEF Others, AckOnly, BeginSend, BeginPoll, LogReply, EndSend, PollIsEmpty
<1>2. ASSUME NEW c \in Cops, NEW i \in Nat, Wanted(c, i)
      PROVE  Owes(t, c, i)' <=> Owes(t, c, i)
  <2>1. CASE \/ AckOnly(t)
             \/ \E link \in Links, req \in Requests : BeginSend(t, link, req)
             \/ \E link \in Links : BeginPoll(t, link)
             \/ PollIsEmpty(t)
    BY <1>0, <2>1 DEF Owes, AckOnly, BeginSend, BeginPoll, PollIsEmpty
  <2>2. CASE LogReply(t)
    <3>1. /\ pc[t] = "log" /\ pc'[t] = "push" /\ job'[t] = [job[t] EXCEPT !.i = @ + 1]
          /\ job[t] \in Frame /\ job[t].i \in Nat
      BY <1>0, <2>2, SendingCall DEF LogReply
    <3>2. job'[t].cop = job[t].cop /\ job'[t].i = job[t].i + 1
      BY <3>1 DEF Frame
    <3> QED
      BY <3>1, <3>2 DEF Owes
  <2>3. CASE EndSend(t)
    <3>1. /\ pc[t] = "push" /\ pc'[t] = "idle"
          /\ job[t].i > Len(Script(job[t].req)) /\ job[t].i \in Nat
          /\ calls[job[t].cop].req = job[t].req
      BY <1>0, <2>3, SendingCall DEF EndSend
    <3>2. job[t].cop = c => i <= Len(Script(job[t].req))
      BY <1>2, <3>1 DEF Wanted
    <3>3. job[t] \in Frame
      BY <3>1, SendingCall
    <3>4. Len(Script(job[t].req)) \in Nat
      BY <3>3, ScriptType DEF Frame
    <3> QED
      BY <3>1, <3>2, <3>4 DEF Owes
  <2> QED
    BY <2>1, <2>2, <2>3
<1> QED
  BY <1>1, <1>2, NothingMoves

(***************************************************************************)
(* A lookup makes every reply of its request one that is to come: nothing  *)
(* was done under its handle before.                                       *)
(***************************************************************************)
LEMMA LookupMoves ==
    ASSUME AccountInv, NEW t \in Threads, Lookup(t)
    PROVE  Account'
<1>0. /\ job[t] \in Frame /\ job[t].cop \in Cops /\ job[t].req \in Requests
      /\ now \in Nat /\ pc[t] = "lookup" /\ calls[job[t].cop] = NoCall
      /\ pc \in [Threads -> FrameLabels \cup {"idle", "poll", "build"}]
      /\ DOMAIN job = Threads /\ calls \in [Cops -> Call \cup {NoCall}]
  BY DEF AccountInv, IInv, TypeOK, LocalsOK, FrameLabels, HandlesAreFresh, Lookup, Frame
<1>d. PICK d \in Cops : d = job[t].cop
  BY <1>0
<1>1. /\ job[t] \in Frame /\ job[t].cop = d /\ job[t].req \in Requests
      /\ now \in Nat /\ pc[t] = "lookup" /\ calls[d] = NoCall
      /\ pc \in [Threads -> FrameLabels \cup {"idle", "poll", "build"}]
      /\ DOMAIN job = Threads /\ calls \in [Cops -> Call \cup {NoCall}]
  BY <1>0, <1>d
<1>2. /\ pc'[t] = "push" /\ Others(t)
      /\ job'[t] = [job[t] EXCEPT !.base = now, !.cum = 0, !.i = 1]
      /\ UNCHANGED <<queue, heard, lost>>
      /\ \A c \in Cops : c # d => calls'[c] = calls[c]
      /\ calls'[d].req = job[t].req
  BY <1>1 DEF Lookup, Goto, Others
<1>3. job'[t].cop = d /\ job'[t].i = 1
  BY <1>1, <1>2 DEF Frame
<1>4. ASSUME NEW c \in Cops, c # d, NEW i \in Nat
      PROVE  LeftAlone(t, c, i)
  BY <1>1, <1>2, <1>3, <1>4 DEF LeftAlone, Owes, Holds, InQueue, IsHeard
<1>5. ASSUME NEW i \in Nat, Wanted(d, i)'
      PROVE  IsOnlyAt("to come", d, i)'
  <2>1. i >= 1
    BY <1>5, <1>1, <1>2, ScriptType DEF Wanted
  <2>2. ToCome(d, i)'
    BY <1>2, <1>3, <2>1 DEF ToCome
  <2>3. ~ InQueue(d, i)' /\ ~ InHand(d, i)'
    <3>1. \A k \in DOMAIN queue : queue[k].cop # d
      BY <1>1 DEF AccountInv, IInv, QueueMatchesCalls, IsReply
    <3>2. \A u \in Threads : pc[u] = "build" => job[u].cop # d
      BY <1>1 DEF AccountInv, IInv, ItemsMatchCalls, IsReply
    <3> QED
      BY <1>1, <1>2, <3>1, <3>2 DEF InQueue, InHand, Others
  <2>4. ~ IsHeard(d, i)'
    <3>1. DOMAIN heard[d] = {}
      BY <1>1 DEF AccountInv, IInv, HandlesAreFresh
    <3> QED
      BY <1>2, <3>1 DEF IsHeard
  <2>5. <<d, i>> \notin lost'
    BY <1>1, <1>2 DEF AccountInv, LostWasCalled
  <2>6. "to come" \in Places
    BY DEF Places
  <2> QED
    BY <2>2, <2>3, <2>4, <2>5, <2>6, PlaceMeansNext
<1>6. ReplyAccounting'
  <2>1. "to come" \in Places
    BY DEF Places
  <2>2. \A c \in Cops : \A i \in Nat : Wanted(c, i)' =>
           \/ Wanted(c, i) /\ LeftAlone(t, c, i)
           \/ \E p \in Places : IsOnlyAt(p, c, i)'
    <3>1. ASSUME NEW c \in Cops, NEW i \in Nat, Wanted(c, i)', c # d
          PROVE  Wanted(c, i) /\ LeftAlone(t, c, i)
      BY <1>2, <1>4, <3>1 DEF Wanted
    <3> QED
      BY <1>1, <1>5, <2>1, <3>1
  <2> QED
    BY <1>2, <2>2, AccountKept
<1>7. HeldOnce'
  BY <1>1, <1>2 DEF AccountInv, HeldOnce, Holds, Others
<1>8. LostWasCalled'
  BY <1>1, <1>2 DEF AccountInv, LostWasCalled
<1> QED
  BY <1>6, <1>7, <1>8 DEF Account

(***************************************************************************)
(* The reply at the index of the loop moves from the script into the list, *)
(* or is lost.                                                             *)
(***************************************************************************)
LEMMA SendMoves ==
    ASSUME AccountInv, NEW t \in Threads,
           pc[t] = "push", job[t].i <= Len(Script(job[t].req)), Others(t),
           \/ pc'[t] = "log" /\ job'[t].i = job[t].i
           \/ pc'[t] = "push" /\ job'[t].i = job[t].i + 1,
           job'[t].cop = job[t].cop, UNCHANGED <<calls, heard>>,
           NEW d \in Cops, d = job[t].cop, NEW n \in Nat, n = job[t].i,
           NEW p \in {"queued", "lost"},
           \A c \in Cops : \A i \in Nat :
              /\ InQueue(c, i)' <=>
                    InQueue(c, i) \/ (p = "queued" /\ c = d /\ i = n)
              /\ <<c, i>> \in lost' <=>
                    <<c, i>> \in lost \/ (p = "lost" /\ c = d /\ i = n)
    PROVE  Account'
<1>1. /\ n \in 1 .. Len(Script(job[t].req))
      /\ calls[d] # NoCall /\ calls[d].req = job[t].req /\ Wanted(d, n)
      /\ \A u \in Threads : u # t => \A i \in Nat : ~ Owes(u, d, i)
  <2>1. /\ job[t] \in Frame
        /\ calls[d] # NoCall /\ calls[d].req = job[t].req
        /\ n \in 1 .. Len(Script(job[t].req)) + 1
        /\ \A u \in Threads : u # t => \A i \in Nat : ~ Owes(u, d, i)
    BY SendingCall
  <2>2. Len(Script(job[t].req)) \in Nat
    BY <2>1, ScriptType DEF Frame
  <2> QED
    BY <2>1, <2>2 DEF Wanted
<1>2. ASSUME NEW c \in Cops, NEW i \in Nat, c # d \/ i # n
      PROVE  LeftAlone(t, c, i)
  <2>1. Owes(t, c, i)' <=> Owes(t, c, i)
    BY <1>1, <1>2 DEF Owes
  <2>2. /\ Holds(t, c, i)' <=> Holds(t, c, i)
        /\ IsHeard(c, i)' <=> IsHeard(c, i)
    BY DEF Holds, IsHeard
  <2> QED
    BY <1>2, <2>1, <2>2 DEF LeftAlone
<1>3. IsOnlyAt("to come", d, n)
  <2>1. ToCome(d, n)
    BY <1>1 DEF ToCome
  <2>2. PICK q \in Places : IsOnlyAt(q, d, n)
    BY <1>1 DEF AccountInv, ReplyAccounting, IsOnlyAt, Wanted
  <2> QED
    BY <2>1, <2>2, PlaceMeans
<1>4. IsOnlyAt(p, d, n)'
  <2>1. "to come" \in Places /\ p \in Places
    BY DEF Places
  <2>2. /\ ~ InQueue(d, n) /\ ~ InHand(d, n) /\ ~ IsHeard(d, n) /\ <<d, n>> \notin lost
    BY <1>3 DEF IsOnlyAt, IsAt, Places
  <2>3. ~ ToCome(d, n)'
    BY <1>1 DEF ToCome, Others, Owes
  <2>4. ~ InHand(d, n)' /\ ~ IsHeard(d, n)'
    BY <2>2 DEF InHand, IsHeard, Others
  <2>5. (InQueue(d, n)' <=> p = "queued") /\ (<<d, n>> \in lost' <=> p = "lost")
    BY <1>1, <2>2
  <2> QED
    BY <2>3, <2>4, <2>5 DEF IsOnlyAt, IsAt, Places
<1>5. ReplyAccounting'
  <2>1. p \in Places
    BY DEF Places
  <2> QED
    BY <1>2, <1>4, <2>1, AccountKept DEF Wanted
<1>6. HeldOnce'
  BY DEF AccountInv, HeldOnce, Holds, Others
<1>7. LostWasCalled'
  BY <1>1 DEF AccountInv, LostWasCalled
<1> QED
  BY <1>5, <1>6, <1>7 DEF Account

(***************************************************************************)
(* One turn of the loop over the replies.                                  *)
(***************************************************************************)
LEMMA PushMoves ==
    ASSUME AccountInv, NEW t \in Threads, Push(t) \/ PushFails(t) \/ SkipReply(t)
    PROVE  Account'
<1>1. TypeOK /\ Advances(t)
  BY PushAdvances, SkipAdvances DEF AccountInv, IInv
<1>2. /\ job[t].cop \in Cops /\ job[t].i \in Nat
      /\ pc[t] = "push" /\ job[t].i <= Len(Script(job[t].req))
      /\ Others(t) /\ job'[t].cop = job[t].cop /\ UNCHANGED <<calls, heard>>
  BY <1>1 DEF Advances, Frame, Others, Push, PushFails, SkipReply
<1>d. PICK d \in Cops, n \in Nat : d = job[t].cop /\ n = job[t].i
  BY <1>2
<1>3. \/ pc'[t] = "log" /\ job'[t].i = job[t].i
      \/ pc'[t] = "push" /\ job'[t].i = job[t].i + 1
  <2>1. CASE Push(t) \/ PushFails(t)
    <3>1. pc'[t] = "log" /\ job'[t] = [job[t] EXCEPT !.cum = CumNow(job[t])]
      BY <1>1, <2>1 DEF Push, PushFails, Goto, TypeOK
    <3> QED
      BY <1>1, <3>1 DEF Advances, Frame
  <2>2. CASE SkipReply(t)
    <3>1. /\ pc'[t] = "push"
          /\ job'[t] = [job[t] EXCEPT !.cum = CumNow(job[t]), !.i = job[t].i + 1]
      BY <1>1, <1>2, <2>2 DEF SkipReply, TypeOK
    <3>2. LET h == [job[t] EXCEPT !.cum = CumNow(job[t]), !.i = job[t].i + 1]
          IN  h.i = job[t].i + 1
      BY <1>1, <1>2, NextFrame DEF Advances
    <3> QED
      BY <3>1, <3>2
  <2> QED
    BY <2>1, <2>2
<1>4. CASE Push(t)
  <2> DEFINE e == NewEvent(job[t])
  <2>1. e \in Event /\ e.cop = d /\ e.idx = n
    BY <1>1, <1>2, <1>d DEF Advances, NewEvent, Event, Frame
  <2>2. queue \in Seq(Event) /\ queue' = Pushed(queue, e) /\ lost' = lost
    BY <1>1, <1>4 DEF TypeOK, Push
  <2> HIDE DEF e
  <2>3. /\ DOMAIN queue' = 1 .. Len(queue) + 1
        /\ DOMAIN queue = 1 .. Len(queue) /\ Len(queue) \in Nat
        /\ \A k \in DOMAIN queue : queue'[k] = queue[k]
        /\ queue'[Len(queue) + 1] = e
    BY <2>1, <2>2 DEF Pushed
  <2>4. ASSUME NEW c \in Cops, NEW i \in Nat
        PROVE  InQueue(c, i)' <=> InQueue(c, i) \/ (c = d /\ i = n)
    <3>1. ASSUME InQueue(c, i)' PROVE InQueue(c, i) \/ (c = d /\ i = n)
      <4>1. PICK k \in DOMAIN queue' : queue'[k].cop = c /\ queue'[k].idx = i
        BY <3>1 DEF InQueue
      <4>2. CASE k = Len(queue) + 1
        BY <2>1, <2>3, <4>1, <4>2
      <4>3. CASE k \in DOMAIN queue
        BY <2>3, <4>1, <4>3 DEF InQueue
      <4> QED
        BY <2>3, <4>1, <4>2, <4>3
    <3>2. ASSUME InQueue(c, i) PROVE InQueue(c, i)'
      <4>1. PICK k \in DOMAIN queue : queue[k].cop = c /\ queue[k].idx = i
        BY <3>2 DEF InQueue
      <4>2. k \in DOMAIN queue' /\ queue'[k] = queue[k]
        BY <2>3, <4>1
      <4> QED
        BY <4>1, <4>2 DEF InQueue
    <3>3. ASSUME c = d /\ i = n PROVE InQueue(c, i)'
      <4>1. Len(queue) + 1 \in DOMAIN queue'
        BY <2>3
      <4> QED
        BY <2>1, <2>3, <3>3, <4>1 DEF InQueue
    <3> QED
      BY <3>1, <3>2, <3>3
  <2>5. \A c \in Cops : \A i \in Nat :
           /\ InQueue(c, i)' <=>
                 InQueue(c, i) \/ ("queued" = "queued" /\ c = d /\ i = n)
           /\ <<c, i>> \in lost' <=>
                 <<c, i>> \in lost \/ ("queued" = "lost" /\ c = d /\ i = n)
    BY <2>2, <2>4
  <2> QED
    BY <1>2, <1>d, <1>3, <2>5, SendMoves
<1>5. CASE PushFails(t) \/ SkipReply(t)
  <2>1. queue' = queue /\ lost' = lost \cup {<<d, n>>}
    BY <1>5, <1>d DEF PushFails, SkipReply
  <2>2. \A c \in Cops : \A i \in Nat :
           /\ InQueue(c, i)' <=>
                 InQueue(c, i) \/ ("lost" = "queued" /\ c = d /\ i = n)
           /\ <<c, i>> \in lost' <=>
                 <<c, i>> \in lost \/ ("lost" = "lost" /\ c = d /\ i = n)
    BY <2>1 DEF InQueue
  <2> QED
    BY <1>2, <1>d, <1>3, <2>2, SendMoves
<1> QED
  BY <1>4, <1>5

(***************************************************************************)
(* A poll takes one event out of the list, the only one for that reply,    *)
(* and nobody else holds it.                                               *)
(***************************************************************************)
LEMMA PollMoves ==
    ASSUME AccountInv, NEW t \in Threads, PollFinds(t)
    PROVE  Account'
<1>0. /\ IInv /\ queue \in Seq(Event) /\ pc[t] = "poll"
      /\ pc \in [Threads -> FrameLabels \cup {"idle", "poll", "build"}] /\ DOMAIN job = Threads
      /\ job[t].link \in Links /\ job[t].at \in Nat
  BY DEF AccountInv, IInv, TypeOK, LocalsOK, Poll, PollFinds
<1>1. PICK k \in DOMAIN queue :
         /\ IsFirstDue(queue, k, job[t].link, job[t].at)
         /\ queue' = Detached(queue, k)
         /\ job' = [job EXCEPT ![t] = [link |-> job[t].link,
                                       cop |-> queue[k].cop, idx |-> queue[k].idx]]
  BY DEF PollFinds
<1>2. queue[k].cop \in Cops /\ queue[k].idx \in Nat
  BY <1>0, EventTypes DEF IInv
<1>d. PICK d \in Cops, n \in Nat : d = queue[k].cop /\ n = queue[k].idx
  BY <1>2
<1>3. /\ pc'[t] = "build" /\ Others(t) /\ UNCHANGED <<calls, heard, lost>>
      /\ job'[t].cop = d /\ job'[t].idx = n
  BY <1>0, <1>1, <1>d DEF PollFinds, Goto, Others
<1>4. Wanted(d, n) /\ IsOnlyAt("queued", d, n)
  <2>1. Wanted(d, n)
    BY <1>0, <1>1, <1>d DEF IInv, QueueMatchesCalls, IsReply, Wanted
  <2>2. InQueue(d, n)
    BY <1>d DEF InQueue
  <2>3. PICK q \in Places : IsOnlyAt(q, d, n)
    BY <2>1 DEF AccountInv, ReplyAccounting, IsOnlyAt, Wanted
  <2> QED
    BY <2>1, <2>2, <2>3, PlaceMeans
<1>5. /\ DOMAIN queue' = 1 .. Len(queue) - 1
      /\ DOMAIN queue = 1 .. Len(queue) /\ Len(queue) \in Nat
      /\ \A j \in 1 .. Len(queue) - 1 : queue'[j] = queue[IF j < k THEN j ELSE j + 1]
  BY <1>0, <1>1, DetachedProperties
<1>6. ASSUME NEW j \in DOMAIN queue, j # k
      PROVE  ~ (queue[j].cop = d /\ queue[j].idx = n)
  <2>1. ASSUME queue[j].cop = d PROVE queue[k].idx < queue[j].idx
    BY <1>0, <1>1, <1>6, <1>d, <2>1, FirstDueIsOldest
  <2>2. queue[j].idx \in Nat
    BY <1>0, EventTypes DEF IInv
  <2> QED
    BY <1>2, <1>d, <2>1, <2>2
<1>7. ASSUME NEW c \in Cops, NEW i \in Nat
      PROVE  InQueue(c, i)' <=> InQueue(c, i) /\ ~ (c = d /\ i = n)
  <2>1. ASSUME InQueue(c, i)' PROVE InQueue(c, i) /\ ~ (c = d /\ i = n)
    <3>1. PICK j \in DOMAIN queue' : queue'[j].cop = c /\ queue'[j].idx = i
      BY <2>1 DEF InQueue
    <3>2. PICK m \in DOMAIN queue : m # k /\ queue'[j] = queue[m]
      <4>1. k \in Nat /\ j \in 1 .. Len(queue) - 1 /\ j \in DOMAIN queue
        BY <1>5, <3>1
      <4>2. CASE j < k
        BY <1>5, <4>1, <4>2
      <4>3. CASE ~ (j < k)
        <5>1. j + 1 \in DOMAIN queue /\ j + 1 # k /\ queue'[j] = queue[j + 1]
          BY <1>5, <4>1, <4>3
        <5> QED
          BY <5>1
      <4> QED
        BY <4>2, <4>3
    <3> QED
      BY <1>6, <3>1, <3>2 DEF InQueue
  <2>2. ASSUME InQueue(c, i), ~ (c = d /\ i = n) PROVE InQueue(c, i)'
    <3>1. PICK m \in DOMAIN queue : queue[m].cop = c /\ queue[m].idx = i
      BY <2>2 DEF InQueue
    <3>2. m # k
      BY <1>d, <2>2, <3>1
    <3>3. PICK j \in DOMAIN queue' : queue'[j] = queue[m]
      <4>1. CASE m < k
        BY <1>5, <3>1, <4>1
      <4>2. CASE m > k
        <5>1. m - 1 \in DOMAIN queue' /\ queue'[m - 1] = queue[m]
          BY <1>5, <3>1, <4>2
        <5> QED
          BY <5>1
      <4> QED
        BY <1>5, <3>2, <4>1, <4>2
    <3> QED
      BY <3>1, <3>3 DEF InQueue
  <2> QED
    BY <2>1, <2>2
<1>8. ASSUME NEW c \in Cops, NEW i \in Nat, c # d \/ i # n
      PROVE  LeftAlone(t, c, i)
  BY <1>0, <1>3, <1>7, <1>8 DEF LeftAlone, Owes, Holds, IsHeard
<1>9. IsOnlyAt("in hand", d, n)'
  <2>1. ~ ToCome(d, n) /\ ~ InHand(d, n) /\ ~ IsHeard(d, n) /\ <<d, n>> \notin lost
    BY <1>4 DEF IsOnlyAt, IsAt, Places
  <2>2. ~ ToCome(d, n)'
    BY <1>3, <2>1 DEF ToCome, Others
  <2>3. ~ InQueue(d, n)' /\ ~ IsHeard(d, n)' /\ <<d, n>> \notin lost'
    BY <1>3, <1>7, <2>1 DEF IsHeard
  <2>4. InHand(d, n)'
    BY <1>3 DEF InHand
  <2> QED
    BY <2>2, <2>3, <2>4 DEF IsOnlyAt, IsAt, Places
<1>10. ReplyAccounting'
  <2>1. "in hand" \in Places
    BY DEF Places
  <2> QED
    BY <1>3, <1>8, <1>9, <2>1, AccountKept DEF Wanted
<1>11. HeldOnce'
  <2>1. \A u \in Threads : ~ Holds(u, d, n)
    BY <1>4 DEF IsOnlyAt, IsAt, Places, InHand, Holds
  <2> QED
    BY <1>3, <2>1 DEF AccountInv, HeldOnce, Holds, Others
<1>12. LostWasCalled'
  BY <1>3 DEF AccountInv, LostWasCalled
<1> QED
  BY <1>10, <1>11, <1>12 DEF Account

(***************************************************************************)
(* A poll hands over what it holds, or loses it.                           *)
(***************************************************************************)
LEMMA ItemMoves ==
    ASSUME AccountInv, NEW t \in Threads, HandOver(t) \/ BuildFails(t)
    PROVE  Account'
<1>0. /\ pc[t] = "build" /\ job[t] \in Item /\ DOMAIN job = Threads
      /\ pc \in [Threads -> FrameLabels \cup {"idle", "poll", "build"}]
      /\ heard \in [Cops -> Seq([link : Links, idx : Nat])]
  BY DEF AccountInv, IInv, TypeOK, LocalsOK, HandOver, BuildFails
<1>d. PICK d \in Cops, n \in Nat : d = job[t].cop /\ n = job[t].idx
  BY <1>0 DEF Item
<1>1. /\ pc'[t] = "idle" /\ Others(t) /\ UNCHANGED <<queue, calls>>
  BY <1>0 DEF HandOver, BuildFails, Return, Goto, Others
<1>2. Wanted(d, n) /\ IsOnlyAt("in hand", d, n)
  <2>1. Wanted(d, n)
    BY <1>0, <1>d DEF AccountInv, IInv, ItemsMatchCalls, IsReply, Wanted
  <2>2. InHand(d, n)
    BY <1>0, <1>d DEF InHand
  <2>3. PICK q \in Places : IsOnlyAt(q, d, n)
    BY <2>1 DEF AccountInv, ReplyAccounting, IsOnlyAt, Wanted
  <2> QED
    BY <2>1, <2>2, <2>3, PlaceMeans
<1>3. /\ ~ ToCome(d, n) /\ ~ InQueue(d, n) /\ ~ IsHeard(d, n) /\ <<d, n>> \notin lost
  BY <1>2 DEF IsOnlyAt, IsAt, Places
<1>4. ~ ToCome(d, n)' /\ ~ InQueue(d, n)' /\ ~ InHand(d, n)'
  <2>1. ~ ToCome(d, n)' /\ ~ InQueue(d, n)'
    BY <1>1, <1>3 DEF ToCome, InQueue, Others
  <2>2. \A u \in Threads : u # t => ~ Holds(u, d, n)
    BY <1>0, <1>d DEF AccountInv, HeldOnce, Holds
  <2> QED
    BY <1>1, <2>1, <2>2 DEF InHand, Holds, Others
<1>5. PICK p \in {"heard", "lost"} :
        \A c \in Cops : \A i \in Nat :
           /\ IsHeard(c, i)' <=> IsHeard(c, i) \/ (p = "heard" /\ c = d /\ i = n)
           /\ <<c, i>> \in lost' <=> <<c, i>> \in lost \/ (p = "lost" /\ c = d /\ i = n)
  <2>1. CASE HandOver(t)
    <3> DEFINE r == [link |-> job[t].link, idx |-> job[t].idx]
               g == heard[d]
    <3>1. /\ heard' = [heard EXCEPT ![d] = Append(g, r)] /\ lost' = lost
          /\ r.idx = n /\ r \in [link : Links, idx : Nat] /\ g \in Seq([link : Links, idx : Nat])
      BY <1>0, <1>d, <2>1 DEF HandOver, Item
    <3> HIDE DEF r, g
    <3>2. /\ DOMAIN Append(g, r) = 1 .. Len(g) + 1 /\ DOMAIN g = 1 .. Len(g) /\ Len(g) \in Nat
          /\ \A m \in DOMAIN g : Append(g, r)[m] = g[m]
          /\ Append(g, r)[Len(g) + 1] = r
      BY <3>1
    <3>3. \A i \in Nat : (\E m \in DOMAIN Append(g, r) : Append(g, r)[m].idx = i)
                           <=> (\E m \in DOMAIN g : g[m].idx = i) \/ i = n
      <4> DEFINE a == Append(g, r)
      <4> HIDE DEF a
      <4>1. /\ DOMAIN a = 1 .. Len(g) + 1 /\ \A m \in DOMAIN g : a[m] = g[m]
            /\ a[Len(g) + 1].idx = n
        BY <3>1, <3>2 DEF a
      <4>2. \A m \in DOMAIN a : m \in DOMAIN g \/ m = Len(g) + 1
        BY <3>2, <4>1
      <4>3. \A m \in DOMAIN g : m \in DOMAIN a
        BY <3>2, <4>1
      <4>4. Len(g) + 1 \in DOMAIN a
        BY <3>2, <4>1
      <4>5. \A i \in Nat : (\E m \in DOMAIN a : a[m].idx = i)
                             <=> (\E m \in DOMAIN g : g[m].idx = i) \/ i = n
        BY <4>1, <4>2, <4>3, <4>4
      <4> QED
        BY <4>5 DEF a
    <3>4. heard'[d] = Append(g, r) /\ \A c \in Cops : c # d => heard'[c] = heard[c]
      BY <1>0, <3>1
    <3>5. ASSUME NEW c \in Cops, NEW i \in Nat
          PROVE  IsHeard(c, i)' <=> IsHeard(c, i) \/ (c = d /\ i = n)
      BY <3>3, <3>4 DEF IsHeard, g
    <3> QED
      BY <3>1, <3>5
  <2>2. CASE BuildFails(t)
    <3>1. heard' = heard /\ lost' = lost \cup {<<d, n>>}
      BY <1>d, <2>2 DEF BuildFails
    <3> QED
      BY <3>1 DEF IsHeard
  <2> QED
    BY <2>1, <2>2
<1>6. ASSUME NEW c \in Cops, NEW i \in Nat, c # d \/ i # n
      PROVE  LeftAlone(t, c, i)
  BY <1>0, <1>1, <1>d, <1>5, <1>6 DEF LeftAlone, Owes, Holds, InQueue
<1>7. p \in Places /\ IsOnlyAt(p, d, n)'
  <2>1. /\ IsHeard(d, n)' <=> p = "heard"
        /\ <<d, n>> \in lost' <=> p = "lost"
    BY <1>3, <1>5
  <2> QED
    BY <1>4, <2>1 DEF IsOnlyAt, IsAt, Places
<1>8. ReplyAccounting'
  BY <1>1, <1>6, <1>7, AccountKept DEF Wanted
<1>9. HeldOnce'
  BY <1>1 DEF AccountInv, HeldOnce, Holds, Others
<1>10. LostWasCalled'
  BY <1>1, <1>2, <1>5 DEF AccountInv, LostWasCalled, Wanted
<1> QED
  BY <1>8, <1>9, <1>10 DEF Account

(***************************************************************************)
(* A step that changes none of what the account looks at.                  *)
(***************************************************************************)
LEMMA StillAccounted ==
    ASSUME Account, UNCHANGED <<queue, pc, job, calls, heard, lost>>
    PROVE  Account'
<1>1. \A c \in Cops : \A i : \A p \in Places : IsAt(p, c, i)' <=> IsAt(p, c, i)
  BY DEF IsAt, ToCome, InQueue, InHand, IsHeard
<1>2. ReplyAccounting'
  BY <1>1 DEF Account, ReplyAccounting
<1>3. HeldOnce' /\ LostWasCalled'
  BY DEF Account, HeldOnce, Holds, LostWasCalled
<1> QED
  BY <1>2, <1>3 DEF Account

(***************************************************************************)
(* Nothing is accepted, held or lost yet.                                  *)
(***************************************************************************)
LEMMA AccountInit == Init => AccountInv
<1> SUFFICES ASSUME Init PROVE AccountInv
  OBVIOUS
<1>1. ReplyAccounting /\ LostWasCalled
  BY DEF Init, ReplyAccounting, LostWasCalled
<1>2. HeldOnce
  BY DEF Init, HeldOnce, Holds
<1> QED
  BY <1>1, <1>2, InitInv DEF AccountInv

(***************************************************************************)
(* One case per action of Playback.                                        *)
(***************************************************************************)
LEMMA AccountStep == AccountInv /\ [Next]_vars => AccountInv'
<1> SUFFICES ASSUME AccountInv, [Next]_vars PROVE AccountInv'
  OBVIOUS
<1>0. IInv' /\ Account
  BY StepInv DEF AccountInv, Account
<1>1. ASSUME NEW t \in Threads,
             \/ AckOnly(t)
             \/ \E link \in Links, req \in Requests : BeginSend(t, link, req)
             \/ \E link \in Links : BeginPoll(t, link)
      PROVE  Account'
  BY <1>1, QuietSteps
<1>2. ASSUME NEW t \in Threads, Continue(t) PROVE Account'
  <2>1. CASE Lookup(t)
    BY <2>1, LookupMoves
  <2>2. CASE Push(t) \/ PushFails(t) \/ SkipReply(t)
    BY <2>2, PushMoves
  <2>3. CASE LogReply(t) \/ EndSend(t) \/ PollIsEmpty(t)
    BY <2>3, QuietSteps
  <2>4. CASE PollFinds(t)
    BY <2>4, PollMoves
  <2>5. CASE HandOver(t) \/ BuildFails(t)
    BY <2>5, ItemMoves
  <2> QED
    BY <1>2, <2>1, <2>2, <2>3, <2>4, <2>5 DEF Continue
<1>3. ASSUME Tick \/ UNCHANGED vars PROVE Account'
  <2>1. UNCHANGED <<queue, pc, job, calls, heard, lost>>
    BY <1>3 DEF Tick, vars
  <2> QED
    BY <1>0, <2>1, StillAccounted
<1>4. Account'
  BY <1>1, <1>2, <1>3 DEF Next
<1> QED
  BY <1>0, <1>4 DEF AccountInv, Account

(***************************************************************************)
(* AccountInv is an invariant of the data path.                            *)
(***************************************************************************)
LEMMA AccountInvariance == Spec => []AccountInv
BY AccountInit, AccountStep, PTL DEF Spec

(***************************************************************************)
(* No reply of an accepted request is dropped silently or handed out       *)
(* twice: whatever threads push and poll at the same time, and whatever    *)
(* allocation fails, each one is in exactly one place.                     *)
(***************************************************************************)
THEOREM NoReplyGoesAstray == Spec => []ReplyAccounting
<1>1. AccountInv => ReplyAccounting
  BY DEF AccountInv
<1> QED
  BY <1>1, AccountInvariance, PTL

-----------------------------------------------------------------------------
(* The refinement                                                          *)

(***************************************************************************)
(* A lookup is the moment the car accepts the request.                     *)
(***************************************************************************)
LEMMA LookupIsAccept ==
    ASSUME AccountInv, NEW t \in Threads, Lookup(t)
    PROVE  \E c \in Cops, link \in Links, req \in Requests : Car!Accept(c, link, req)
<1>1. /\ job[t] \in Frame /\ calls[job[t].cop] = NoCall
      /\ calls' = [calls EXCEPT ![job[t].cop] =
                      [link |-> job[t].link, req |-> job[t].req, at |-> now]]
      /\ UNCHANGED <<now, heard>>
  BY DEF AccountInv, IInv, TypeOK, LocalsOK, FrameLabels, HandlesAreFresh, Lookup
<1>2. job[t].cop \in Cops /\ job[t].link \in Links /\ job[t].req \in Requests
  BY <1>1 DEF Frame
<1>3. Car!Accept(job[t].cop, job[t].link, job[t].req)
  BY <1>1 DEF Car!Accept
<1> QED
  BY <1>2, <1>3

(***************************************************************************)
(* What a poll holds may be handed over: it was recorded for its request,  *)
(* it is due, it was not heard, and with one reader it follows what was.   *)
(***************************************************************************)
LEMMA HandOverIsDeliver ==
    ASSUME AccountInv, NEW t \in Threads, HandOver(t)
    PROVE  \E c \in Cops : /\ calls[c] # NoCall
                           /\ \E i \in 1 .. Replies[calls[c].req] : Car!Deliver(c, i)
<1> DEFINE c == job[t].cop
           i == job[t].idx
<1>1. /\ pc[t] = "build" /\ job[t] \in Item
      /\ heard' = [heard EXCEPT ![c] = Append(@, [link |-> job[t].link, idx |-> i])]
      /\ UNCHANGED <<now, calls>>
  BY DEF AccountInv, IInv, TypeOK, LocalsOK, HandOver
<1>2. /\ c \in Cops /\ i \in Nat
      /\ calls[c] # NoCall /\ job[t].link = calls[c].link
      /\ i \in 1 .. Len(Script(calls[c].req))
      /\ calls[c].at + Offset[calls[c].req][i] <= now
  BY <1>1 DEF Item, AccountInv, IInv, ItemsMatchCalls, IsReply, DueTime
<1>3. i \in 1 .. Replies[calls[c].req]
  <2>1. calls[c].req \in Requests
    BY <1>2 DEF AccountInv, IInv, TypeOK, Call
  <2> QED
    BY <1>2, <2>1 DEF Replies
<1>4. ~ IsHeard(c, i)
  <2>1. InHand(c, i)
    BY <1>1 DEF InHand
  <2>2. PICK p \in Places : IsOnlyAt(p, c, i)
    BY <1>2 DEF AccountInv, ReplyAccounting, IsOnlyAt
  <2> QED
    BY <2>1, <2>2, PlaceMeans
<1>5. OneReader => \A n \in DOMAIN heard[c] : heard[c][n].idx < i
  BY <1>1 DEF AccountInv, IInv, StagesInOrder
<1>6. Car!Deliver(c, i)
  BY <1>1, <1>2, <1>3, <1>4, <1>5 DEF Car!Deliver, Car!MayFollow, Car!IsHeard, IsHeard
<1> QED
  BY <1>2, <1>3, <1>6

(***************************************************************************)
(* Every step of the code is a step of the car, or changes nothing of it.  *)
(***************************************************************************)
LEMMA StepIsCarStep == AccountInv /\ [Next]_vars => [Car!Next]_(Car!vars)
<1> SUFFICES ASSUME AccountInv, [Next]_vars PROVE Car!Next \/ UNCHANGED Car!vars
  OBVIOUS
<1>1. ASSUME NEW t \in Threads, Lookup(t) PROVE Car!Next
  BY <1>1, LookupIsAccept DEF Car!Next
<1>2. ASSUME NEW t \in Threads, HandOver(t) PROVE Car!Next
  BY <1>2, HandOverIsDeliver DEF Car!Next
<1>3. CASE Tick
  BY <1>3 DEF Tick, Car!Next, Car!Tick
<1>4. ASSUME NEW t \in Threads,
             \/ AckOnly(t)
             \/ \E link \in Links, req \in Requests : BeginSend(t, link, req)
             \/ \E link \in Links : BeginPoll(t, link)
             \/ Push(t) \/ PushFails(t) \/ SkipReply(t) \/ LogReply(t) \/ EndSend(t)
             \/ PollFinds(t) \/ PollIsEmpty(t) \/ BuildFails(t)
      PROVE  UNCHANGED Car!vars
  BY <1>4 DEF Car!vars, AckOnly, BeginSend, BeginPoll, Push, PushFails, SkipReply,
              LogReply, EndSend, PollFinds, PollIsEmpty, BuildFails
<1>5. CASE UNCHANGED vars
  BY <1>5 DEF vars, Car!vars
<1> QED
  BY <1>1, <1>2, <1>3, <1>4, <1>5 DEF Next, Continue

(***************************************************************************)
(* The code implements the car that answers from a script: to the          *)
(* application, threads, list, allocations and log lines are not there.    *)
(***************************************************************************)
THEOREM ImplementsTheCar == Spec => CarSpec
<1>1. Init => Car!Init
  BY DEF Init, Car!Init
<1>2. AccountInv /\ [Next]_vars => [Car!Next]_(Car!vars)
  BY StepIsCarStep
<1> QED
  BY <1>1, <1>2, AccountInvariance, PTL DEF Spec, CarSpec, Car!Spec

=============================================================================
