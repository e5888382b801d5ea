--------------------------- MODULE PlaybackProofs ---------------------------
(***************************************************************************)
(* Proofs about Playback, for every number of threads, links and handles,  *)
(* every script of delays and every outcome of the allocations:            *)
(*    TypeCorrect             TypeOK is an invariant                       *)
(*    Invariance              IInv is an invariant (one lemma per action)  *)
(*    RepliesInRecordedOrder  one reader per link gets replies in order    *)
(*    NothingIsEarly          no reply is handed over early                *)
(***************************************************************************)
EXTENDS Playback, EventQueueProofs, WellFoundedInduction

USE DEF FrameLabels

(***************************************************************************)
(* Induction over the natural numbers, for a set: what holds of 0 and of   *)
(* the next number holds of all.                                           *)
(***************************************************************************)
LEMMA NatSetInduction ==
    ASSUME NEW S, 0 \in S, \A n \in Nat : n \in S => n + 1 \in S
    PROVE  \A n \in Nat : n \in S
<1> DEFINE R == {ss \in Nat \X Nat : ss[1] < ss[2]}
<1>1. IsWellFoundedOn(R, Nat)
  BY NatLessThanWellFounded DEF OpToRel
<1>2. \A x, y \in Nat : x < y => <<x, y>> \in R
  OBVIOUS
<1> HIDE DEF R
<1>3. SUFFICES ASSUME Nat \ S # {} PROVE FALSE
  OBVIOUS
<1>4. PICK x \in Nat \ S : \A y \in Nat \ S : ~ (<<y, x>> \in R)
  BY <1>1, <1>3, WFMin
<1>5. x - 1 \in Nat /\ x - 1 \notin S
  BY <1>4
<1>6. <<x - 1, x>> \in R
  BY <1>2, <1>4, <1>5
<1> QED
  BY <1>4, <1>5, <1>6

(***************************************************************************)
(* A script is a sequence of delays.                                       *)
(***************************************************************************)
LEMMA ScriptIs ==
    ASSUME NEW r \in Requests
    PROVE  /\ Script(r) \in Seq(Nat)
           /\ Len(Script(r)) \in Nat
           /\ \A i \in 1 .. Len(Script(r)) : Script(r)[i] \in Nat
<1>1. Script(r) \in Seq(Nat)
  <2>1. CASE r \in Recorded
    <3>1. Delay[r] \in Seq(Nat)
      BY <2>1, ScriptAssumption
    <3> QED
      BY <2>1, <3>1 DEF Script
  <2>2. CASE r \notin Recorded
    <3>1. NrcDelay \in Nat
      BY ScriptAssumption
    <3> QED
      BY <2>2, <3>1 DEF Script
  <2> QED
    BY <2>1, <2>2
<1> DEFINE s == Script(r)
<1> HIDE DEF s
<1>2. s \in Seq(Nat)
  BY <1>1 DEF s
<1>3. Len(s) \in Nat /\ \A i \in 1 .. Len(s) : s[i] \in Nat
  BY <1>2
<1> QED
  BY <1>2, <1>3 DEF s

(***************************************************************************)
(* f is the running sum of the first n elements of s.                      *)
(***************************************************************************)
IsSum(f, s, n) == f = [i \in 0 .. n |-> IF i = 0 THEN 0 ELSE f[i - 1] + s[i]]

(***************************************************************************)
(* Delays can be summed up.                                                *)
(***************************************************************************)
LEMMA SumExists ==
    ASSUME NEW n \in Nat, NEW s, \A i \in 1 .. n : s[i] \in Nat
    PROVE  \E f \in [0 .. n -> Nat] : IsSum(f, s, n)
<1> DEFINE HasSum(m) == \E f \in [0 .. m -> Nat] : IsSum(f, s, m)
           S == {m \in Nat : m <= n => HasSum(m)}
<1>1. HasSum(0)
  <2> DEFINE f == [i \in 0 .. 0 |-> 0]
  <2>1. f \in [0 .. 0 -> Nat] /\ IsSum(f, s, 0)
    BY DEF IsSum
  <2> QED
    BY <2>1
<1>2. ASSUME NEW m \in 1 .. n, NEW f \in [0 .. m - 1 -> Nat], IsSum(f, s, m - 1)
      PROVE  HasSum(m)
  <2> DEFINE last == f[m - 1] + s[m]
             h == [i \in 0 .. m |-> IF i = m THEN last ELSE f[i]]
  <2>1. last \in Nat
    <3>1. f[m - 1] \in Nat /\ s[m] \in Nat
      BY <1>2
    <3> QED
      BY <3>1
  <2>2. \A i \in 0 .. m - 1 : f[i] = IF i = 0 THEN 0 ELSE f[i - 1] + s[i]
    BY <1>2 DEF IsSum
  <2>3. h[m] = last /\ \A i \in 0 .. m - 1 : h[i] = f[i]
    OBVIOUS
  <2>4. \A i \in 0 .. m : h[i] \in Nat /\ h[i] = IF i = 0 THEN 0 ELSE h[i - 1] + s[i]
    <3> HIDE DEF h
    <3> TAKE i \in 0 .. m
    <3>1. CASE i = m
      BY <2>1, <2>3, <3>1
    <3>2. CASE i # m
      <4>1. i \in 0 .. m - 1 /\ (i # 0 => i - 1 \in 0 .. m - 1)
        BY <3>2
      <4>2. f[i] \in Nat
        BY <1>2, <4>1
      <4> QED
        BY <2>2, <2>3, <4>1, <4>2
    <3> QED
      BY <3>1, <3>2
  <2>5. h \in [0 .. m -> Nat] /\ h = [i \in 0 .. m |-> IF i = 0 THEN 0 ELSE h[i - 1] + s[i]]
    BY <2>4
  <2> HIDE DEF h
  <2> QED
    BY <2>5 DEF IsSum
<1>3. \A m \in Nat : m \in S
  <2>1. 0 \in S
    BY <1>1
  <2>2. ASSUME NEW m \in Nat, m \in S PROVE m + 1 \in S
    <3>1. SUFFICES ASSUME m + 1 <= n PROVE HasSum(m + 1)
      OBVIOUS
    <3> DEFINE k == m + 1
    <3>2. k \in 1 .. n /\ k - 1 = m /\ HasSum(m)
      BY <2>2, <3>1
    <3>3. PICK f \in [0 .. k - 1 -> Nat] : IsSum(f, s, k - 1)
      BY <3>2
    <3> HIDE DEF k, HasSum
    <3>4. HasSum(k)
      BY <1>2, <3>2, <3>3
    <3> QED
      BY <3>4 DEF k
  <2> HIDE DEF S
  <2> QED
    BY <2>1, <2>2, NatSetInduction
<1> QED
  BY <1>3

(***************************************************************************)
(* The offsets of a script: none before the first reply, one delay more    *)
(* for each.                                                               *)
(***************************************************************************)
LEMMA OffsetSums ==
    ASSUME NEW r \in Requests
    PROVE  /\ Offset[r] \in [0 .. Len(Script(r)) -> Nat]
           /\ Offset[r][0] = 0
           /\ \A i \in 1 .. Len(Script(r)) :
                 Offset[r][i] = Offset[r][i - 1] + Script(r)[i]
<1> DEFINE s == Script(r)
           n == Len(s)
           c == CHOOSE f : IsSum(f, s, n)
<1>1. n \in Nat /\ \A i \in 1 .. n : s[i] \in Nat
  BY ScriptIs
<1>2. Offset[r] = c
  BY DEF Offset, IsSum
<1> HIDE DEF s, n
<1>3. PICK f \in [0 .. n -> Nat] : IsSum(f, s, n)
  BY <1>1, SumExists
<1>4. IsSum(c, s, n)
  BY <1>3
<1> HIDE DEF c
<1>5. DOMAIN c = 0 .. n /\ \A i \in 0 .. n : c[i] = IF i = 0 THEN 0 ELSE c[i - 1] + s[i]
  BY <1>4 DEF IsSum
<1>6. \A i \in 0 .. n : c[i] \in Nat
  <2> DEFINE S == {i \in Nat : i <= n => c[i] \in Nat}
  <2>1. 0 \in S
    BY <1>1, <1>5
  <2>2. ASSUME NEW i \in Nat, i \in S PROVE i + 1 \in S
    <3>1. SUFFICES ASSUME i + 1 <= n PROVE c[i + 1] \in Nat
      OBVIOUS
    <3>2. i + 1 \in 1 .. n /\ i + 1 \in 0 .. n /\ (i + 1) - 1 = i
      BY <1>1, <3>1
    <3>3. c[i] \in Nat /\ s[i + 1] \in Nat
      BY <1>1, <2>2, <3>2
    <3>4. c[i + 1] = c[i] + s[i + 1]
      BY <1>5, <3>2
    <3> QED
      BY <3>3, <3>4
  <2>3. \A i \in Nat : i \in S
    <3> HIDE DEF S
    <3> QED
      BY <2>1, <2>2, NatSetInduction
  <2> QED
    BY <1>1, <2>3
<1>7. c[0] = 0 /\ \A i \in 1 .. n : c[i] = c[i - 1] + s[i]
  BY <1>1, <1>5
<1>8. c \in [0 .. n -> Nat]
  <2>1. c = [i \in 0 .. n |-> c[i]]
    BY <1>4 DEF IsSum
  <2> QED
    BY <1>6, <2>1
<1> QED
  BY <1>2, <1>7, <1>8 DEF s, n

(***************************************************************************)
(* The types of a script and its offsets.                                  *)
(***************************************************************************)
LEMMA ScriptType ==
    ASSUME NEW r \in Requests
    PROVE  /\ Script(r) \in Seq(Nat)
           /\ Len(Script(r)) \in Nat
           /\ \A i \in 1 .. Len(Script(r)) : Script(r)[i] \in Nat
           /\ \A i \in 0 .. Len(Script(r)) : Offset[r][i] \in Nat
<1>1. Offset[r] \in [0 .. Len(Script(r)) -> Nat]
  BY OffsetSums
<1> QED
  BY <1>1, ScriptIs

(***************************************************************************)
(* One turn of the loop over the replies adds one delay.                   *)
(***************************************************************************)
LEMMA OffsetStep ==
    ASSUME NEW r \in Requests, NEW i \in 1 .. Len(Script(r))
    PROVE  Offset[r][i] = Offset[r][i - 1] + Script(r)[i]
BY OffsetSums

(***************************************************************************)
(* Counting a reply changes no other local of the loop.                    *)
(***************************************************************************)
LEMMA NextFrame ==
    ASSUME NEW f \in Frame, NEW n \in Nat
    PROVE  LET g == [f EXCEPT !.i = f.i + 1]
               h == [f EXCEPT !.cum = n, !.i = f.i + 1]
           IN  /\ g \in Frame /\ h \in Frame
               /\ g.i = f.i + 1 /\ g.cop = f.cop /\ g.link = f.link
               /\ g.req = f.req /\ g.base = f.base /\ g.cum = f.cum
               /\ h.i = f.i + 1 /\ h.cop = f.cop /\ h.link = f.link
               /\ h.req = f.req /\ h.base = f.base /\ h.cum = n
<1> DEFINE m == f.i + 1
<1>1. m \in Nat
  BY DEF Frame
<1> HIDE DEF m
<1>2. [f EXCEPT !.i = m] \in Frame /\ [f EXCEPT !.cum = n, !.i = m] \in Frame
  BY <1>1 DEF Frame
<1>3. /\ [f EXCEPT !.i = m].i = m /\ [f EXCEPT !.i = m].cop = f.cop
      /\ [f EXCEPT !.i = m].link = f.link /\ [f EXCEPT !.i = m].req = f.req
      /\ [f EXCEPT !.i = m].base = f.base /\ [f EXCEPT !.i = m].cum = f.cum
  BY DEF Frame
<1>4. LET h == [f EXCEPT !.cum = n, !.i = m]
      IN  /\ h.i = m /\ h.cop = f.cop /\ h.link = f.link
          /\ h.req = f.req /\ h.base = f.base /\ h.cum = n
  BY DEF Frame
<1> QED
  BY <1>2, <1>3, <1>4 DEF m

(***************************************************************************)
(* The locals with which the loop begins: no reply sent, no delay added.   *)
(***************************************************************************)
LEMMA FirstFrame ==
    ASSUME NEW f \in Frame, NEW n \in Nat
    PROVE  LET g == [f EXCEPT !.base = n, !.cum = 0, !.i = 1]
           IN  /\ g \in Frame
               /\ g.i = 1 /\ g.cop = f.cop /\ g.link = f.link
               /\ g.req = f.req /\ g.base = n /\ g.cum = 0
BY DEF Frame

(***************************************************************************)
(* Types of what is in the list and in the histories.                      *)
(***************************************************************************)
LEMMA EventTypes ==
    ASSUME TypeOK, NEW k \in DOMAIN queue
    PROVE  /\ queue[k] \in Event
           /\ queue[k].cop \in Cops /\ queue[k].idx \in Nat
           /\ queue[k].link \in Links /\ queue[k].due \in Nat
<1>1. queue[k] \in Event
  BY DEF TypeOK
<1> QED
  BY <1>1 DEF Event

(***************************************************************************)
(* Types of the items handed over.                                         *)
(***************************************************************************)
LEMMA HeardTypes ==
    ASSUME TypeOK, NEW c \in Cops
    PROVE  /\ heard[c] \in Seq([link : Links, idx : Nat])
           /\ \A n \in DOMAIN heard[c] : heard[c][n].link \in Links /\ heard[c][n].idx \in Nat
<1> DEFINE R == [link : Links, idx : Nat]
<1>1. heard[c] \in Seq(R)
  BY DEF TypeOK
<1>2. \A r \in R : r.link \in Links /\ r.idx \in Nat
  OBVIOUS
<1> HIDE DEF R
<1>3. \A n \in DOMAIN heard[c] : heard[c][n] \in R
  BY <1>1
<1> QED
  BY <1>1, <1>2, <1>3 DEF R

(***************************************************************************)
(* The steps that change only the thread's place, its locals and histories *)
(* leave the locals of the other threads alone.                            *)
(***************************************************************************)
LEMMA LocalsKept ==
    ASSUME \A u \in Threads : LocalsOK(u),
           NEW t \in Threads,
           LocalsOK(t)',
           \A u \in Threads : u # t => pc'[u] = pc[u] /\ job'[u] = job[u]
    PROVE  \A u \in Threads : LocalsOK(u)'
<1> SUFFICES ASSUME NEW u \in Threads, u # t PROVE LocalsOK(u)'
  OBVIOUS
<1>1. pc'[u] = pc[u] /\ job'[u] = job[u]
  OBVIOUS
<1> QED
  BY <1>1 DEF LocalsOK

(***************************************************************************)
(* The DLL comes up with an empty list and every thread outside.           *)
(***************************************************************************)
LEMMA InitType == Init => TypeOK
<1> SUFFICES ASSUME Init PROVE TypeOK
  OBVIOUS
<1>1. \A t \in Threads : LocalsOK(t)
  BY DEF Init, LocalsOK
<1>2. queue \in Seq(Event) /\ nextCop \in 0 .. MaxCops
  BY BoundAssumption DEF Init
<1>3. heard \in [Cops -> Seq([link : Links, idx : Nat])]
  BY DEF Init
<1>4. /\ now \in Nat
      /\ pc \in [Threads -> FrameLabels \cup {"idle", "poll", "build"}]
      /\ DOMAIN job = Threads
      /\ freed \in SUBSET (Cops \X Nat)
      /\ calls \in [Cops -> Call \cup {NoCall}]
      /\ lost \in SUBSET (Cops \X Nat)
  BY DEF Init
<1> QED
  BY <1>1, <1>2, <1>3, <1>4 DEF TypeOK

(***************************************************************************)
(* Every action of PDUStartComPrimitive, PDUGetEventItem and the clock     *)
(* keeps the types; what is not plain is the place of each thread and its  *)
(* locals.                                                                 *)
(***************************************************************************)
LEMMA TypeStep == TypeOK /\ [Next]_vars => TypeOK'
<1> SUFFICES ASSUME TypeOK, [Next]_vars PROVE TypeOK'
  OBVIOUS
<1> USE DEF TypeOK, Goto, Return
<1>1. ASSUME NEW t \in Threads, AckOnly(t) PROVE TypeOK'
  <2>1. nextCop' \in 0 .. MaxCops
    BY <1>1, BoundAssumption DEF AckOnly
  <2>2. \A u \in Threads : LocalsOK(u)'
    BY <1>1 DEF AckOnly, LocalsOK
  <2> QED
    BY <1>1, <2>1, <2>2 DEF AckOnly
<1>2. ASSUME NEW t \in Threads, NEW link \in Links, NEW req \in Requests,
             BeginSend(t, link, req)
      PROVE  TypeOK'
  <2>1. nextCop + 1 \in Cops /\ nextCop' \in 0 .. MaxCops
    BY <1>2, BoundAssumption DEF BeginSend, Cops
  <2>2. LocalsOK(t)'
    BY <1>2, <2>1 DEF BeginSend, LocalsOK, Frame
  <2>3. \A u \in Threads : LocalsOK(u)'
    BY <1>2, <2>2, LocalsKept DEF BeginSend
  <2> QED
    BY <1>2, <2>1, <2>3 DEF BeginSend
<1>3. ASSUME NEW t \in Threads, Lookup(t) PROVE TypeOK'
  <2>1. job[t] \in Frame
    BY <1>3 DEF Lookup, LocalsOK
  <2>2. LocalsOK(t)'
    <3>1. pc'[t] = "push" /\ job'[t] = [job[t] EXCEPT !.base = now, !.cum = 0, !.i = 1]
      BY <1>3 DEF Lookup
    <3>2. job'[t] \in Frame /\ job'[t].i = 1 /\ job'[t].req \in Requests
      <4>1. now \in Nat /\ job[t].req \in Requests
        BY <2>1 DEF Frame
      <4> HIDE DEF TypeOK
      <4>2. LET g == [job[t] EXCEPT !.base = now, !.cum = 0, !.i = 1]
            IN  g \in Frame /\ g.i = 1 /\ g.req = job[t].req
        BY <2>1, <4>1, FirstFrame
      <4> QED
        BY <3>1, <4>1, <4>2
    <3> QED
      BY <3>1, <3>2, ScriptType DEF LocalsOK
  <2>3. \A u \in Threads : LocalsOK(u)'
    BY <1>3, <2>2, LocalsKept DEF Lookup
  <2>4. calls' \in [Cops -> Call \cup {NoCall}]
    BY <1>3, <2>1 DEF Lookup, Frame, Call
  <2> QED
    BY <1>3, <2>3, <2>4 DEF Lookup
<1>4. ASSUME NEW t \in Threads, Push(t) PROVE TypeOK'
  <2>1. /\ job[t] \in Frame
        /\ job[t].i \in 1 .. Len(Script(job[t].req))
        /\ CumNow(job[t]) \in Nat
    BY <1>4, ScriptType DEF Push, LocalsOK, Frame, CumNow
  <2>2. LocalsOK(t)'
    BY <1>4, <2>1 DEF Push, LocalsOK, Frame
  <2>3. \A u \in Threads : LocalsOK(u)'
    BY <1>4, <2>2, LocalsKept DEF Push
  <2>4. NewEvent(job[t]) \in Event
    BY <2>1 DEF NewEvent, Event, Frame
  <2>5. queue' \in Seq(Event)
    BY <1>4, <2>4, PushedProperties DEF Push
  <2> QED
    BY <1>4, <2>3, <2>5 DEF Push
<1>5. ASSUME NEW t \in Threads, PushFails(t) PROVE TypeOK'
  <2>1. /\ job[t] \in Frame
        /\ job[t].i \in 1 .. Len(Script(job[t].req))
        /\ CumNow(job[t]) \in Nat
    BY <1>5, ScriptType DEF PushFails, LocalsOK, Frame, CumNow
  <2>2. LocalsOK(t)'
    BY <1>5, <2>1 DEF PushFails, LocalsOK, Frame
  <2>3. \A u \in Threads : LocalsOK(u)'
    BY <1>5, <2>2, LocalsKept DEF PushFails
  <2>4. lost' \in SUBSET (Cops \X Nat)
    BY <1>5, <2>1 DEF PushFails, Frame
  <2> QED
    BY <1>5, <2>3, <2>4 DEF PushFails
<1>6. ASSUME NEW t \in Threads, SkipReply(t) PROVE TypeOK'
  <2>1. /\ job[t] \in Frame
        /\ job[t].i \in 1 .. Len(Script(job[t].req))
        /\ CumNow(job[t]) \in Nat
    BY <1>6, ScriptType DEF SkipReply, LocalsOK, Frame, CumNow
  <2>2. LocalsOK(t)'
    <3>1. pc'[t] = "push"
          /\ job'[t] = [job[t] EXCEPT !.cum = CumNow(job[t]), !.i = job[t].i + 1]
      BY <1>6 DEF SkipReply
    <3>2. /\ job'[t] \in Frame /\ job'[t].req = job[t].req
          /\ job'[t].i = job[t].i + 1 /\ job[t].req \in Requests
      <4> HIDE DEF TypeOK
      <4> QED
        BY <2>1, <3>1, NextFrame DEF Frame
    <3> QED
      BY <2>1, <3>1, <3>2, ScriptType DEF LocalsOK
  <2>3. \A u \in Threads : LocalsOK(u)'
    BY <1>6, <2>2, LocalsKept DEF SkipReply
  <2>4. lost' \in SUBSET (Cops \X Nat)
    BY <1>6, <2>1 DEF SkipReply, Frame
  <2> QED
    BY <1>6, <2>3, <2>4 DEF SkipReply
<1>7. ASSUME NEW t \in Threads, LogReply(t) PROVE TypeOK'
  <2>1. job[t] \in Frame /\ job[t].i \in 1 .. Len(Script(job[t].req))
    BY <1>7 DEF LogReply, LocalsOK
  <2>2. LocalsOK(t)'
    <3>1. pc'[t] = "push" /\ job'[t] = [job[t] EXCEPT !.i = job[t].i + 1]
      BY <1>7 DEF LogReply
    <3>2. /\ job'[t] \in Frame /\ job'[t].req = job[t].req
          /\ job'[t].i = job[t].i + 1 /\ job[t].req \in Requests
      <4> HIDE DEF TypeOK
      <4> QED
        BY <2>1, <3>1, NextFrame DEF Frame
    <3> QED
      BY <2>1, <3>1, <3>2, ScriptType DEF LocalsOK
  <2>3. \A u \in Threads : LocalsOK(u)'
    BY <1>7, <2>2, LocalsKept DEF LogReply
  <2> QED
    BY <1>7, <2>3 DEF LogReply
<1>8. ASSUME NEW t \in Threads, EndSend(t) PROVE TypeOK'
  <2>1. \A u \in Threads : LocalsOK(u)'
    BY <1>8, LocalsKept DEF EndSend, LocalsOK
  <2> QED
    BY <1>8, <2>1 DEF EndSend
<1>9. ASSUME NEW t \in Threads, NEW link \in Links, BeginPoll(t, link) PROVE TypeOK'
  <2>1. LocalsOK(t)'
    BY <1>9 DEF BeginPoll, LocalsOK, Poll
  <2>2. \A u \in Threads : LocalsOK(u)'
    BY <1>9, <2>1, LocalsKept DEF BeginPoll
  <2> QED
    BY <1>9, <2>2 DEF BeginPoll
<1>10. ASSUME NEW t \in Threads, PollFinds(t) PROVE TypeOK'
  <2>1. job[t] \in Poll
    BY <1>10 DEF PollFinds, LocalsOK
  <2>2. PICK k \in DOMAIN queue :
          /\ queue' = Detached(queue, k)
          /\ job' = [job EXCEPT ![t] = [link |-> job[t].link,
                                        cop |-> queue[k].cop, idx |-> queue[k].idx]]
    BY <1>10 DEF PollFinds
  <2>3. queue[k] \in Event
    OBVIOUS
  <2>4. queue' \in Seq(Event)
    BY <2>2, DetachedProperties
  <2>5. LocalsOK(t)'
    BY <1>10, <2>1, <2>2, <2>3 DEF PollFinds, LocalsOK, Poll, Item, Event
  <2>6. \A u \in Threads : LocalsOK(u)'
    BY <1>10, <2>2, <2>5, LocalsKept DEF PollFinds
  <2> QED
    BY <1>10, <2>2, <2>4, <2>6 DEF PollFinds
<1>11. ASSUME NEW t \in Threads, PollIsEmpty(t) PROVE TypeOK'
  <2>1. \A u \in Threads : LocalsOK(u)'
    BY <1>11, LocalsKept DEF PollIsEmpty, LocalsOK
  <2> QED
    BY <1>11, <2>1 DEF PollIsEmpty
<1>12. ASSUME NEW t \in Threads, HandOver(t) PROVE TypeOK'
  <2>1. \A u \in Threads : LocalsOK(u)'
    BY <1>12, LocalsKept DEF HandOver, LocalsOK
  <2>2. job[t] \in Item
    BY <1>12 DEF HandOver, LocalsOK
  <2>3. heard' \in [Cops -> Seq([link : Links, idx : Nat])]
    <3> DEFINE h == [link |-> job[t].link, idx |-> job[t].idx]
    <3>1. h \in [link : Links, idx : Nat] /\ job[t].cop \in Cops
      BY <2>2 DEF Item
    <3>2. heard[job[t].cop] \in Seq([link : Links, idx : Nat])
      BY <3>1
    <3>3. Append(heard[job[t].cop], h) \in Seq([link : Links, idx : Nat])
      BY <3>1, <3>2, AppendProperties
    <3> QED
      BY <1>12, <3>3 DEF HandOver
  <2>4. freed' \in SUBSET (Cops \X Nat)
    BY <1>12, <2>2 DEF HandOver, Item
  <2> QED
    BY <1>12, <2>1, <2>3, <2>4 DEF HandOver
<1>13. ASSUME NEW t \in Threads, BuildFails(t) PROVE TypeOK'
  <2>1. \A u \in Threads : LocalsOK(u)'
    BY <1>13, LocalsKept DEF BuildFails, LocalsOK
  <2>2. job[t] \in Item
    BY <1>13 DEF BuildFails, LocalsOK
  <2>3. freed' \in SUBSET (Cops \X Nat) /\ lost' \in SUBSET (Cops \X Nat)
    BY <1>13, <2>2 DEF BuildFails, Item
  <2> QED
    BY <1>13, <2>1, <2>3 DEF BuildFails
<1>14. ASSUME Tick PROVE TypeOK'
  <2>1. \A u \in Threads : LocalsOK(u)'
    BY <1>14 DEF Tick, LocalsOK
  <2>2. now' \in Nat
    BY <1>14 DEF Tick
  <2> QED
    BY <1>14, <2>1, <2>2 DEF Tick
<1>15. ASSUME UNCHANGED vars PROVE TypeOK'
  <2>1. \A u \in Threads : LocalsOK(u)'
    BY <1>15 DEF vars, LocalsOK
  <2> QED
    BY <1>15, <2>1 DEF vars
<1> QED
  BY <1>1, <1>2, <1>3, <1>4, <1>5, <1>6, <1>7, <1>8, <1>9, <1>10, <1>11, <1>12,
     <1>13, <1>14, <1>15 DEF Next, Continue

(***************************************************************************)
(* The values of every variable, and of the locals of every call, are of   *)
(* the expected kind, whatever the threads and the recording.              *)
(***************************************************************************)
THEOREM TypeCorrect == Spec => []TypeOK
BY InitType, TypeStep, PTL DEF Spec

-----------------------------------------------------------------------------
(* What a step that does not touch them leaves true                        *)

Sending(t) == pc[t] \in {"push", "log"}

(***************************************************************************)
(* The three ways a step may leave a thread: its handle, the state of its  *)
(* loop over the replies, the poll it is in with the item it took.         *)
(***************************************************************************)
KeepsHandle(t) ==
    pc'[t] \in FrameLabels =>
        /\ pc[t] \in FrameLabels
        /\ pc'[t] = "lookup" => pc[t] = "lookup"
        /\ job'[t].cop = job[t].cop

KeepsLoop(t) ==
    Sending(t)' =>
        /\ Sending(t)
        /\ job'[t].cop = job[t].cop /\ job'[t].link = job[t].link
        /\ job'[t].req = job[t].req /\ job'[t].base = job[t].base
        /\ job'[t].cum = job[t].cum
        /\ LastSent(t)' = LastSent(t)

KeepsItem(t) == pc'[t] = "build" => pc[t] = "build" /\ job'[t] = job[t]

KeepsPoll(t) ==
    /\ KeepsItem(t)
    /\ pc'[t] = "poll" => pc[t] = "poll" /\ job'[t] = job[t]

(***************************************************************************)
(* Handles stay fresh while no new one is given out.                       *)
(***************************************************************************)
LEMMA HandlesKept ==
    ASSUME HandlesAreFresh,
           \A t \in Threads : KeepsHandle(t),
           nextCop' = nextCop, calls' = calls,
           \A c \in Cops : calls[c] = NoCall => heard'[c] = heard[c]
    PROVE  HandlesAreFresh'
BY DEF HandlesAreFresh, KeepsHandle

(***************************************************************************)
(* A loop that did not move still agrees with the call it serves.          *)
(***************************************************************************)
LEMMA FramesKept ==
    ASSUME FramesMatchCalls,
           \A t \in Threads : KeepsLoop(t),
           calls' = calls
    PROVE  FramesMatchCalls'
<1> SUFFICES ASSUME NEW t \in Threads, Sending(t)'
             PROVE  /\ calls'[job'[t].cop] = [link |-> job'[t].link, req |-> job'[t].req,
                                              at |-> job'[t].base]
                    /\ job'[t].cum = Offset[job'[t].req][LastSent(t)']
  BY DEF FramesMatchCalls, Sending
<1> QED
  BY DEF FramesMatchCalls, KeepsLoop, Sending

(***************************************************************************)
(* The events of a list that did not change still answer their calls, in   *)
(* order.                                                                  *)
(***************************************************************************)
LEMMA QueueKept ==
    ASSUME QueueMatchesCalls, QueueInScriptOrder, queue' = queue, calls' = calls
    PROVE  QueueMatchesCalls' /\ QueueInScriptOrder'
BY DEF QueueMatchesCalls, QueueInScriptOrder, IsReply, DueTime

(***************************************************************************)
(* A poll that did not move still holds what it held.                      *)
(***************************************************************************)
LEMMA ItemsKept ==
    ASSUME ItemsMatchCalls,
           \A t \in Threads : KeepsPoll(t),
           calls' = calls, now' = now
    PROVE  ItemsMatchCalls'
BY DEF ItemsMatchCalls, KeepsPoll, KeepsItem, IsReply, DueTime

(***************************************************************************)
(* What was handed over still answers its call.                            *)
(***************************************************************************)
LEMMA HeardKept ==
    ASSUME HeardMatchesCalls, heard' = heard, calls' = calls, now' = now
    PROVE  HeardMatchesCalls'
BY DEF HeardMatchesCalls, IsReply, DueTime

(***************************************************************************)
(* The loops stay ahead of a list that did not change.                     *)
(***************************************************************************)
LEMMA LoopKept ==
    ASSUME LoopIsAhead,
           \A t \in Threads : KeepsLoop(t) /\ KeepsItem(t),
           queue' = queue, heard' = heard
    PROVE  LoopIsAhead'
<1> SUFFICES ASSUME NEW t \in Threads, Sending(t)'
             PROVE
        /\ \A k \in DOMAIN queue : queue[k].cop = job'[t].cop =>
              queue[k].idx <= LastSent(t)' /\ queue[k].due <= job'[t].base + job'[t].cum
        /\ \A u \in Threads : pc'[u] = "build" /\ job'[u].cop = job'[t].cop =>
              job'[u].idx <= LastSent(t)'
        /\ \A n \in DOMAIN heard[job'[t].cop] :
              heard[job'[t].cop][n].idx <= LastSent(t)'
  BY DEF LoopIsAhead, Sending
<1>1. /\ Sending(t)
      /\ job'[t].cop = job[t].cop /\ job'[t].base = job[t].base /\ job'[t].cum = job[t].cum
      /\ LastSent(t)' = LastSent(t)
  BY DEF KeepsLoop
<1>2. \A u \in Threads : pc'[u] = "build" => pc[u] = "build" /\ job'[u] = job[u]
  BY DEF KeepsItem
<1> QED
  BY <1>1, <1>2 DEF LoopIsAhead, Sending

(***************************************************************************)
(* No second reader comes to a link when no poll begins.                   *)
(***************************************************************************)
LEMMA ReadersKept ==
    ASSUME SoleReader, \A t \in Threads : KeepsPoll(t)
    PROVE  SoleReader'
BY DEF SoleReader, KeepsPoll, KeepsItem, IsReading

(***************************************************************************)
(* The order of the stages stays when nothing moves from one to the next.  *)
(***************************************************************************)
LEMMA StagesKept ==
    ASSUME StagesInOrder, \A t \in Threads : KeepsItem(t), queue' = queue, heard' = heard
    PROVE  StagesInOrder'
BY DEF StagesInOrder, KeepsItem

(***************************************************************************)
(* A thread that does not move keeps everything, and so does one that      *)
(* leaves its call.                                                        *)
(***************************************************************************)
Keeps(t) == KeepsHandle(t) /\ KeepsLoop(t) /\ KeepsPoll(t)

(***************************************************************************)
(* A thread that does not move keeps everything.                           *)
(***************************************************************************)
LEMMA StillKeeps ==
    ASSUME NEW t, pc'[t] = pc[t], job'[t] = job[t]
    PROVE  Keeps(t)
BY DEF Keeps, KeepsHandle, KeepsLoop, KeepsPoll, KeepsItem, Sending, LastSent

(***************************************************************************)
(* A thread that leaves its call holds nothing any more.                   *)
(***************************************************************************)
LEMMA IdleKeeps ==
    ASSUME NEW t, pc'[t] = "idle"
    PROVE  Keeps(t)
BY DEF Keeps, KeepsHandle, KeepsLoop, KeepsPoll, KeepsItem, Sending

(***************************************************************************)
(* A step after which every thread keeps what it had, and which changes no *)
(* variable but those two and the histories no property of order reads.    *)
(***************************************************************************)
LEMMA QuietStep ==
    ASSUME IInv, TypeOK', \A t \in Threads : Keeps(t),
           UNCHANGED <<now, queue, nextCop, calls, heard>>
    PROVE  IInv'
<1>1. HandlesAreFresh'
  BY HandlesKept DEF IInv, Keeps
<1>2. FramesMatchCalls'
  BY FramesKept DEF IInv, Keeps
<1>3. QueueMatchesCalls' /\ QueueInScriptOrder'
  BY QueueKept DEF IInv
<1>4. ItemsMatchCalls'
  BY ItemsKept DEF IInv, Keeps
<1>5. HeardMatchesCalls'
  BY HeardKept DEF IInv
<1>6. LoopIsAhead'
  BY LoopKept DEF IInv, Keeps, KeepsPoll
<1>7. OneReader => SoleReader' /\ StagesInOrder' /\ RecordedOrder'
  BY ReadersKept, StagesKept DEF IInv, Keeps, KeepsPoll, RecordedOrder
<1> QED
  BY <1>1, <1>2, <1>3, <1>4, <1>5, <1>6, <1>7 DEF IInv

-----------------------------------------------------------------------------
(* One lemma per step that disturbs the order                              *)

(***************************************************************************)
(* A handle given out without a request: only the counter moves.           *)
(***************************************************************************)
LEMMA AckOnlyStep ==
    ASSUME IInv, TypeOK', NEW t \in Threads, AckOnly(t)
    PROVE  IInv'
<1>1. \A u \in Threads : Keeps(u)
  BY StillKeeps DEF AckOnly
<1>2. nextCop \in Nat /\ nextCop' = nextCop + 1
  BY DEF IInv, TypeOK, AckOnly
<1>3. HandlesAreFresh'
  <2>1. UNCHANGED <<pc, job, calls, heard>>
    BY DEF AckOnly
  <2>2. \A u \in Threads : pc[u] \in FrameLabels => job[u].cop \in Int
    BY DEF IInv, TypeOK, LocalsOK, Frame, Cops
  <2>3. \A c \in Cops : c \in Int
    BY DEF Cops
  <2> QED
    BY <1>2, <2>1, <2>2, <2>3 DEF IInv, HandlesAreFresh
<1> QED
  <2>1. UNCHANGED <<now, queue, pc, job, calls, heard>>
    BY DEF AckOnly
  <2>2. FramesMatchCalls' /\ LoopIsAhead'
    BY <1>1, <2>1, FramesKept, LoopKept DEF IInv, Keeps, KeepsPoll
  <2>3. QueueMatchesCalls' /\ QueueInScriptOrder' /\ HeardMatchesCalls' /\ ItemsMatchCalls'
    BY <1>1, <2>1, QueueKept, HeardKept, ItemsKept DEF IInv, Keeps
  <2>4. OneReader => SoleReader' /\ StagesInOrder' /\ RecordedOrder'
    BY <1>1, <2>1, ReadersKept, StagesKept DEF IInv, Keeps, KeepsPoll, RecordedOrder
  <2> QED
    BY <1>3, <2>2, <2>3, <2>4 DEF IInv

(***************************************************************************)
(* The new call has a handle nobody else holds.                            *)
(***************************************************************************)
LEMMA BeginSendStep ==
    ASSUME IInv, TypeOK', NEW t \in Threads, NEW link \in Links, NEW req \in Requests,
           BeginSend(t, link, req)
    PROVE  IInv'
<1>1. /\ pc[t] = "idle" /\ pc'[t] = "lookup" /\ job'[t].cop = nextCop + 1
      /\ nextCop' = nextCop + 1 /\ nextCop \in Nat /\ nextCop + 1 \in Cops
      /\ \A u \in Threads : u # t => pc'[u] = pc[u] /\ job'[u] = job[u]
      /\ UNCHANGED <<now, queue, calls, heard>>
  BY BoundAssumption DEF IInv, TypeOK, BeginSend, Goto, Cops
<1>2. \A u \in Threads : KeepsLoop(u) /\ KeepsPoll(u)
  BY <1>1, StillKeeps DEF Keeps, KeepsLoop, KeepsPoll, KeepsItem, Sending
<1>3. HandlesAreFresh'
  <2>1. \A c \in Cops : c \in Int
    BY DEF Cops
  <2>2. \A u \in Threads : pc[u] \in FrameLabels => job[u].cop \in Int /\ job[u].cop <= nextCop
    BY DEF IInv, TypeOK, LocalsOK, Frame, Cops, HandlesAreFresh
  <2>3. \A u \in Threads : pc'[u] \in FrameLabels => job'[u].cop <= nextCop'
    BY <1>1, <2>2
  <2>4. \A u \in Threads : pc'[u] = "lookup" => calls'[job'[u].cop] = NoCall
    BY <1>1 DEF IInv, HandlesAreFresh
  <2>5. \A u, v \in Threads :
          pc'[u] \in FrameLabels /\ pc'[v] \in FrameLabels /\ u # v => job'[u].cop # job'[v].cop
    BY <1>1, <2>2 DEF IInv, HandlesAreFresh
  <2>6. \A c \in Cops : c > nextCop' => calls'[c] = NoCall
    BY <1>1, <2>1 DEF IInv, HandlesAreFresh
  <2>7. \A c \in Cops : calls'[c] = NoCall => heard'[c] = << >>
    BY <1>1 DEF IInv, HandlesAreFresh
  <2> QED
    BY <2>3, <2>4, <2>5, <2>6, <2>7 DEF HandlesAreFresh
<1>4. FramesMatchCalls' /\ LoopIsAhead'
  BY <1>1, <1>2, FramesKept, LoopKept DEF IInv, KeepsPoll
<1>5. QueueMatchesCalls' /\ QueueInScriptOrder' /\ HeardMatchesCalls' /\ ItemsMatchCalls'
  BY <1>1, <1>2, QueueKept, HeardKept, ItemsKept DEF IInv
<1>6. OneReader => SoleReader' /\ StagesInOrder' /\ RecordedOrder'
  BY <1>1, <1>2, ReadersKept, StagesKept DEF IInv, KeepsPoll, RecordedOrder
<1> QED
  BY <1>3, <1>4, <1>5, <1>6 DEF IInv

(***************************************************************************)
(* The call is accepted under its handle, of which nothing is queued, held *)
(* by a poll or handed over yet.                                           *)
(***************************************************************************)
LEMMA LookupStep ==
    ASSUME IInv, TypeOK', NEW t \in Threads, Lookup(t)
    PROVE  IInv'
<1> DEFINE f == job[t]
           call == [link |-> f.link, req |-> f.req, at |-> now]
<1>1. /\ f \in Frame /\ f.cop \in Cops /\ f.link \in Links /\ f.req \in Requests /\ f.cum \in Nat
      /\ call \in Call /\ call # NoCall /\ now \in Nat
  BY NullAssumption DEF IInv, TypeOK, LocalsOK, Lookup, Frame, Call
<1>2. /\ pc[t] = "lookup" /\ pc'[t] = "push"
      /\ job'[t] = [f EXCEPT !.base = now, !.cum = 0, !.i = 1]
      /\ \A u \in Threads : u # t => pc'[u] = pc[u] /\ job'[u] = job[u]
      /\ calls' = [calls EXCEPT ![f.cop] = call]
      /\ UNCHANGED <<now, queue, nextCop, heard>>
  BY DEF IInv, TypeOK, Lookup, Goto
<1>3. /\ job'[t].cop = f.cop /\ job'[t].link = f.link /\ job'[t].req = f.req
      /\ job'[t].base = now /\ job'[t].cum = 0 /\ job'[t].i = 1
  BY <1>1, <1>2 DEF Frame
<1>4. calls[f.cop] = NoCall /\ heard[f.cop] = << >>
  BY <1>1, <1>2 DEF IInv, HandlesAreFresh
<1>5. /\ calls'[f.cop] = call
      /\ \A c \in Cops : c # f.cop => calls'[c] = calls[c]
      /\ \A c \in Cops : calls[c] # NoCall => calls'[c] = calls[c]
  BY <1>1, <1>2, <1>4 DEF IInv, TypeOK
<1> HIDE DEF f, call
<1>6. HandlesAreFresh'
  <2>1. \A u \in Threads : pc'[u] \in FrameLabels => pc[u] \in FrameLabels /\ job'[u].cop = job[u].cop
    BY <1>2, <1>3 DEF f
  <2>2. \A u \in Threads : pc'[u] \in FrameLabels => job'[u].cop <= nextCop'
    BY <1>2, <2>1 DEF IInv, HandlesAreFresh
  <2>3. \A u \in Threads : pc'[u] = "lookup" => calls'[job'[u].cop] = NoCall
    <3> SUFFICES ASSUME NEW u \in Threads, pc'[u] = "lookup"
                 PROVE  calls'[job'[u].cop] = NoCall
      OBVIOUS
    <3>1. u # t /\ pc[u] = "lookup" /\ job'[u] = job[u]
      BY <1>2
    <3>2. job[u].cop # f.cop /\ calls[job[u].cop] = NoCall
      BY <1>2, <3>1 DEF IInv, HandlesAreFresh, f
    <3>3. job[u].cop \in Cops
      BY <3>1 DEF IInv, TypeOK, LocalsOK, Frame
    <3> QED
      BY <1>5, <3>1, <3>2, <3>3
  <2>4. \A u, v \in Threads :
          pc'[u] \in FrameLabels /\ pc'[v] \in FrameLabels /\ u # v => job'[u].cop # job'[v].cop
    BY <2>1 DEF IInv, HandlesAreFresh
  <2>5. \A c \in Cops : c > nextCop' => calls'[c] = NoCall
    <3>1. f.cop <= nextCop /\ f.cop \in Int /\ nextCop \in Int
      BY <1>1, <1>2 DEF IInv, HandlesAreFresh, TypeOK, f, Cops
    <3>2. \A c \in Cops : c \in Int
      BY DEF Cops
    <3> QED
      BY <1>2, <1>5, <3>1, <3>2 DEF IInv, HandlesAreFresh
  <2>6. \A c \in Cops : calls'[c] = NoCall => heard'[c] = << >>
    BY <1>1, <1>2, <1>5 DEF IInv, HandlesAreFresh
  <2> QED
    BY <2>2, <2>3, <2>4, <2>5, <2>6 DEF HandlesAreFresh
<1>7. FramesMatchCalls'
  <2> SUFFICES ASSUME NEW u \in Threads, Sending(u)'
               PROVE  /\ calls'[job'[u].cop] =
                           [link |-> job'[u].link, req |-> job'[u].req, at |-> job'[u].base]
                      /\ job'[u].cum = Offset[job'[u].req][LastSent(u)']
    BY DEF FramesMatchCalls, Sending
  <2>1. CASE u = t
    <3>1. LastSent(t)' = 0
      BY <1>2, <1>3 DEF LastSent
    <3> QED
      BY <2>1, <1>1, <1>3, <1>5, <3>1, OffsetSums DEF call
  <2>2. CASE u # t
    <3>1. Sending(u) /\ job'[u] = job[u] /\ LastSent(u)' = LastSent(u)
      BY <2>2, <1>2 DEF Sending, LastSent
    <3>2. job[u].cop \in Cops /\ job[u].cop # f.cop
      BY <2>2, <3>1, <1>2 DEF Sending, IInv, TypeOK, LocalsOK, Frame, HandlesAreFresh, f
    <3> QED
      BY <3>1, <3>2, <1>5 DEF IInv, FramesMatchCalls, Sending
  <2> QED
    BY <2>1, <2>2
<1>8. QueueMatchesCalls' /\ QueueInScriptOrder'
  <2>1. \A k \in DOMAIN queue : queue[k].cop \in Cops
    BY EventTypes DEF IInv
  <2>2. \A k \in DOMAIN queue : calls'[queue[k].cop] = calls[queue[k].cop]
    <3> SUFFICES ASSUME NEW k \in DOMAIN queue PROVE calls'[queue[k].cop] = calls[queue[k].cop]
      OBVIOUS
    <3>1. calls[queue[k].cop] # NoCall
      BY DEF IInv, QueueMatchesCalls, IsReply
    <3> QED
      BY <1>5, <2>1, <3>1
  <2> QED
    BY <1>2, <2>2 DEF IInv, QueueMatchesCalls, QueueInScriptOrder, IsReply, DueTime
<1>9. \A u \in Threads : KeepsPoll(u)
  BY <1>2 DEF KeepsPoll, KeepsItem
<1>10. ItemsMatchCalls'
  <2>1. \A u \in Threads : pc[u] = "build" => job[u].cop \in Cops
    BY DEF IInv, TypeOK, LocalsOK, Item
  <2> QED
    BY <1>2, <1>5, <1>9, <2>1 DEF IInv, ItemsMatchCalls, KeepsPoll, KeepsItem, IsReply, DueTime
<1>11. HeardMatchesCalls'
  BY <1>2, <1>5 DEF IInv, HeardMatchesCalls, IsReply, DueTime
<1>12. LoopIsAhead'
  <2> SUFFICES ASSUME NEW u \in Threads, Sending(u)'
               PROVE
        /\ \A k \in DOMAIN queue : queue[k].cop = job'[u].cop =>
              queue[k].idx <= LastSent(u)' /\ queue[k].due <= job'[u].base + job'[u].cum
        /\ \A v \in Threads : pc'[v] = "build" /\ job'[v].cop = job'[u].cop =>
              job'[v].idx <= LastSent(u)'
        /\ \A n \in DOMAIN heard[job'[u].cop] :
              heard[job'[u].cop][n].idx <= LastSent(u)'
    BY <1>2 DEF LoopIsAhead, Sending
  <2>0. \A v \in Threads : pc'[v] = "build" => pc[v] = "build" /\ job'[v] = job[v]
    BY <1>9 DEF KeepsPoll, KeepsItem
  <2>1. CASE u = t
    <3>1. \A k \in DOMAIN queue : queue[k].cop # f.cop
      BY <1>4 DEF IInv, QueueMatchesCalls, IsReply
    <3>2. \A v \in Threads : pc'[v] = "build" => job'[v].cop # f.cop
      BY <1>4, <2>0 DEF IInv, ItemsMatchCalls, IsReply
    <3> QED
      BY <2>1, <1>3, <1>4, <3>1, <3>2
  <2>2. CASE u # t
    <3>1. Sending(u) /\ job'[u] = job[u] /\ LastSent(u)' = LastSent(u)
      BY <2>2, <1>2 DEF Sending, LastSent
    <3> QED
      BY <3>1, <2>0 DEF IInv, LoopIsAhead, Sending
  <2> QED
    BY <2>1, <2>2
<1>13. OneReader => SoleReader' /\ StagesInOrder' /\ RecordedOrder'
  BY <1>2, <1>9, ReadersKept, StagesKept DEF IInv, KeepsPoll, RecordedOrder
<1> QED
  BY <1>6, <1>7, <1>8, <1>10, <1>11, <1>12, <1>13 DEF IInv

(***************************************************************************)
(* The three ways a turn of the loop begins: the reply is pushed, its node *)
(* cannot be allocated, or its buffer cannot.  In each, the cumulative     *)
(* delay moves on, and the reply becomes the last one dealt with.          *)
(***************************************************************************)
Advances(t) ==
    /\ pc[t] = "push" /\ Sending(t)'
    /\ job[t] \in Frame /\ job[t].i \in 1 .. Len(Script(job[t].req))
    /\ CumNow(job[t]) \in Nat /\ job[t].cum <= CumNow(job[t])
    /\ job'[t].cop = job[t].cop /\ job'[t].link = job[t].link
    /\ job'[t].req = job[t].req /\ job'[t].base = job[t].base
    /\ job'[t].cum = CumNow(job[t])
    /\ LastSent(t)' = job[t].i
    /\ \A u \in Threads : u # t => pc'[u] = pc[u] /\ job'[u] = job[u]
    /\ UNCHANGED <<now, nextCop, calls, heard>>

(***************************************************************************)
(* In the loop, the next reply exists and its delay does not lower the     *)
(* sum.                                                                    *)
(***************************************************************************)
LEMMA SendingFrame ==
    ASSUME TypeOK, NEW t \in Threads, pc[t] = "push",
           job[t].i <= Len(Script(job[t].req))
    PROVE  /\ job[t] \in Frame /\ job[t].i \in 1 .. Len(Script(job[t].req))
           /\ CumNow(job[t]) \in Nat /\ job[t].cum <= CumNow(job[t])
<1>1. job[t] \in Frame /\ job[t].i \in 1 .. Len(Script(job[t].req))
  BY ScriptType DEF TypeOK, LocalsOK, Frame
<1>2. /\ job[t].cum \in Nat
      /\ Script(job[t].req)[job[t].i] \in Nat
  BY <1>1, ScriptType DEF Frame
<1> QED
  BY <1>1, <1>2 DEF CumNow

(***************************************************************************)
(* A push, successful or not, is one turn of the loop.                     *)
(***************************************************************************)
LEMMA PushAdvances ==
    ASSUME TypeOK, NEW t \in Threads, Push(t) \/ PushFails(t)
    PROVE  Advances(t)
<1>1. /\ pc[t] = "push" /\ job[t].i <= Len(Script(job[t].req))
      /\ pc'[t] = "log" /\ job'[t] = [job[t] EXCEPT !.cum = CumNow(job[t])]
      /\ \A u \in Threads : u # t => pc'[u] = pc[u] /\ job'[u] = job[u]
      /\ UNCHANGED <<now, nextCop, calls, heard>>
  BY DEF TypeOK, Push, PushFails, Goto
<1>2. job[t] \in Frame
  BY <1>1, SendingFrame
<1>3. /\ job'[t].cop = job[t].cop /\ job'[t].link = job[t].link
      /\ job'[t].req = job[t].req /\ job'[t].base = job[t].base
      /\ job'[t].cum = CumNow(job[t]) /\ job'[t].i = job[t].i
  BY <1>1, <1>2 DEF Frame
<1>4. Sending(t)' /\ LastSent(t)' = job[t].i
  BY <1>1, <1>3 DEF Sending, LastSent
<1> QED
  BY <1>1, <1>3, <1>4, SendingFrame DEF Advances

(***************************************************************************)
(* So is a reply whose buffer could not be allocated.                      *)
(***************************************************************************)
LEMMA SkipAdvances ==
    ASSUME TypeOK, NEW t \in Threads, SkipReply(t)
    PROVE  Advances(t)
<1>1. /\ pc[t] = "push" /\ job[t].i <= Len(Script(job[t].req))
      /\ pc'[t] = "push"
      /\ job'[t] = [job[t] EXCEPT !.cum = CumNow(job[t]), !.i = job[t].i + 1]
      /\ \A u \in Threads : u # t => pc'[u] = pc[u] /\ job'[u] = job[u]
      /\ UNCHANGED <<now, nextCop, calls, heard>>
  BY DEF TypeOK, SkipReply
<1>2. job[t] \in Frame /\ CumNow(job[t]) \in Nat /\ job[t].i \in Nat
  BY <1>1, SendingFrame DEF Frame
<1>3. /\ job'[t].cop = job[t].cop /\ job'[t].link = job[t].link
      /\ job'[t].req = job[t].req /\ job'[t].base = job[t].base
      /\ job'[t].cum = CumNow(job[t]) /\ job'[t].i = job[t].i + 1
  <2>1. LET h == [job[t] EXCEPT !.cum = CumNow(job[t]), !.i = job[t].i + 1]
        IN  /\ h.i = job[t].i + 1 /\ h.cop = job[t].cop /\ h.link = job[t].link
            /\ h.req = job[t].req /\ h.base = job[t].base /\ h.cum = CumNow(job[t])
    BY <1>2, NextFrame
  <2> QED
    BY <1>1, <2>1
<1>4. Sending(t)' /\ LastSent(t)' = job[t].i
  BY <1>1, <1>2, <1>3 DEF Sending, LastSent
<1> QED
  BY <1>1, <1>3, <1>4, SendingFrame DEF Advances

(***************************************************************************)
(* What such a step does to everything but the list.                       *)
(***************************************************************************)
LEMMA AdvanceStep ==
    ASSUME IInv, NEW t \in Threads, Advances(t)
    PROVE  /\ HandlesAreFresh' /\ FramesMatchCalls' /\ ItemsMatchCalls' /\ HeardMatchesCalls'
           /\ OneReader => SoleReader' /\ RecordedOrder'
           /\ \A u \in Threads : KeepsPoll(u)
           /\ \A u \in Threads : u # t => KeepsLoop(u)
<1>1. \A u \in Threads : u # t => Keeps(u)
  BY StillKeeps DEF Advances
<1>2. KeepsHandle(t) /\ KeepsPoll(t)
  BY DEF Advances, KeepsHandle, KeepsPoll, KeepsItem, Sending
<1>3. HandlesAreFresh'
  BY <1>1, <1>2, HandlesKept DEF IInv, Keeps, Advances
<1>4. FramesMatchCalls'
  <2> SUFFICES ASSUME NEW u \in Threads, Sending(u)'
               PROVE  /\ calls'[job'[u].cop] =
                           [link |-> job'[u].link, req |-> job'[u].req, at |-> job'[u].base]
                      /\ job'[u].cum = Offset[job'[u].req][LastSent(u)']
    BY DEF FramesMatchCalls, Sending
  <2>1. CASE u = t
    <3>1. job[t].cum = Offset[job[t].req][job[t].i - 1]
      BY DEF IInv, FramesMatchCalls, LastSent, Advances
    <3>2. Offset[job[t].req][job[t].i] = job[t].cum + Script(job[t].req)[job[t].i]
      BY <3>1, OffsetStep DEF Advances, Frame
    <3> QED
      BY <2>1, <3>2 DEF IInv, FramesMatchCalls, Advances, CumNow
  <2>2. CASE u # t
    BY <2>2, <1>1 DEF IInv, FramesMatchCalls, Keeps, KeepsLoop, Sending, Advances
  <2> QED
    BY <2>1, <2>2
<1>5. ItemsMatchCalls'
  BY <1>1, <1>2, ItemsKept DEF IInv, Keeps, Advances
<1>6. HeardMatchesCalls'
  BY HeardKept DEF IInv, Advances
<1>7. OneReader => SoleReader' /\ RecordedOrder'
  BY <1>1, <1>2, ReadersKept DEF IInv, Keeps, Advances, RecordedOrder
<1> QED
  BY <1>1, <1>2, <1>3, <1>4, <1>5, <1>6, <1>7 DEF Keeps

(***************************************************************************)
(* The loop is still ahead of the events that were in the list before.     *)
(***************************************************************************)
LEMMA AdvanceLoop ==
    ASSUME IInv, NEW t \in Threads, Advances(t), NEW u \in Threads, Sending(u)'
    PROVE  /\ \A k \in DOMAIN queue : queue[k].cop = job'[u].cop =>
                 queue[k].idx <= LastSent(u)' /\ queue[k].due <= job'[u].base + job'[u].cum
           /\ \A v \in Threads : pc'[v] = "build" /\ job'[v].cop = job'[u].cop =>
                 job'[v].idx <= LastSent(u)'
           /\ \A n \in DOMAIN heard'[job'[u].cop] :
                 heard'[job'[u].cop][n].idx <= LastSent(u)'
<1>0. \A v \in Threads : pc'[v] = "build" => pc[v] = "build" /\ job'[v] = job[v]
  BY AdvanceStep DEF KeepsPoll, KeepsItem
<1>1. CASE u = t
  <2>1. /\ job[t].i \in Nat /\ job[t].base \in Nat /\ job[t].cum \in Nat
        /\ LastSent(t) = job[t].i - 1 /\ Sending(t)
    BY DEF Advances, Frame, LastSent, Sending
  <2>2. \A k \in DOMAIN queue : queue[k].idx \in Nat /\ queue[k].due \in Nat
    BY EventTypes DEF IInv
  <2>3. \A v \in Threads : pc[v] = "build" => job[v].idx \in Nat
    BY DEF IInv, TypeOK, LocalsOK, Item
  <2>4. job[t].cop \in Cops
    BY DEF Advances, Frame
  <2>5. \A n \in DOMAIN heard[job[t].cop] : heard[job[t].cop][n].idx \in Nat
    BY <2>4, HeardTypes DEF IInv
  <2>6. \A k \in DOMAIN queue : queue[k].cop = job[t].cop =>
           queue[k].idx <= job[t].i /\ queue[k].due <= job[t].base + CumNow(job[t])
    <3> SUFFICES ASSUME NEW k \in DOMAIN queue, queue[k].cop = job[t].cop
                 PROVE  /\ queue[k].idx <= job[t].i
                        /\ queue[k].due <= job[t].base + CumNow(job[t])
      OBVIOUS
    <3>1. queue[k].idx <= job[t].i - 1 /\ queue[k].due <= job[t].base + job[t].cum
      BY <2>1 DEF IInv, LoopIsAhead, Sending
    <3>2. CumNow(job[t]) \in Nat /\ job[t].cum <= CumNow(job[t])
      BY DEF Advances
    <3>3. queue[k].idx <= job[t].i
      BY <2>1, <2>2, <3>1
    <3>4. queue[k].due <= job[t].base + CumNow(job[t])
      BY <2>1, <2>2, <3>1, <3>2
    <3> QED
      BY <3>3, <3>4
  <2>7. \A v \in Threads : pc[v] = "build" /\ job[v].cop = job[t].cop => job[v].idx <= job[t].i
    BY <2>1, <2>3 DEF IInv, LoopIsAhead, Advances, Sending
  <2>8. \A n \in DOMAIN heard[job[t].cop] : heard[job[t].cop][n].idx <= job[t].i
    BY <2>1, <2>5 DEF IInv, LoopIsAhead, Sending
  <2> QED
    BY <1>0, <1>1, <2>6, <2>7, <2>8 DEF Advances
<1>2. CASE u # t
  <2>1. Sending(u) /\ job'[u] = job[u] /\ LastSent(u)' = LastSent(u)
    BY <1>2 DEF Advances, Sending, LastSent
  <2> QED
    BY <1>0, <2>1 DEF IInv, LoopIsAhead, Sending, Advances
<1> QED
  BY <1>1, <1>2

(***************************************************************************)
(* A reply that is lost in the loop leaves the list as it was.             *)
(***************************************************************************)
LEMMA LoseStep ==
    ASSUME IInv, TypeOK', NEW t \in Threads, PushFails(t) \/ SkipReply(t)
    PROVE  IInv'
<1>1. Advances(t) /\ queue' = queue /\ UNCHANGED <<calls, heard>>
  BY PushAdvances, SkipAdvances DEF IInv, PushFails, SkipReply
<1>2. LoopIsAhead'
  BY <1>1, AdvanceLoop DEF LoopIsAhead, Sending
<1>3. QueueMatchesCalls' /\ QueueInScriptOrder'
  BY <1>1, QueueKept DEF IInv
<1>4. OneReader => StagesInOrder'
  BY <1>1, AdvanceStep, StagesKept DEF IInv, KeepsPoll
<1> QED
  BY <1>1, <1>2, <1>3, <1>4, AdvanceStep DEF IInv

(***************************************************************************)
(* The pushed event is later, by number and by due time, than everything   *)
(* of its handle in the list, in a poll or handed over.                    *)
(***************************************************************************)
LEMMA PushStep ==
    ASSUME IInv, TypeOK', NEW t \in Threads, Push(t)
    PROVE  IInv'
<1> DEFINE f == job[t]
           e == NewEvent(f)
           last == Len(queue) + 1
<1>1. Advances(t)
  BY PushAdvances DEF IInv
<1>2. /\ f \in Frame /\ f.cop \in Cops /\ f.i \in Nat /\ f.base \in Nat /\ f.cum \in Nat
      /\ f.i \in 1 .. Len(Script(f.req)) /\ CumNow(f) \in Nat /\ f.cum <= CumNow(f)
  BY <1>1 DEF Advances, Frame
<1>3. /\ e \in Event /\ e.cop = f.cop /\ e.idx = f.i /\ e.link = f.link
      /\ e.due = f.base + CumNow(f)
  BY <1>2 DEF NewEvent, Event, Frame
<1>4. /\ queue \in Seq(Event) /\ DOMAIN queue = 1 .. Len(queue) /\ Len(queue) \in Nat
      /\ DOMAIN queue' = 1 .. last
      /\ \A k \in DOMAIN queue : queue'[k] = queue[k]
      /\ queue'[last] = e
  <2>1. queue' = Pushed(queue, e) /\ queue \in Seq(Event)
    BY DEF Push, IInv, TypeOK
  <2>2. e \in Event
    BY <1>3
  <2> HIDE DEF e, f
  <2>3. /\ DOMAIN Pushed(queue, e) = 1 .. Len(queue) + 1
        /\ DOMAIN queue = 1 .. Len(queue) /\ Len(queue) \in Nat
        /\ \A k \in DOMAIN queue : Pushed(queue, e)[k] = queue[k]
        /\ Pushed(queue, e)[Len(queue) + 1] = e
    BY <2>1, <2>2 DEF Pushed
  <2> QED
    BY <2>1, <2>3
<1>5. \A k \in DOMAIN queue' : \/ k \in DOMAIN queue /\ queue'[k] = queue[k]
                               \/ k = last /\ queue'[k] = e
  <2> HIDE DEF e, f
  <2> QED
    BY <1>4
<1>6. \A j, k \in DOMAIN queue' : j < k => j \in DOMAIN queue /\ queue'[j] = queue[j]
  BY <1>4
<1>7. Sending(t) /\ LastSent(t) = f.i - 1
  BY <1>1 DEF Advances, Sending, LastSent
<1>8. \A k \in DOMAIN queue : queue[k].cop = f.cop =>
         queue[k].idx < f.i /\ queue[k].due <= f.base + CumNow(f)
  <2> SUFFICES ASSUME NEW k \in DOMAIN queue, queue[k].cop = f.cop
               PROVE  queue[k].idx < f.i /\ queue[k].due <= f.base + CumNow(f)
    OBVIOUS
  <2>1. queue[k].idx <= f.i - 1 /\ queue[k].due <= f.base + f.cum
    BY <1>7 DEF IInv, LoopIsAhead, Sending
  <2>2. queue[k].idx \in Nat /\ queue[k].due \in Nat
    BY EventTypes DEF IInv
  <2> HIDE DEF f
  <2> QED
    BY <2>1, <2>2, <1>2
<1> HIDE DEF e, last
<1>9. QueueMatchesCalls'
  <2>1. /\ calls[f.cop] = [link |-> f.link, req |-> f.req, at |-> f.base]
        /\ calls[f.cop] # NoCall
        /\ CumNow(f) = Offset[f.req][f.i]
    <3>1. /\ calls[f.cop] = [link |-> f.link, req |-> f.req, at |-> f.base]
          /\ CumNow(f) = Offset[f.req][f.i]
      BY <1>1, AdvanceStep DEF FramesMatchCalls, Advances, Sending
    <3>2. calls[f.cop] \in Call
      BY <1>2, <3>1 DEF Call, Frame
    <3> QED
      BY <3>1, <3>2, NullAssumption
  <2>2. calls' = calls
    BY <1>1 DEF Advances
  <2> SUFFICES ASSUME NEW k \in DOMAIN queue'
               PROVE  /\ calls[queue'[k].cop] # NoCall
                      /\ queue'[k].link = calls[queue'[k].cop].link
                      /\ queue'[k].idx \in 1 .. Len(Script(calls[queue'[k].cop].req))
                      /\ queue'[k].due = calls[queue'[k].cop].at
                                         + Offset[calls[queue'[k].cop].req][queue'[k].idx]
    BY <2>2 DEF QueueMatchesCalls, IsReply, DueTime
  <2>3. CASE k \in DOMAIN queue /\ queue'[k] = queue[k]
    BY <2>3 DEF IInv, QueueMatchesCalls, IsReply, DueTime
  <2>4. CASE k = last /\ queue'[k] = e
    BY <2>4, <2>1, <1>2, <1>3
  <2> QED
    BY <2>3, <2>4, <1>5
<1>10. QueueInScriptOrder'
  <2> SUFFICES ASSUME NEW j \in DOMAIN queue', NEW k \in DOMAIN queue', j < k,
                      queue'[j].cop = queue'[k].cop
               PROVE  queue'[j].idx < queue'[k].idx /\ queue'[j].due <= queue'[k].due
    BY DEF QueueInScriptOrder
  <2>1. j \in DOMAIN queue /\ queue'[j] = queue[j]
    BY <1>6
  <2>2. CASE k \in DOMAIN queue /\ queue'[k] = queue[k]
    BY <2>1, <2>2 DEF IInv, QueueInScriptOrder
  <2>3. CASE k = last /\ queue'[k] = e
    BY <2>1, <2>3, <1>3, <1>8
  <2> QED
    BY <2>2, <2>3, <1>5
<1>11. LoopIsAhead'
  <2> SUFFICES ASSUME NEW u \in Threads, Sending(u)'
               PROVE
        /\ \A k \in DOMAIN queue' : queue'[k].cop = job'[u].cop =>
              queue'[k].idx <= LastSent(u)' /\ queue'[k].due <= job'[u].base + job'[u].cum
        /\ \A v \in Threads : pc'[v] = "build" /\ job'[v].cop = job'[u].cop =>
              job'[v].idx <= LastSent(u)'
        /\ \A n \in DOMAIN heard'[job'[u].cop] :
              heard'[job'[u].cop][n].idx <= LastSent(u)'
    BY DEF LoopIsAhead, Sending
  <2>1. e.cop = job'[u].cop =>
           e.idx <= LastSent(u)' /\ e.due <= job'[u].base + job'[u].cum
    <3>1. CASE u = t
      BY <3>1, <1>1, <1>2, <1>3 DEF Advances
    <3>2. CASE u # t
      <4>1. Sending(u) /\ job'[u] = job[u]
        BY <3>2, <1>1 DEF Advances, Sending
      <4>2. job[u].cop # f.cop
        BY <3>2, <4>1, <1>7 DEF IInv, HandlesAreFresh, Sending
      <4> QED
        BY <4>1, <4>2, <1>3
    <3> QED
      BY <3>1, <3>2
  <2>2. \A k \in DOMAIN queue : queue[k].cop = job'[u].cop =>
           queue[k].idx <= LastSent(u)' /\ queue[k].due <= job'[u].base + job'[u].cum
    BY <1>1, AdvanceLoop
  <2>3. /\ \A v \in Threads : pc'[v] = "build" /\ job'[v].cop = job'[u].cop =>
              job'[v].idx <= LastSent(u)'
        /\ \A n \in DOMAIN heard'[job'[u].cop] :
              heard'[job'[u].cop][n].idx <= LastSent(u)'
    BY <1>1, AdvanceLoop
  <2> QED
    BY <1>5, <2>1, <2>2, <2>3
<1>12. OneReader => StagesInOrder'
  <2> SUFFICES ASSUME OneReader PROVE StagesInOrder'
    OBVIOUS
  <2>1. /\ heard' = heard
        /\ \A u \in Threads : pc'[u] = "build" => pc[u] = "build" /\ job'[u] = job[u]
    BY <1>1, AdvanceStep DEF Advances, KeepsPoll, KeepsItem
  <2>2. \A n \in DOMAIN heard[f.cop] : heard[f.cop][n].idx < f.i
    <3> SUFFICES ASSUME NEW n \in DOMAIN heard[f.cop] PROVE heard[f.cop][n].idx < f.i
      OBVIOUS
    <3>1. heard[f.cop][n].idx \in Nat
      BY <1>2, HeardTypes DEF IInv
    <3>2. heard[f.cop][n].idx <= f.i - 1
      BY <1>7 DEF IInv, LoopIsAhead, Sending
    <3> QED
      BY <1>2, <3>1, <3>2
  <2>3. \A u \in Threads : pc[u] = "build" /\ job[u].cop = f.cop => job[u].idx < f.i
    <3> SUFFICES ASSUME NEW u \in Threads, pc[u] = "build", job[u].cop = f.cop
                 PROVE  job[u].idx < f.i
      OBVIOUS
    <3>1. job[u].idx \in Nat
      BY DEF IInv, TypeOK, LocalsOK, Item
    <3>2. job[u].idx <= f.i - 1
      BY <1>7 DEF IInv, LoopIsAhead, Sending
    <3> QED
      BY <1>2, <3>1, <3>2
  <2>4. StagesInOrder
    BY DEF IInv
  <2> HIDE DEF f, IInv
  <2>5. ASSUME NEW k \in DOMAIN queue'
        PROVE  /\ \A n \in DOMAIN heard[queue'[k].cop] :
                     heard[queue'[k].cop][n].idx < queue'[k].idx
               /\ \A u \in Threads : pc[u] = "build" /\ job[u].cop = queue'[k].cop =>
                     job[u].idx < queue'[k].idx
    <3>1. CASE k \in DOMAIN queue /\ queue'[k] = queue[k]
      BY <2>4, <3>1 DEF StagesInOrder
    <3>2. CASE k = last /\ queue'[k] = e
      BY <1>3, <2>2, <2>3, <3>2
    <3> QED
      BY <1>5, <3>1, <3>2
  <2>6. \A u \in Threads : pc'[u] = "build" =>
           \A n \in DOMAIN heard'[job'[u].cop] : heard'[job'[u].cop][n].idx < job'[u].idx
    BY <2>1, <2>4 DEF StagesInOrder
  <2>7. ASSUME NEW k \in DOMAIN queue', NEW u \in Threads,
               pc'[u] = "build", job'[u].cop = queue'[k].cop
        PROVE  job'[u].idx < queue'[k].idx
    BY <2>1, <2>5, <2>7
  <2> QED
    BY <2>1, <2>5, <2>6, <2>7 DEF StagesInOrder
<1> QED
  BY <1>1, <1>9, <1>10, <1>11, <1>12, AdvanceStep DEF IInv

(***************************************************************************)
(* The log line moves the loop to the next reply: the last one dealt with  *)
(* stays the same.                                                         *)
(***************************************************************************)
LEMMA LogReplyStep ==
    ASSUME IInv, TypeOK', NEW t \in Threads, LogReply(t)
    PROVE  IInv'
<1>1. /\ pc[t] = "log" /\ pc'[t] = "push" /\ job'[t] = [job[t] EXCEPT !.i = job[t].i + 1]
      /\ \A u \in Threads : u # t => pc'[u] = pc[u] /\ job'[u] = job[u]
      /\ UNCHANGED <<now, queue, nextCop, calls, heard>>
  BY DEF IInv, TypeOK, LogReply, Goto
<1>2. job[t] \in Frame /\ job[t].i \in Nat
  BY <1>1 DEF IInv, TypeOK, LocalsOK, Frame
<1>3. LET g == [job[t] EXCEPT !.i = job[t].i + 1]
      IN  /\ g.i = job[t].i + 1 /\ g.cop = job[t].cop /\ g.link = job[t].link
          /\ g.req = job[t].req /\ g.base = job[t].base /\ g.cum = job[t].cum
  BY <1>2, NextFrame
<1>4. LastSent(t) = job[t].i /\ LastSent(t)' = job[t].i
  BY <1>1, <1>2, <1>3 DEF LastSent
<1>5. Keeps(t)
  BY <1>1, <1>3, <1>4 DEF Keeps, KeepsHandle, KeepsLoop, KeepsPoll, KeepsItem, Sending
<1>6. \A u \in Threads : Keeps(u)
  BY <1>1, <1>5, StillKeeps
<1> QED
  BY <1>1, <1>6, QuietStep

(***************************************************************************)
(* The calls that end without handing anything over.                       *)
(***************************************************************************)
LEMMA LeaveStep ==
    ASSUME IInv, TypeOK', NEW t \in Threads,
           EndSend(t) \/ PollIsEmpty(t) \/ BuildFails(t)
    PROVE  IInv'
<1>1. /\ pc'[t] = "idle"
      /\ \A u \in Threads : u # t => pc'[u] = pc[u] /\ job'[u] = job[u]
      /\ UNCHANGED <<now, queue, nextCop, calls, heard>>
  BY DEF IInv, TypeOK, EndSend, PollIsEmpty, BuildFails, Return, Goto
<1>2. \A u \in Threads : Keeps(u)
  BY <1>1, StillKeeps, IdleKeeps
<1> QED
  BY <1>1, <1>2, QuietStep

(***************************************************************************)
(* With one reader per link, a poll begins on a link nobody reads.         *)
(***************************************************************************)
LEMMA BeginPollStep ==
    ASSUME IInv, TypeOK', NEW t \in Threads, NEW link \in Links, BeginPoll(t, link)
    PROVE  IInv'
<1>1. /\ pc[t] = "idle" /\ pc'[t] = "poll" /\ job'[t] = [link |-> link, at |-> now]
      /\ \A u \in Threads : u # t => pc'[u] = pc[u] /\ job'[u] = job[u]
      /\ UNCHANGED <<now, queue, nextCop, calls, heard>>
      /\ OneReader => \A u \in Threads : ~ IsReading(u, link)
  BY DEF IInv, TypeOK, BeginPoll, Goto
<1>2. \A u \in Threads : KeepsHandle(u) /\ KeepsLoop(u) /\ KeepsItem(u)
  <2>1. KeepsHandle(t) /\ KeepsLoop(t) /\ KeepsItem(t)
    BY <1>1 DEF KeepsHandle, KeepsLoop, KeepsItem, Sending
  <2>2. \A u \in Threads : u # t => Keeps(u)
    BY <1>1, StillKeeps
  <2> QED
    BY <2>1, <2>2 DEF Keeps, KeepsPoll
<1>3. HandlesAreFresh'
  BY <1>1, <1>2, HandlesKept DEF IInv
<1>4. FramesMatchCalls' /\ LoopIsAhead'
  BY <1>1, <1>2, FramesKept, LoopKept DEF IInv
<1>5. QueueMatchesCalls' /\ QueueInScriptOrder' /\ HeardMatchesCalls'
  BY <1>1, QueueKept, HeardKept DEF IInv
<1>6. ItemsMatchCalls'
  <2>1. now \in Nat
    BY DEF IInv, TypeOK
  <2>2. job'[t].at <= now' /\ pc'[t] # "build"
    BY <1>1, <2>1
  <2> QED
    BY <1>1, <2>2 DEF IInv, ItemsMatchCalls, IsReply, DueTime
<1>7. OneReader => SoleReader' /\ StagesInOrder' /\ RecordedOrder'
  <2> SUFFICES ASSUME OneReader PROVE SoleReader' /\ StagesInOrder' /\ RecordedOrder'
    OBVIOUS
  <2>1. \A u \in Threads : \A l \in Links : IsReading(u, l)' <=> IF u = t THEN l = link ELSE IsReading(u, l)
    BY <1>1 DEF IsReading
  <2>2. SoleReader'
    BY <1>1, <2>1 DEF IInv, SoleReader
  <2> QED
    BY <1>1, <1>2, <2>2, StagesKept DEF IInv, RecordedOrder
<1> QED
  BY <1>3, <1>4, <1>5, <1>6, <1>7 DEF IInv

(***************************************************************************)
(* The heart of the argument: the first due event is the oldest of its     *)
(* handle, so taking it out of the middle of the list overtakes no reply.  *)
(***************************************************************************)
LEMMA FirstDueIsOldest ==
    ASSUME IInv, NEW link \in Links, NEW n \in Nat,
           NEW k \in DOMAIN queue, IsFirstDue(queue, k, link, n),
           NEW j \in DOMAIN queue, j # k, queue[j].cop = queue[k].cop
    PROVE  k < j /\ queue[k].idx < queue[j].idx
<1>1. j \in Nat /\ k \in Nat
  BY DEF IInv, TypeOK
<1>2. queue[j].due \in Nat /\ queue[k].due \in Nat
  BY EventTypes DEF IInv
<1>3. queue[j].link = queue[k].link
  BY DEF IInv, QueueMatchesCalls, IsReply
<1>4. ASSUME j < k PROVE FALSE
  <2>1. queue[j].due <= queue[k].due
    BY <1>4 DEF IInv, QueueInScriptOrder
  <2>2. Due(queue[j], link, n)
    BY <1>2, <1>3, <2>1 DEF IsFirstDue, Due
  <2> QED
    BY <1>4, <2>2 DEF IsFirstDue
<1>5. k < j
  BY <1>1, <1>4
<1> QED
  BY <1>5 DEF IInv, QueueInScriptOrder

(***************************************************************************)
(* The event taken out precedes what is left of its handle in the list,    *)
(* and follows all that was handed over.                                   *)
(***************************************************************************)
LEMMA PollFindsStep ==
    ASSUME IInv, TypeOK', NEW t \in Threads, PollFinds(t)
    PROVE  IInv'
<1>1. PICK k \in DOMAIN queue :
         /\ IsFirstDue(queue, k, job[t].link, job[t].at)
         /\ queue' = Detached(queue, k)
         /\ job' = [job EXCEPT ![t] = [link |-> job[t].link,
                                       cop |-> queue[k].cop, idx |-> queue[k].idx]]
  BY DEF PollFinds
<1> DEFINE e == queue[k]
<1>2. /\ pc[t] = "poll" /\ pc'[t] = "build"
      /\ job'[t] = [link |-> job[t].link, cop |-> e.cop, idx |-> e.idx]
      /\ \A u \in Threads : u # t => pc'[u] = pc[u] /\ job'[u] = job[u]
      /\ UNCHANGED <<now, nextCop, calls, heard>>
  BY <1>1 DEF IInv, TypeOK, PollFinds, Goto
<1>3. job[t].link \in Links /\ job[t].at \in Nat /\ job[t].at <= now /\ now \in Nat
  BY <1>2 DEF IInv, TypeOK, LocalsOK, Poll, ItemsMatchCalls
<1>4. e.cop \in Cops /\ e.idx \in Nat /\ e.due \in Nat /\ e.link = job[t].link /\ e.due <= job[t].at
  BY <1>1, EventTypes DEF IInv, IsFirstDue, Due
<1> HIDE DEF e
<1>5. /\ k \in Nat
      /\ \A j \in DOMAIN queue' :
            LET i == IF j < k THEN j ELSE j + 1
            IN  i \in DOMAIN queue /\ i # k /\ queue'[j] = queue[i]
      /\ \A j \in DOMAIN queue' : j \in Nat
  <2>1. queue \in Seq(Event)
    BY DEF IInv, TypeOK
  <2>2. /\ DOMAIN queue' = 1 .. Len(queue) - 1
        /\ DOMAIN queue = 1 .. Len(queue) /\ Len(queue) \in Nat
        /\ \A j \in 1 .. Len(queue) - 1 : queue'[j] = queue[IF j < k THEN j ELSE j + 1]
    BY <1>1, <2>1, DetachedProperties
  <2> QED
    BY <2>2
<1>6. \A j \in DOMAIN queue' : \E i \in DOMAIN queue : i # k /\ queue'[j] = queue[i]
  BY <1>5
<1>7. \A u \in Threads : KeepsHandle(u) /\ KeepsLoop(u)
  <2>1. KeepsHandle(t) /\ KeepsLoop(t)
    BY <1>2 DEF KeepsHandle, KeepsLoop, Sending
  <2>2. \A u \in Threads : u # t => Keeps(u)
    BY <1>2, StillKeeps
  <2> QED
    BY <2>1, <2>2 DEF Keeps
<1>8. HandlesAreFresh' /\ FramesMatchCalls'
  BY <1>2, <1>7, HandlesKept, FramesKept DEF IInv
<1>9. QueueMatchesCalls'
  <2> SUFFICES ASSUME NEW j \in DOMAIN queue'
               PROVE  /\ IsReply(queue'[j].cop, queue'[j].link, queue'[j].idx)
                      /\ queue'[j].due = DueTime(queue'[j].cop, queue'[j].idx)
    BY <1>2 DEF QueueMatchesCalls, IsReply, DueTime
  <2> QED
    BY <1>6 DEF IInv, QueueMatchesCalls
<1>10. QueueInScriptOrder'
  <2> SUFFICES ASSUME NEW i \in DOMAIN queue', NEW j \in DOMAIN queue', i < j,
                      queue'[i].cop = queue'[j].cop
               PROVE  queue'[i].idx < queue'[j].idx /\ queue'[i].due <= queue'[j].due
    BY DEF QueueInScriptOrder
  <2> DEFINE a == IF i < k THEN i ELSE i + 1
             b == IF j < k THEN j ELSE j + 1
  <2>1. /\ a \in DOMAIN queue /\ b \in DOMAIN queue
        /\ queue'[i] = queue[a] /\ queue'[j] = queue[b]
    BY <1>5
  <2>2. a < b
    BY <1>5
  <2> HIDE DEF a, b
  <2> QED
    BY <2>1, <2>2 DEF IInv, QueueInScriptOrder
<1>11. IsReply(e.cop, e.link, e.idx) /\ DueTime(e.cop, e.idx) <= now
  <2>1. IsReply(e.cop, e.link, e.idx) /\ e.due = DueTime(e.cop, e.idx)
    BY DEF IInv, QueueMatchesCalls, e
  <2> QED
    BY <2>1, <1>3, <1>4
<1>12. ItemsMatchCalls'
  <2> SUFFICES ASSUME NEW u \in Threads
               PROVE  /\ pc'[u] = "poll" => job'[u].at <= now
                      /\ pc'[u] = "build" =>
                            /\ IsReply(job'[u].cop, job'[u].link, job'[u].idx)
                            /\ DueTime(job'[u].cop, job'[u].idx) <= now
    BY <1>2 DEF ItemsMatchCalls, IsReply, DueTime
  <2>1. CASE u = t
    BY <2>1, <1>2, <1>4, <1>11
  <2>2. CASE u # t
    BY <2>2, <1>2 DEF IInv, ItemsMatchCalls
  <2> QED
    BY <2>1, <2>2
<1>13. HeardMatchesCalls'
  BY <1>2, HeardKept DEF IInv
<1>14. LoopIsAhead'
  <2> SUFFICES ASSUME NEW u \in Threads, Sending(u)'
               PROVE
        /\ \A j \in DOMAIN queue' : queue'[j].cop = job'[u].cop =>
              queue'[j].idx <= LastSent(u)' /\ queue'[j].due <= job'[u].base + job'[u].cum
        /\ \A v \in Threads : pc'[v] = "build" /\ job'[v].cop = job'[u].cop =>
              job'[v].idx <= LastSent(u)'
        /\ \A n \in DOMAIN heard[job'[u].cop] :
              heard[job'[u].cop][n].idx <= LastSent(u)'
    BY <1>2 DEF LoopIsAhead, Sending
  <2>1. /\ Sending(u) /\ LastSent(u)' = LastSent(u)
        /\ job'[u].cop = job[u].cop /\ job'[u].base = job[u].base /\ job'[u].cum = job[u].cum
    BY <1>7 DEF KeepsLoop
  <2>2. /\ \A j \in DOMAIN queue : queue[j].cop = job[u].cop =>
              queue[j].idx <= LastSent(u) /\ queue[j].due <= job[u].base + job[u].cum
        /\ \A v \in Threads : pc[v] = "build" /\ job[v].cop = job[u].cop =>
              job[v].idx <= LastSent(u)
        /\ \A n \in DOMAIN heard[job[u].cop] :
              heard[job[u].cop][n].idx <= LastSent(u)
    BY <2>1 DEF IInv, LoopIsAhead, Sending
  <2>3. e.cop = job[u].cop => e.idx <= LastSent(u)
    BY <2>2 DEF e
  <2>4. \A v \in Threads : pc'[v] = "build" /\ job'[v].cop = job[u].cop =>
              job'[v].idx <= LastSent(u)
    BY <1>2, <2>2, <2>3
  <2> QED
    BY <1>6, <2>1, <2>2, <2>4
<1>15. OneReader => SoleReader'
  <2>1. \A u \in Threads : \A l \in Links : IsReading(u, l)' => IsReading(u, l)
    BY <1>2 DEF IsReading
  <2> QED
    BY <2>1 DEF IInv, SoleReader
<1>16. OneReader => StagesInOrder'
  <2> SUFFICES ASSUME OneReader PROVE StagesInOrder'
    OBVIOUS
  <2>1. \A j \in DOMAIN queue' :
           \A n \in DOMAIN heard[queue'[j].cop] : heard[queue'[j].cop][n].idx < queue'[j].idx
    BY <1>6 DEF IInv, StagesInOrder
  <2>2. \A j \in DOMAIN queue' : queue'[j].cop = e.cop => e.idx < queue'[j].idx
    BY <1>1, <1>3, <1>6, FirstDueIsOldest DEF e
  <2>3. \A j \in DOMAIN queue' : \A u \in Threads :
           pc'[u] = "build" /\ job'[u].cop = queue'[j].cop => job'[u].idx < queue'[j].idx
    <3> SUFFICES ASSUME NEW j \in DOMAIN queue', NEW u \in Threads,
                        pc'[u] = "build", job'[u].cop = queue'[j].cop
                 PROVE  job'[u].idx < queue'[j].idx
      OBVIOUS
    <3>1. CASE u = t
      BY <3>1, <1>2, <2>2
    <3>2. CASE u # t
      BY <3>2, <1>2, <1>6 DEF IInv, StagesInOrder
    <3> QED
      BY <3>1, <3>2
  <2>4. \A u \in Threads : pc'[u] = "build" =>
           \A n \in DOMAIN heard[job'[u].cop] : heard[job'[u].cop][n].idx < job'[u].idx
    <3> SUFFICES ASSUME NEW u \in Threads, pc'[u] = "build",
                        NEW n \in DOMAIN heard[job'[u].cop]
                 PROVE  heard[job'[u].cop][n].idx < job'[u].idx
      OBVIOUS
    <3>1. CASE u = t
      BY <3>1, <1>2 DEF IInv, StagesInOrder, e
    <3>2. CASE u # t
      BY <3>2, <1>2 DEF IInv, StagesInOrder
    <3> QED
      BY <3>1, <3>2
  <2> QED
    BY <1>2, <2>1, <2>3, <2>4 DEF StagesInOrder
<1>17. OneReader => RecordedOrder'
  BY <1>2 DEF IInv, RecordedOrder
<1> QED
  BY <1>8, <1>9, <1>10, <1>12, <1>13, <1>14, <1>15, <1>16, <1>17 DEF IInv

(***************************************************************************)
(* The item handed over is the last of its handle so far.                  *)
(***************************************************************************)
LEMMA HandOverStep ==
    ASSUME IInv, TypeOK', NEW t \in Threads, HandOver(t)
    PROVE  IInv'
<1> DEFINE c == job[t].cop
           x == job[t].idx
           h == [link |-> job[t].link, idx |-> x]
           last == Len(heard[c]) + 1
<1>1. /\ pc[t] = "build" /\ pc'[t] = "idle"
      /\ heard' = [heard EXCEPT ![c] = Append(heard[c], h)]
      /\ \A u \in Threads : u # t => pc'[u] = pc[u] /\ job'[u] = job[u]
      /\ UNCHANGED <<now, queue, nextCop, calls>>
  BY DEF IInv, TypeOK, HandOver, Return, Goto
<1>2. /\ c \in Cops /\ x \in Nat /\ job[t].link \in Links
      /\ IsReply(c, job[t].link, x) /\ DueTime(c, x) <= now
  BY <1>1 DEF IInv, TypeOK, LocalsOK, Item, ItemsMatchCalls
<1>3. /\ h.link = job[t].link /\ h.idx = x
      /\ \A d \in Cops : d # c => heard'[d] = heard[d]
      /\ heard'[c] = Append(heard[c], h)
  BY <1>1, <1>2 DEF IInv, TypeOK
<1>4. /\ DOMAIN heard[c] = 1 .. Len(heard[c]) /\ Len(heard[c]) \in Nat
      /\ DOMAIN heard'[c] = 1 .. last
      /\ \A n \in DOMAIN heard[c] : heard'[c][n] = heard[c][n]
      /\ heard'[c][last] = h
  <2>1. heard[c] \in Seq([link : Links, idx : Nat])
    BY <1>2, HeardTypes DEF IInv
  <2> HIDE DEF c, h
  <2>2. /\ DOMAIN heard[c] = 1 .. Len(heard[c]) /\ Len(heard[c]) \in Nat
        /\ DOMAIN Append(heard[c], h) = 1 .. Len(heard[c]) + 1
        /\ \A n \in DOMAIN heard[c] : Append(heard[c], h)[n] = heard[c][n]
        /\ Append(heard[c], h)[Len(heard[c]) + 1] = h
    BY <2>1
  <2> QED
    BY <1>3, <2>2
<1> HIDE DEF c, x, h, last
<1>5. \A n \in DOMAIN heard'[c] : \/ n \in DOMAIN heard[c] /\ heard'[c][n] = heard[c][n]
                                  \/ n = last /\ heard'[c][n] = h
  BY <1>4 DEF last
<1>6. \A u \in Threads : Keeps(u)
  BY <1>1, StillKeeps, IdleKeeps
<1>7. HandlesAreFresh'
  <2>1. \A d \in Cops : calls[d] = NoCall => heard'[d] = heard[d]
    BY <1>2, <1>3 DEF IsReply
  <2> QED
    BY <1>1, <1>6, <2>1, HandlesKept DEF IInv, Keeps
<1>8. FramesMatchCalls'
  BY <1>1, <1>6, FramesKept DEF IInv, Keeps
<1>9. QueueMatchesCalls' /\ QueueInScriptOrder'
  BY <1>1, QueueKept DEF IInv
<1>10. ItemsMatchCalls'
  BY <1>1, <1>6, ItemsKept DEF IInv, Keeps
<1>11. HeardMatchesCalls'
  <2> SUFFICES ASSUME NEW d \in Cops, NEW n \in DOMAIN heard'[d]
               PROVE  /\ IsReply(d, heard'[d][n].link, heard'[d][n].idx)
                      /\ DueTime(d, heard'[d][n].idx) <= now
    BY <1>1 DEF HeardMatchesCalls, IsReply, DueTime
  <2>1. CASE d # c
    BY <2>1, <1>3 DEF IInv, HeardMatchesCalls
  <2>2. CASE d = c
    BY <2>2, <1>2, <1>3, <1>5 DEF IInv, HeardMatchesCalls
  <2> QED
    BY <2>1, <2>2
<1>12. LoopIsAhead'
  <2> SUFFICES ASSUME NEW u \in Threads, Sending(u)'
               PROVE
        /\ \A k \in DOMAIN queue : queue[k].cop = job'[u].cop =>
              queue[k].idx <= LastSent(u)' /\ queue[k].due <= job'[u].base + job'[u].cum
        /\ \A v \in Threads : pc'[v] = "build" /\ job'[v].cop = job'[u].cop =>
              job'[v].idx <= LastSent(u)'
        /\ \A n \in DOMAIN heard'[job'[u].cop] :
              heard'[job'[u].cop][n].idx <= LastSent(u)'
    BY <1>1 DEF LoopIsAhead, Sending
  <2>1. /\ Sending(u) /\ LastSent(u)' = LastSent(u)
        /\ job'[u].cop = job[u].cop /\ job'[u].base = job[u].base /\ job'[u].cum = job[u].cum
    BY <1>6 DEF Keeps, KeepsLoop
  <2>2. job[u].cop \in Cops
    BY <2>1 DEF Sending, IInv, TypeOK, LocalsOK, Frame
  <2>3. /\ \A k \in DOMAIN queue : queue[k].cop = job[u].cop =>
              queue[k].idx <= LastSent(u) /\ queue[k].due <= job[u].base + job[u].cum
        /\ \A v \in Threads : pc[v] = "build" /\ job[v].cop = job[u].cop =>
              job[v].idx <= LastSent(u)
        /\ \A n \in DOMAIN heard[job[u].cop] : heard[job[u].cop][n].idx <= LastSent(u)
    BY <2>1 DEF IInv, LoopIsAhead, Sending
  <2>4. \A v \in Threads : pc'[v] = "build" => pc[v] = "build" /\ job'[v] = job[v]
    BY <1>6 DEF Keeps, KeepsItem, KeepsPoll
  <2>5. \A n \in DOMAIN heard'[job[u].cop] : heard'[job[u].cop][n].idx <= LastSent(u)
    <3>1. CASE job[u].cop # c
      BY <3>1, <2>2, <2>3, <1>3
    <3>2. CASE job[u].cop = c
      <4>1. x <= LastSent(u)
        BY <3>2, <2>3, <1>1 DEF c, x
      <4> QED
        BY <3>2, <4>1, <2>3, <1>3, <1>5
    <3> QED
      BY <3>1, <3>2
  <2> QED
    BY <2>1, <2>3, <2>4, <2>5
<1>13. OneReader => SoleReader'
  BY <1>6, ReadersKept DEF IInv, Keeps
<1>14. OneReader => StagesInOrder'
  <2> SUFFICES ASSUME OneReader PROVE StagesInOrder'
    OBVIOUS
  <2>1. \A k \in DOMAIN queue :
           \A n \in DOMAIN heard'[queue[k].cop] : heard'[queue[k].cop][n].idx < queue[k].idx
    <3> SUFFICES ASSUME NEW k \in DOMAIN queue, NEW n \in DOMAIN heard'[queue[k].cop]
                 PROVE  heard'[queue[k].cop][n].idx < queue[k].idx
      OBVIOUS
    <3>1. queue[k].cop \in Cops
      BY EventTypes DEF IInv
    <3>2. CASE queue[k].cop # c
      BY <3>1, <3>2, <1>3 DEF IInv, StagesInOrder
    <3>3. CASE queue[k].cop = c
      <4>1. x < queue[k].idx
        BY <3>3, <1>1 DEF IInv, StagesInOrder, c, x
      <4> QED
        BY <3>3, <4>1, <1>3, <1>5 DEF IInv, StagesInOrder
    <3> QED
      BY <3>2, <3>3
  <2>2. \A u \in Threads : pc'[u] = "build" =>
           \A n \in DOMAIN heard'[job'[u].cop] : heard'[job'[u].cop][n].idx < job'[u].idx
    <3> SUFFICES ASSUME NEW u \in Threads, pc'[u] = "build",
                        NEW n \in DOMAIN heard'[job'[u].cop]
                 PROVE  heard'[job'[u].cop][n].idx < job'[u].idx
      OBVIOUS
    <3>1. u # t /\ pc[u] = "build" /\ job'[u] = job[u]
      BY <1>1
    <3>2. job[u].cop \in Cops /\ job[u].link \in Links
      BY <3>1 DEF IInv, TypeOK, LocalsOK, Item
    <3>3. job[u].cop # c
      <4> SUFFICES ASSUME job[u].cop = c PROVE FALSE
        OBVIOUS
      <4>1. job[u].link = job[t].link
        BY <3>1, <1>2 DEF IInv, ItemsMatchCalls, IsReply
      <4>2. IsReading(u, job[t].link) /\ IsReading(t, job[t].link)
        BY <3>1, <4>1, <1>1 DEF IsReading
      <4> QED
        BY <3>1, <4>2, <1>2 DEF IInv, SoleReader
    <3> QED
      BY <3>1, <3>2, <3>3, <1>3 DEF IInv, StagesInOrder
  <2>3. \A k \in DOMAIN queue : \A u \in Threads :
           pc'[u] = "build" /\ job'[u].cop = queue[k].cop => job'[u].idx < queue[k].idx
    BY <1>6 DEF Keeps, KeepsItem, KeepsPoll, IInv, StagesInOrder
  <2> QED
    BY <1>1, <2>1, <2>2, <2>3 DEF StagesInOrder
<1>15. OneReader => RecordedOrder'
  <2> SUFFICES ASSUME OneReader, NEW d \in Cops,
                      NEW m \in DOMAIN heard'[d], NEW n \in DOMAIN heard'[d], m < n
               PROVE  heard'[d][m].idx < heard'[d][n].idx
    BY DEF RecordedOrder
  <2>1. CASE d # c
    BY <2>1, <1>3 DEF IInv, RecordedOrder
  <2>2. CASE d = c
    <3>1. m \in DOMAIN heard[c] /\ heard'[c][m] = heard[c][m]
      BY <2>2, <1>4 DEF last
    <3>2. \A l \in DOMAIN heard[c] : heard[c][l].idx < x
      BY <1>1 DEF IInv, StagesInOrder, c, x
    <3>3. CASE n \in DOMAIN heard[c] /\ heard'[c][n] = heard[c][n]
      BY <2>2, <3>1, <3>3, <1>2 DEF IInv, RecordedOrder
    <3>4. CASE n = last /\ heard'[c][n] = h
      BY <2>2, <3>1, <3>2, <3>4, <1>3
    <3> QED
      BY <2>2, <3>3, <3>4, <1>5
  <2> QED
    BY <2>1, <2>2
<1> QED
  BY <1>7, <1>8, <1>9, <1>10, <1>11, <1>12, <1>13, <1>14, <1>15 DEF IInv

(***************************************************************************)
(* Due times in the past stay there.                                       *)
(***************************************************************************)
LEMMA TickStep ==
    ASSUME IInv, TypeOK', Tick
    PROVE  IInv'
<1>1. now \in Nat /\ now' = now + 1 /\ UNCHANGED <<queue, nextCop, pc, job, calls, heard>>
  BY DEF IInv, TypeOK, Tick
<1>2. \A u \in Threads : Keeps(u)
  BY <1>1, StillKeeps
<1>3. HandlesAreFresh'
  BY <1>1, <1>2, HandlesKept DEF IInv, Keeps
<1>4. FramesMatchCalls' /\ LoopIsAhead'
  BY <1>1, <1>2, FramesKept, LoopKept DEF IInv, Keeps, KeepsPoll
<1>5. QueueMatchesCalls' /\ QueueInScriptOrder'
  BY <1>1, QueueKept DEF IInv
<1>6. \A c \in Cops : \A i : IsReply(c, calls[c].link, i) => DueTime(c, i) \in Nat
  <2> SUFFICES ASSUME NEW c \in Cops, NEW i, IsReply(c, calls[c].link, i)
               PROVE  DueTime(c, i) \in Nat
    OBVIOUS
  <2>1. calls[c] \in Call
    BY DEF IsReply, IInv, TypeOK
  <2>2. calls[c].req \in Requests /\ calls[c].at \in Nat
    BY <2>1 DEF Call
  <2>3. Offset[calls[c].req][i] \in Nat
    BY <2>2, ScriptType DEF IsReply
  <2> QED
    BY <2>2, <2>3 DEF DueTime
<1>7. ItemsMatchCalls'
  <2> SUFFICES ASSUME NEW u \in Threads
               PROVE  /\ pc[u] = "poll" => job[u].at <= now + 1
                      /\ pc[u] = "build" =>
                            /\ IsReply(job[u].cop, job[u].link, job[u].idx)
                            /\ DueTime(job[u].cop, job[u].idx) <= now + 1
    BY <1>1 DEF ItemsMatchCalls, IsReply, DueTime
  <2>1. pc[u] = "poll" => job[u].at <= now + 1
    BY <1>1 DEF IInv, TypeOK, LocalsOK, Poll, ItemsMatchCalls
  <2>2. ASSUME pc[u] = "build"
        PROVE  /\ IsReply(job[u].cop, job[u].link, job[u].idx)
               /\ DueTime(job[u].cop, job[u].idx) <= now + 1
    <3>1. /\ IsReply(job[u].cop, job[u].link, job[u].idx)
          /\ DueTime(job[u].cop, job[u].idx) <= now
      BY <2>2 DEF IInv, ItemsMatchCalls
    <3>2. job[u].cop \in Cops
      BY <2>2 DEF IInv, TypeOK, LocalsOK, Item
    <3>3. DueTime(job[u].cop, job[u].idx) \in Nat
      BY <1>6, <3>1, <3>2 DEF IsReply
    <3> QED
      BY <1>1, <3>1, <3>3
  <2> QED
    BY <2>1, <2>2
<1>8. HeardMatchesCalls'
  <2> SUFFICES ASSUME NEW c \in Cops, NEW n \in DOMAIN heard[c]
               PROVE  /\ IsReply(c, heard[c][n].link, heard[c][n].idx)
                      /\ DueTime(c, heard[c][n].idx) <= now + 1
    BY <1>1 DEF HeardMatchesCalls, IsReply, DueTime
  <2>1. /\ IsReply(c, heard[c][n].link, heard[c][n].idx)
        /\ DueTime(c, heard[c][n].idx) <= now
    BY DEF IInv, HeardMatchesCalls
  <2>2. DueTime(c, heard[c][n].idx) \in Nat
    BY <1>6, <2>1 DEF IsReply
  <2> QED
    BY <1>1, <2>1, <2>2
<1>9. OneReader => SoleReader' /\ StagesInOrder' /\ RecordedOrder'
  BY <1>1, <1>2, ReadersKept, StagesKept DEF IInv, Keeps, KeepsPoll, RecordedOrder
<1> QED
  BY <1>3, <1>4, <1>5, <1>7, <1>8, <1>9 DEF IInv

-----------------------------------------------------------------------------
(* The theorems                                                            *)

(***************************************************************************)
(* Nothing has happened yet.                                               *)
(***************************************************************************)
LEMMA InitInv == Init => IInv
<1> SUFFICES ASSUME Init PROVE IInv
  OBVIOUS
<1>1. TypeOK
  BY InitType
<1>2. HandlesAreFresh /\ FramesMatchCalls /\ LoopIsAhead /\ ItemsMatchCalls
  BY DEF Init, HandlesAreFresh, FramesMatchCalls, LoopIsAhead, ItemsMatchCalls
<1>3. QueueMatchesCalls /\ QueueInScriptOrder
  BY DEF Init, QueueMatchesCalls, QueueInScriptOrder
<1>4. \A c \in Cops : DOMAIN heard[c] = {}
  BY DEF Init
<1>5. HeardMatchesCalls /\ RecordedOrder
  BY <1>4 DEF HeardMatchesCalls, RecordedOrder
<1>6. SoleReader /\ StagesInOrder
  BY DEF Init, SoleReader, StagesInOrder, IsReading
<1> QED
  BY <1>1, <1>2, <1>3, <1>5, <1>6 DEF IInv

(***************************************************************************)
(* One case per action of Playback, each the lemma of that action.         *)
(***************************************************************************)
LEMMA StepInv == IInv /\ [Next]_vars => IInv'
<1> SUFFICES ASSUME IInv, [Next]_vars PROVE IInv'
  OBVIOUS
<1>0. TypeOK'
  BY TypeStep DEF IInv
<1>1. ASSUME NEW t \in Threads, AckOnly(t) PROVE IInv'
  BY <1>0, <1>1, AckOnlyStep
<1>2. ASSUME NEW t \in Threads, NEW link \in Links, NEW req \in Requests,
             BeginSend(t, link, req)
      PROVE  IInv'
  BY <1>0, <1>2, BeginSendStep
<1>3. ASSUME NEW t \in Threads, NEW link \in Links, BeginPoll(t, link) PROVE IInv'
  BY <1>0, <1>3, BeginPollStep
<1>4. ASSUME NEW t \in Threads, Continue(t) PROVE IInv'
  <2>1. CASE Lookup(t)
    BY <1>0, <2>1, LookupStep
  <2>2. CASE Push(t)
    BY <1>0, <2>2, PushStep
  <2>3. CASE PushFails(t) \/ SkipReply(t)
    BY <1>0, <2>3, LoseStep
  <2>4. CASE LogReply(t)
    BY <1>0, <2>4, LogReplyStep
  <2>5. CASE EndSend(t) \/ PollIsEmpty(t) \/ BuildFails(t)
    BY <1>0, <2>5, LeaveStep
  <2>6. CASE PollFinds(t)
    BY <1>0, <2>6, PollFindsStep
  <2>7. CASE HandOver(t)
    BY <1>0, <2>7, HandOverStep
  <2> QED
    BY <1>4, <2>1, <2>2, <2>3, <2>4, <2>5, <2>6, <2>7 DEF Continue
<1>5. CASE Tick
  BY <1>0, <1>5, TickStep
<1>6. CASE UNCHANGED vars
  <2>1. \A u \in Threads : Keeps(u)
    BY <1>6, StillKeeps DEF vars
  <2> QED
    BY <1>0, <1>6, <2>1, QuietStep DEF vars
<1> QED
  BY <1>1, <1>2, <1>3, <1>4, <1>5, <1>6 DEF Next

(***************************************************************************)
(* The conjuncts above hold in every reachable state.                      *)
(***************************************************************************)
THEOREM Invariance == Spec => []IInv
BY InitInv, StepInv, PTL DEF Spec

(***************************************************************************)
(* With one reader per link, the replies to a request are handed over in   *)
(* the order they were recorded, for any number of threads, links and      *)
(* requests, any delays, and with allocations failing or not.              *)
(***************************************************************************)
THEOREM RepliesInRecordedOrder == ASSUME OneReader PROVE Spec => []RecordedOrder
<1>1. IInv => RecordedOrder
  BY DEF IInv
<1> QED
  BY <1>1, Invariance, PTL

(***************************************************************************)
(* No reply is handed over before its recorded delays have passed, however *)
(* many threads poll and push.                                             *)
(***************************************************************************)
THEOREM NothingIsEarly == Spec => []NeverEarly
<1>1. IInv => NeverEarly
  BY DEF IInv, HeardMatchesCalls, NeverEarly, IsReply
<1> QED
  BY <1>1, Invariance, PTL

=============================================================================
