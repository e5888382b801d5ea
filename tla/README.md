# FremSoft in TLA+

FremSoft is a playback mode for a shim around a vehicle-diagnostics DLL,
`CSTech2Win.dll`. Normally the shim forwards each call of the application
(Tech2Win) to the vendor's DLL and logs it. In playback mode it answers from a
recording of an earlier session instead: the application talks to a "ghost car".

This directory holds the formal side of that program: TLA+ modules translated
from the source, TLC configurations that check them on small instances, and
proofs that TLAPS checks. Paths are given from the directory above this one, so
`src/src/scheduler.c` is the scheduler and `src/tools/build_recording.py` the
converter.

* [The system](#the-system): components, state, interactions, what is hard
* [The modules](#the-modules): what each one models, and how
* [The runs](#the-runs): what each one shows, bounds, fairness
* [The proofs](#the-proofs): what holds for every value of the constants
* [Where code and documentation differ](#where-code-and-documentation-differ)
* [What is not modelled](#what-is-not-modelled), and the [plan](#plan)

## The system

| Component | Source | State it keeps | Operations |
|---|---|---|---|
| Data path | `src/src/fremsoft.c` | `g_next_h_cop`, the locals of each call | `fremsoft_PDUStartComPrimitive`, `fremsoft_PDUGetEventItem` |
| Event list | `src/src/scheduler.c` | linked list of events, one lock | `scheduler_push`, `scheduler_pop_due`, the peek of the delivery thread |
| Delivery thread, scheduler lifetime | `src/src/scheduler.c`, `fremsoft_init/shutdown` | one callback slot, `stop_flag`, the thread | `scheduler_set_callback`, `delivery_thread_proc`, start, stop, free |
| DLL lifecycle and routing | `src/shim/cstech2win/src/dllmain.c`, `wrappers.c`, `forwarders.c`, `fremsoft_init` | `g_mode`, `g_hRealDll`, `g_recording`, `g_scheduler` | attach, detach, the exports |
| Callback table of the forwarding modes | `wrappers.c` | `g_cb_slots`, `g_cb_count`, a lazily initialised lock | `PDURegisterEventCallback` |
| Converter | `src/tools/build_recording.py` | frames, the open exchange, the exchanges | `parse_log`, `pair_exchanges`, `index_by_request`, writing the document |
| Recording | `src/src/recording.c` | the tokens of the document, exchanges with their replies | `recording_load`, `recording_lookup` |
| Logs | `src/src/unknown_log.c`, `shim/.../log.c`, `fremsoft.c:60-112` | a file, a lock and a flag each | open, line, close |

How they interact. The application calls exports from any of its threads.
`wrappers.c` tests the mode and calls either `fremsoft_*` or the vendor's
pointer; `forwarders.c` (generated) jumps to the vendor without asking. A
request is looked up in the recording; each recorded reply becomes an event in
the scheduler's list, due at the time of the request plus all the delays so far.
A poll takes the first due event of its link and turns it into an item. The
delivery thread peeks at the list every 5 ms and calls the application's
callback when something is due; it takes nothing out of the list. `DllMain`
starts and stops all of it under the loader lock. The converter produces the
recordings offline.

What is hard here, and rarely tested (the complete list, line by line, is under
`hazards` in `PROJECT.json`):

* **interleavings**: calls of several threads over a list that is not sorted; a
  callback copied under the lock and used outside it; a buffer that is used
  after it was given away; a lock initialised by whoever comes first;
* **failing allocations**, which drop single replies and must not disturb others;
* **shutdown**: a timeout whose result is ignored is all that stands between the
  delivery thread and a freed scheduler, and the loader lock keeps that thread
  from ending in the meantime;
* **logs**: the file is tested outside the lock, the lock is deleted at shutdown
  and, for one of the three, made again by a late request; a crash leaves a line
  half written, and a restart may come within the second that names the file;
* **a document without a tree**: the loader walks a flat sequence of tokens, and
  one token too many or too few turns the rest of it into something else;
* **routing**: the mode, what was loaded, and which export asks for which;
* **numbers**: delays relative in the file, absolute in the list; a CAN id that
  is 16 bits wide in one program and 32 in the other; a signed difference read
  as an unsigned number.

## The modules

| Module | Lines of code it stands for | Kind |
|---|---|---|
| `EventQueue` | push, pop, peek of `scheduler.c` | operators on sequences |
| `GhostCar` | (none: the abstract specification of the data path) | state machine |
| `Playback` | the data path, on `EventQueue` | state machine, implements `GhostCar` |
| `Delivery` | the scheduler's life and its thread, on `EventQueue` | state machine |
| `CallbackSlots` | `PDURegisterEventCallback` in the forwarding modes | state machine |
| `Shim` | `DllMain`, `fremsoft_init`, routing of the exports | state machine |
| `Recording` | the tokens of a document, `recording_load`, `recording_lookup` | operators |
| `Converter` | `build_recording.py`, on `Recording` | state machine, one pass per function |
| `LogFiles` | `unknown_log.c`, `log.c`, the activity log of `fremsoft.c` | state machine |
| `EventQueueProofs`, `PlaybackProofs`, `CarProofs`, `DeliveryProofs`, `CallbackSlotsProofs`, `ShimProofs`, `LogFilesProofs`, `ConverterProofs` | | theorems |
| `MC*` | | constants and symmetry of the TLC runs |

An operator whose name begins with `Mut` is a slip the code might have made,
kept beside the definition it would replace to show that a property notices it.
Nothing in a specification uses one. `map` in `PROJECT.json` names the lines of
source that every other definition of the code stands for.

### EventQueue

The chain of nodes as a sequence. `Pushed` appends, whatever the due time;
`IsFirstDue` is the position where `scheduler_pop_due` stops, the first node in
list order that is on the link and due; `Detached` unlinks it; `HasDue` is the
peek. Each walk runs under the scheduler's critical section, so it is one step
of the modules that use it. The payload is left to those modules. A link is the
pair `(hMod, hCLL)`.

### Playback and GhostCar

A thread of the application is in one of two calls, and `pc[t]` says where:

| `pc[t]` | In the code | Next |
|---|---|---|
| `idle` | outside | `AckOnly`, `BeginSend`, `BeginPoll` |
| `lookup` | handle taken and written to the caller, request logged | `Lookup`: recording searched, clock read |
| `push` | at the top of the loop over the replies | `Push`, `PushFails`, `SkipReply`, `EndSend` |
| `log` | pushed, the log line not yet written | `LogReply` |
| `poll` | clock read | `PollFinds`, `PollIsEmpty` |
| `build` | event taken out of the list | `HandOver`, `BuildFails` |

`job[t]` holds the locals of the call. The NRC for an unknown request runs
through the same labels as a script with one reply, `Script(req)`. A buffer is
named by its handle and reply number, since the code allocates one per reply;
`freed` collects what was given back. The history variables `calls`, `heard`
and `lost` remember what was accepted, handed over, and swallowed by a failed
allocation.

`g_next_h_cop` is incremented with `InterlockedIncrement`, one step. The clock
may advance between any two steps. `PDUCancelComPrimitive` is a forwarder and
touches none of this, so it is no action here.

Properties: `RecordedOrder`, `NeverEarly`, `ReplyAccounting` (each reply is in
exactly one place: still to come, in the list, in the hands of a poll, handed
over, or lost), `LogReadsLiveBuffer`, `EveryReplyArrives`, and `CarSpec`.

`GhostCar` is what playback promises: a request is accepted; each reply of its
script is handed over at most once, on the link of the request, not before its
recorded time, and (one reader per link) in recorded order. `Playback` implements
it with `clock <- now` and `Ordered <- OneReader`; `calls` and `heard` carry the
same names on both sides. An `Accept` is the `Lookup` step, where the code reads
the clock that every due time is computed from.

#### ReadersRace

`PDUGetEventItem` takes an event under the lock and builds the item outside it.
When two threads poll the same link, the one that took the first reply may
return after the one that took the second: the application then sees them in
reverse. That is why `RecordedOrder` is stated under `OneReader`, which lets one
thread at a time poll a given link, as Tech2Win's poll loop does. Different
threads may still poll different links. Everything that does not depend on the
order is checked without the assumption (`playback_live`).

### Delivery

`owner` is where `fremsoft_init` and `fremsoft_shutdown` are: `new`, `up`,
`stopping`, `waiting` (in `WaitForSingleObject`), `freeing`, `freed`. `dpc` is
where the delivery thread is: `check` (reads `stop_flag`), `snapshot` (copies
the slot under the lock), `peek` (walks the list under the lock), `call`,
`calling` (inside the application's callback), `sleep`, `exiting`, `ended`, or
`none` if `CreateThread` failed. Pushes and polls are single steps here.

*Time.* A tick is the 5 ms of `Sleep(5)`. Steps take no time, and only sleeping,
waiting and the callback let it pass, so `Tick` is disabled while the thread has
something to do. `WaitTicks` is 200 ms, `CallbackTicks` the longest the
application stays in its callback. This idealises the machine: a thread that is
kept off the processor for as long as the wait is not in the model (it would
break `NoUseAfterFree` as a slow callback does).

*Loader lock.* `DllMain` runs under it, and a thread of the process needs it to
end; `ThreadEnds` is therefore disabled from `stopping` to `freeing`, and in
a run with a live thread the wait always lasts its full 200 ms. This part is
external, modelled from what Windows does for `WaitForSingleObject` on a thread
from `DllMain`. `Unload` leaves the application's threads alive; `ProcessExit`
has terminated every other thread before `DllMain` runs. One of them, the
delivery thread or a thread of the application in a push, a pop or a
registration, may have been inside the scheduler's lock (`orphaned`);
`scheduler_free` then enters a lock that nobody will leave, and the system ends
the exiting process there (`EndAtOrphanedLock`, external).

### CallbackSlots

`wrappers.c` keeps a table of callbacks it registers with the vendor. The flag
`g_cb_lock_initialized` is read and set outside any lock, so each access is a
step: `Begin` (reads it), `InitLock`, `SetFlag`, `Enter`, `Claim` (reads
`g_cb_count`) or `PassOver`, `Count` (writes it), `Store` (fills the slot), `Leave`,
`Forward`. Initialising a critical section someone is inside
is undefined; the model lets the lock be free afterwards, and a leave by a
thread that does not own it leaves the lock as it was, free, or stuck for ever.
The constant `FirstAlone` says that no call begins during the very first one.

### Shim

`Attach` runs `load_real_dll` and `fremsoft_init` with every combination of
registry mode, vendor DLL present or not, recording readable or not, memory for
the scheduler or not. The exports then go to a side: `PDURegisterEventCallback`,
`PDUStartComPrimitive` and `PDUGetEventItem` ask for the mode;
`PDUConstruct` stands for those that never do; `PDUDestroyItem` is a forwarder
that matters because the engine allocates items. `side[c]`, `queued`, `items`
reduce engine and vendor to which of them holds what.

A request that is accepted need not be answered. The engine queues nothing
without a scheduler, for a ComPrimitive that is not SENDRECV (`fremsoft.c:205`), for
a request too short (`:211`), for an exchange recorded with an empty `rx` (`:236`, as
the first two of the shipped recording are), and when the buffer or the node of
the event cannot be allocated (`:250`, `:278`, `scheduler.c:62`); a poll that cannot
allocate the item loses the reply it took (`fremsoft.c:342`). `Shim` lets a request
be queued or not and a poll lose its reply; `Playback` tells the cases apart and
counts what is lost. What routing owes is `NoReplyIsStranded`: a reply that is
queued, on either side, is reached by the application's polls.

### Recording and Converter

Lines of a log are records with a time, a direction and a request;
a reply is named by its position in the log, its bytes are only copied. One action per
branch of the loops of `pair_exchanges` and `index_by_request`. `Parsed` keeps
two bytes of the CAN id, as `parse_log` does.

`Document` is what `main` writes, as the tokens jsmn makes of it: an object or an
array is a token with the number of its members, followed by their tokens. At
each level a member may be added that the loader does not know (`Strays`), as a
hand-edited recording would have. `Load` is the walk of `recording_load`: each
of its loops is `Loop`, a recursive function with the position in the tokens as
part of its state, so that a wrong step carries over into everything that
follows, as it does in the code; the bodies are `TopMember`, `ExchangeMember`,
`TxMember` and `RxMember`. jsmn itself is external. Entries start zeroed, delays are read with
`strtoul` into 32 bits (`LoadDelay`). `LookupStopsAt` is `recording_lookup` with
the whole CAN id, as the engine calls it.

The reference definition that the passes are checked against is `BelongsTo`,
stated on the log alone: reply *i* belongs to request *j* if *j* is the last
request before it and no two neighbouring lines from *j* to *i* are further
apart than the gap. `LoaderReadsWhatWasWritten` compares the table of the loader
with what the converter had in its hands.

### LogFiles

The shim log, the activity log and the log of unknown requests have the same
shape: a file pointer, a critical section, a flag. A log function tests the
file outside the lock (`BeginLine`), enters (`Enter`), writes the line in pieces
(`WriteHead`, `WriteTail`: the files are unbuffered, so each piece is on disk at
once) and leaves (`Leave`). They differ in how they begin and end, and the model
keeps that: only `unknown_log_record` opens its log when it is not initialised
(`InitLock`, `OpenAgain`); only the activity log and the unknown log are closed
and their locks deleted (`CloseLog`, `DeleteLock`), the shim log never.

`phase` is where the DLL is: `down`, `up`, `closing`, `deleting` (a file closed, its
lock about to be deleted), `closed`. The way down is `Unload` (the application's
threads have left, one thread that the shutdown gave up waiting for may not
have: `Late`), `ProcessExit` (all other threads killed where they are) or `Crash`
at any point; then the DLL may be attached again. `disk` is what survives: for
each log and second, the contents of the file of that name.

A thread that enters a lock that was deleted gets in, faults, or never returns
(undefined in Windows). One that writes through a pointer that has become NULL
takes the process down. `Orphaned`, external, is the lock whose owner was killed.

## The runs

All passing runs explore their whole state space.

| Run | States | Shows |
|---|---|---|
| `playback` | 280k | two threads send and poll on two links while any allocation may fail: recorded order, never early, every reply in exactly one place; the data path implements the ordered `GhostCar`; the invariant of the proofs holds in every reachable state |
| `playback_live` | 146k | several threads may poll one link, and memory suffices: every reply of every request arrives if the application polls, once, never early, in some order (the unordered `GhostCar`) |
| `delivery` | 616k | registrations, callbacks, unload and exit against the delivery thread: no use after free (callback + sleep < wait), at most one call with a replaced callback, the shutdown returns, what is due on the link of the callback is announced |
| `callback_slots` | 34k | three threads, more calls than slots, NULL callbacks: no slot is shared or overrun, and no path leaves the lock behind |
| `shim` | 1.2k | all modes and failures at attach, requests with and without a reply: the engine is in charge only with a recording, the callback is registered where the replies are, and the polls reach every reply that is queued, after a fall-back too |
| `converter` | 872k | every log of up to five lines: pairing, delays, gaps, first recording wins, and the loader's walk reads back the document, with and without members it does not know; the invariant of the proofs holds |
| `logfiles` | 156k | the three logs over attach, unload, exit, crash and re-attach: no line torn by another thread, the shutdown ends, log functions return |

The other runs (`playback_log_race`, `slow_callback`,
`callback_slots_first_race`, `item_heaps`, `clock_set_back`) each end in a
counterexample, explained [below](#where-code-and-documentation-differ).

### Bounds

| Constant | Value | Stands for | Why it is enough |
|---|---|---|---|
| `Threads`, `Links` (Playback) | 2, 2 | any | a race needs two; the proofs cover any number |
| `MaxCops` | 2 | 2^32 handles | two overlapping requests; the proofs cover any number |
| `Requests` | up to 4 | any recording | a script with two replies (the second with no delay after the first), one with one, an empty one, the NRC |
| `Horizon`, `MaxTime` | 1, 2 | milliseconds | a request may start while another is being answered; `MaxTime` is `Horizon` plus the longest offset, so every reply falls due inside the bound |
| `NrcDelay` | 1 | 50 ms | slower than a recorded reply without delay, so that due order and list order differ |
| `SleepTicks`, `CallbackTicks`, `WaitTicks` | 1, 2, 4 | 5 ms, the application's, 200 ms | only `CallbackTicks + SleepTicks < WaitTicks` matters; the proof takes any values that satisfy it |
| `MaxEvents`, `MaxRegistrations` | 2-3 | any | register, replace, remove |
| `MaxSlots`, `MaxCalls` | 2, 4 | 16, any | more calls than slots; the proof takes any |
| `MaxFrames` | 5 | a log | two requests with replies, or one with four |
| `CanWord`, `DelayWord` | 16, 64 | 2^16, 2^32 | the CAN ids of the runs fit the first, as 11-bit ids do; a negative difference wraps far beyond `MaxGap` |
| `Strays` | none, or one at each level | hand-edited recordings | one extra member at a level already shifts everything behind it if it is stepped over wrongly |
| `Threads`, `Late` (LogFiles) | 2, 1 | any, the delivery thread | a torn line needs two; the proofs cover any number |
| `MaxSecond`, `MaxLines` | 1, 2 | time, lines | a restart in the same second or in the next; two lines at once, or one before and one after a restart |

`Horizon` and `MaxTime` bound the environment only: the clock and the start of
requests. In `Playback` the end of a behaviour always finds the application
free to poll, so deadlock is checked. `CHECK_DEADLOCK FALSE` is set where
behaviours do end: `Delivery` (the scheduler is freed), `Shim` (the DLL is gone,
or the process), `CallbackSlots` (all calls were made), `Converter` (done), `LogFiles` (all seconds and
lines are used up).

Symmetry is used in `playback` alone, over threads and links, which carry no
data; its properties are safety properties.

### Fairness

* `Playback`: each call in progress runs to its end (no step of it waits for
  another thread beyond the short critical section); the clock advances; and
  each link is polled again and again (`SF`, since a poll can only begin when a
  thread is outside its calls, which it is only from time to time). The last is the application's part:
  `src/src/scheduler.c:9-11` relies on Tech2Win polling in a loop. Nothing forces
  the application to send requests.
* `Delivery`: the delivery thread and the shutdown take their steps, and time
  passes. The application owes nothing beyond returning from its callback
  within `CallbackTicks`, which is part of the model of time.
* `CallbackSlots`: a thread inside a call goes on. The number of calls is finite,
  so the critical section need not be fair.
* `Shim`: the application polls.
* `LogFiles`: a thread inside a log function goes on, and so does the detach.
  Locks need not be fair: lines are finite. Nothing forces a restart.

## The proofs

Each theorem is proved for every value of the constants that satisfies the named
`ASSUME`s of its module. TLC evaluates those assumptions in every run.

**EventQueueProofs** has the facts about push and pop that the others cite:
where each event of a list comes from after `Pushed` and `Detached`, and that
the types of the elements are kept.

**PlaybackProofs** proves `TypeCorrect` (`TypeOK`), `Invariance` (`IInv`),
`RepliesInRecordedOrder` and `NothingIsEarly`: any number of threads, links,
requests and replies, failing allocations, any number of readers for
`NothingIsEarly`, and one per link for the order. Neither property is inductive.
`IInv` adds:

* `HandlesAreFresh`: a handle belongs to at most one running call;
* `FramesMatchCalls`: the running sum `cum` of a call is `Offset` of what it has
  scheduled, and its base time is the recorded time of the request. `Offset` is
  a recursive function; that it exists and adds one delay per reply is proved by
  induction (`SumExists`, `OffsetSums`);
* `QueueMatchesCalls`, `ItemsMatchCalls`, `HeardMatchesCalls`: an event in the list, in the
  hands of a poll, or handed over carries the link and the due time that belong
  to its handle and number, and the last two are past due;
* `QueueInScriptOrder`: events of one handle stand in the list in script order,
  which `Pushed` keeps since the loop only moves ahead (`LoopIsAhead`) and
  `Detached` keeps since it removes one;
* `SoleReader`, `StagesInOrder`: with one reader per link, what was handed over
  precedes what a poll holds, which precedes what is in the list. The step to
  look at is `PollFinds`: events of one handle are on the same link and due in
  script order (delays are not negative), so the first due one is the first one.

**CarProofs** goes from there to the two statements about replies as a whole.
`NoReplyGoesAstray` is `ReplyAccounting`: every reply of an accepted request is in
exactly one place. It is inductive together with `IInv` and two facts of its own
(`AccountInv`): two polls never hold the same reply (`HeldOnce`), and nothing is
lost under a handle before its lookup (`LostWasCalled`). The argument is the same
for each action: `LeftAlone` says what a step must not disturb for a reply it is
not about, and one reply moves from one place to the next. `PollMoves` is the
step where `IInv` is needed: events of a handle stand in the list in script
order, so the one taken out was the only one for its reply.
`ImplementsTheCar` is the refinement, `Spec => CarSpec`: `Lookup` is the car's
`Accept` (the handle was not used before), `HandOver` its `Deliver` (the reply
belongs to the request, is due, was not heard, and with one reader follows what
was heard: all from `AccountInv`), `Tick` its `Tick`; every other step leaves
clock, requests and replies heard unchanged.

**DeliveryProofs** proves `DeliveryTypes`, `StopInvariance`, `StopIsTimelyEnough` and
`StaleAtMostOnce`. When `CallbackTicks + SleepTicks < WaitTicks`, `NoUseAfterFree`
holds. The invariant `ShutdownInv` turns time into a variant: once the flag is up,
`waited` never exceeds what the thread has spent in the rest of one callback and
one sleep (`WaitIsBounded`), so when the wait times out the thread has already
read the flag for the last time (`ThreadIsDone`). The assumption is needed:
`slow_callback` shows what happens without it. `StaleAtMostOnce` needs none: after
one call with an old callback the loop takes a new snapshot before it calls
again, and until the next registration that one is the slot (`StaleInv`).

**CallbackSlotsProofs** proves `SlotsInvariance` and `SlotsAreKept`: if the first
registration is alone, no two registrations share a slot. `SlotsInv` says the lock
is initialised before anyone is inside (`LockWorks`) and that filled slots are
below the count (`TableIsFilled`). `callback_slots_first_race` shows the
assumption is needed. `TableIsNotOverrun` reads off that the count never passes
the size of the table.

**ShimProofs** proves `ShimTypes` (a serving mode has a recording) and
`RepliesMeetTheCallback` (`CallbackFollowsReplies`), from `RoutingInv`: whatever is queued, and
the callback, are on the side that `PDUGetEventItem` polls, which no step but
an attach changes.

**LogFilesProofs** proves `LogInvariance`, `LogTypes` and `NoTornLines`. `LinesAreWhole` is not inductive: `Exclusion` adds that a
thread that is inside a log whose file is open owns its lock, and that a deleted
lock belongs to a closed file; `Pieces` that only the owner of the lock leaves a
file torn, and that the head at its end is its own; `DetachInOrder` which threads can
still be there, and that the log of unknown requests is initialised until its lock
is deleted, so nobody makes its lock again under a thread inside it.

**ConverterProofs** proves all five properties of the way from a log to the table
that playback searches, for logs of every length, any requests and any choice of
unknown members:

| Theorem | Property | Under |
|---|---|---|
| `PairingIsExact` | `RepliesFollowTheirRequest` | |
| `LoaderIsRight` | `LoaderReadsWhatWasWritten` | |
| `TimesAreKept` | `DelaysAddUp` | `ClockNeverBack`: no step of `Steps` is negative |
| `GapsStayBounded` | `GapsAreBounded` | `ClockNeverBack` |
| `FirstsAnswer` | `FirstRecordingAnswers` | `ShortIds`: CAN ids are below `CanWord` |

`clock_set_back` shows that `ClockNeverBack` is needed. `ShortIds` is what keeping
two bytes of a CAN id costs; the 11-bit ids of the recordings satisfy it.

The inductive invariant is `ConverterInv` (`ConversionInvariance`). What is known
of an exchange is stated on the log alone: `Follows` says that its lines are
neighbours, a request and then replies, each at most the gap after the line
before it; `Stops` that the line after them is a request or comes after a gap.
Together they leave no reply out and take none that belongs elsewhere, which is
`PairingIsExact`. `ExchangesAreWhole` has both for every collected exchange,
`OpenReachesPos` has `Follows` for the open one and that it ends just before `pos`;
so it may be closed exactly where the next line stops it. `InLogOrder` and
`RequestsAreKept` make "the first exchange of a request" the same as "the first
time it was sent", and `IndexHasFirsts` says the index has those, once each.

The other half is the walk over the tokens. `Stands(tok, j, s)` says that the
tokens `s` are found in the document from position `j` on; `GroupIs` and
`PlaceSteps` say where each part of an object or an array stands. For each loop of
`recording_load` there is one lemma: if the tokens of that part stand at `j`, the
loop reads it whole and stops right behind it (`ReadsTx`, `ReadsRx`, `ReadsReplies`,
`ReadsExchange`, `ReadsExchanges`, up to `LoadIs`). An unknown member at any level
moves everything by two tokens, which is what the loop moves by.

A loop is a recursive function, in TLA+ the one that `CHOOSE` picks for its
equation. The lemmas write a run of the loop down and show that it satisfies the
equation; `SameRuns` says that two runs which begin alike and go on alike end
alike. That is induction over the natural numbers: the library's rule takes an
operator and cannot be used with these provers, so `NatSetInduction` states it
for a set, from the well-foundedness of `<` (`WFMin`).

All safety properties and action properties of the passing runs are thus proved,
as is the refinement. Only model-checked: liveness under fairness
(`EveryReplyArrives`, `ShutdownCompletes`, `DueEventIsAnnounced`,
`EveryRegistrationReturns`, `NoReplyIsStranded`, `DetachEnds`, `CallsReturn`),
which these provers do not reach.

## Where code and documentation differ

Each has a run that ends in a counterexample; the quotes are in `PROJECT.json`.

| Run | What the run shows |
|---|---|
| `playback_log_race` | `fremsoft_PDUStartComPrimitive` logs the bytes of a reply after pushing it; another thread may already have polled and freed it |
| `slow_callback` | an application that stays in its callback for the 200 ms of the shutdown: the thread goes back to a freed scheduler |
| `callback_slots_first_race` | two first registrations at once both initialise the lock and share slot 0 |
| `item_heaps` | items allocated by the engine are freed by the vendor's DLL |
| `clock_set_back` | a negative difference of wall-clock times becomes a delay of 49 days |

Remarks on what reading the code shows without a run:

* `src/src/fremsoft.c:12` says that `PDUCancelComPrimitive` "drops queued events for
  the cancelled hCop", and `scheduler.h:67` that `scheduler_cancel_cop` is "used by
  PDUCancelComPrimitive". The export is a forwarder (`forwarders.c:58`) and
  `scheduler_cancel_cop` has no caller: the replies to a cancelled request stay in
  the list and are handed over.
* `log.c:5` says "Buffered, but flushed after every line", `log.c:36` "unbuffered";
  the code is the latter, so a crash can leave part of a line. `unknown_log.c:5`
  names the file by `<wall_ms>`; the code by the second (`unknown_log.c:37`). Like the
  other two it is opened with mode `wb`, so an attach within a second of the last
  one empties it: "every write hits disk so a crash doesn't lose context"
  (`log.c:36`) fails for an application that crashes and is back within the
  second. `LogFiles` has that step; what it erases, no property can promise.
* The list is in push order. The comment at `scheduler.c:65-67` says that is
  also due-time order; with two overlapping requests on a link it is not, and
  `GhostCar` leaves the order of replies to different requests open.
* There is one callback slot for all links (`scheduler.c:115`), though
  `scheduler.h:5-12` speaks of a list per `(hMod, hCLL)`: a registration for a
  second link silences the first. `DueEventIsAnnounced` is about the link of the
  last registration.
* In standalone mode, and in the other modes without the vendor's DLL,
  `PDUConstruct` calls a pointer that was never set (`wrappers.c:78`); `Shim` has
  the step.
* The engine answers CoPType 0x8010 only (`fremsoft.c:205`), while the hand-off
  notes (`HANDOFF.md:179`) observed requests with 0x8004.
* The converter keeps 16 bits of a CAN id (`build_recording.py:59`), the engine
  compares 32 (`fremsoft.c:218-222`): recordings of wider ids are not found.
* `src/README.md:24` says that in playback mode the real DLL "is loaded but never
  called"; every forwarder calls it.
* The delivery thread calls a callback of three arguments (`scheduler.h:60`)
  where the comment at `wrappers.c:362-370` describes five.

## What is not modelled

* *Nested values of unknown members* in a recording: the loader steps over two
  tokens whatever the value, so one with members of its own puts it out of step.
  The converter writes none.
* *Single allocations of `recording_load`* that fail (`recording.c:70`, `136`, `168`).
  `Shim` has the load that fails as a whole.
* *Calls of the application during its own `FreeLibrary`*, other than from the
  delivery thread's callback.
* *jsmn*, vendored; *the stubs* of `fremsoft.c:385-430`, which have no caller;
  `gen_shim.py` and the build scripts; `decode_ssa_for_seed.py` and
  `sync_raw_logs.ps1`, offline helpers; the installer scripts, which set the
  registry values `Shim` takes as input.
* The bytes of requests, replies and log lines: names in the models.
* The trampolines of `wrappers.c`, disabled in the code.
* The wrap of the 32-bit handle counter.

## Plan

Order of work, most important behaviour first. Done: `EventQueue`, `GhostCar`,
`Playback`, `Delivery`, `CallbackSlots`, `Shim`, `LogFiles`, `Recording` and
`Converter` with their proofs.

Next:

1. `RoundTrip`: `Converter` composed with `Playback`'s script: what the car said
   when it was recorded is what `GhostCar` says in playback.
2. `Session`: `Shim` composed with `Delivery`: data-path calls in progress while
   the DLL detaches.
