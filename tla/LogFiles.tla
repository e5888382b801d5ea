------------------------------ MODULE LogFiles ------------------------------
(***************************************************************************)
(* The three log files of the DLL in a serving mode: the shim log          *)
(* (src/shim/cstech2win/src/log.c), the activity log (src/src/fremsoft.c)  *)
(* and the log of unknown requests (src/src/unknown_log.c).                *)
(*                                                                         *)
(* All three follow one discipline: the file pointer is tested outside the *)
(* lock, then the line is written in several pieces inside it.  The files  *)
(* are unbuffered, so each piece is on disk when it is written.  A line is *)
(* two pieces here, its head and its tail.                                 *)
(*                                                                         *)
(* The DLL comes and goes: it is unloaded, the process exits and kills its *)
(* threads wherever they are, or crashes; then it is attached again.  The  *)
(* name of a file is the second it was opened in.                          *)
(***************************************************************************)
EXTENDS Integers, Sequences

CONSTANTS
    Threads,       \* threads that log
    Late,          \* those that may log while the DLL is being unloaded
    MaxSecond,     \* bound: last second
    MaxLines       \* bound: calls of log functions

Logs == {"shim", "activity", "unknown"}

Seconds == 0 .. MaxSecond

(***************************************************************************)
(* The shutdown gives up waiting for one thread only, the delivery thread. *)
(***************************************************************************)
ASSUME LateAssumption == Late \subseteq Threads /\ \A t, u \in Late : t = u

ASSUME LogBoundAssumption == MaxSecond \in Nat /\ MaxLines \in Nat

ASSUME LogThreadsAssumption == Threads \cap {"raw", "free", "deleted", "detach"} = {}

NoFile == -1

VARIABLES
    second,   \* GetLocalTime
    phase,    \* "down", "up", "closing", "deleting", "closed"
    closing,  \* the log the detach is at
    ready,    \* ready[l]: g_log_initialized, g_act_init, g_init
    lock,     \* lock[l]: "raw", "free", "deleted" or the thread inside
    file,     \* file[l]: the second log l was opened in, or NoFile
    disk,     \* disk[l][s]: what the file opened in second s holds
    pc,       \* pc[t]: where thread t is
    log,      \* log[t]: the log it writes to
    lines     \* history: calls that got past the test of the file

process == <<phase, closing, ready, lock, file, pc, log>>

vars == <<second, process, disk, lines>>

Init ==
    /\ phase = "down"
    /\ closing = "shim"
    /\ ready = [l \in Logs |-> FALSE]
    /\ lock = [l \in Logs |-> "raw"]
    /\ file = [l \in Logs |-> NoFile]
    /\ pc = [t \in Threads |-> "idle"]
    /\ log = [t \in Threads |-> "shim"]
    /\ second = 0
    /\ disk = [l \in Logs |-> [s \in Seconds |-> << >>]]
    /\ lines = 0

(***************************************************************************)
(* Only what is on disk outlives a process.                                *)
(***************************************************************************)
Gone ==
    /\ phase' = "down"
    /\ closing' = "shim"
    /\ ready' = [l \in Logs |-> FALSE]
    /\ lock' = [l \in Logs |-> "raw"]
    /\ file' = [l \in Logs |-> NoFile]
    /\ pc' = [t \in Threads |-> "idle"]
    /\ log' = [t \in Threads |-> "shim"]

Goto(t, label) == pc' = [pc EXCEPT ![t] = label]

-----------------------------------------------------------------------------
(* Opening                                                                 *)

FileName == second

(***************************************************************************)
(* fopen(path, "wb") of the logs in opened: a file of that name that is    *)
(* already there is emptied, whoever wrote it.  An open that fails         *)
(* concerns no other log.                                                  *)
(***************************************************************************)
Emptied(opened) ==
    [l \in Logs |-> IF l \in opened THEN [disk[l] EXCEPT ![FileName] = << >>] ELSE disk[l]]

(***************************************************************************)
(* DLL_PROCESS_ATTACH: shim_log_init, open_activity_log, unknown_log_init. *)
(* What they write themselves is left out: no other thread is there yet.   *)
(***************************************************************************)
Attach(opened) ==
    /\ phase = "down"
    /\ disk' = Emptied(opened)
    /\ file' = [l \in Logs |-> IF l \in opened THEN FileName ELSE NoFile]
    /\ ready' = [l \in Logs |-> TRUE]
    /\ lock' = [l \in Logs |-> "free"]
    /\ phase' = "up"
    /\ UNCHANGED <<second, closing, pc, log, lines>>

-----------------------------------------------------------------------------
(* shim_log, shim_log_hex, fremsoft_log_req_pdu, fremsoft_log_rsp_uds,     *)
(* unknown_log_record                                                      *)

Detaching == phase \in {"closing", "deleting", "closed"}

Running(t) == phase = "up" \/ (Detaching /\ t \in Late)

MutCanEnter(l) == lock[l] # "deleted"

CanEnter(l) == lock[l] = "free"

(***************************************************************************)
(* A line written to the shim log in one step, onto the disk d: what is    *)
(* done under its lock, which is never deleted, is one step for the other  *)
(* threads.                                                                *)
(***************************************************************************)
CanLogToShim == file["shim"] = NoFile \/ CanEnter("shim")

LoggedToShim(d, writer) ==
    IF file["shim"] = NoFile THEN d
    ELSE [d EXCEPT !["shim"][file["shim"]] =
             @ \o <<[by |-> writer, part |-> "head"], [by |-> writer, part |-> "tail"]>>]

(***************************************************************************)
(* unknown_log_record opens its log when it is not; the others do not.     *)
(* Without a file they return at once.                                     *)
(***************************************************************************)
BeginLine(t, l) ==
    /\ Running(t)
    /\ pc[t] = "idle"
    /\ lines < MaxLines
    /\ lines' = lines + 1
    /\ log' = [log EXCEPT ![t] = l]
    /\ \/ l = "unknown" /\ ~ ready[l] /\ Goto(t, "init")
       \/ (l = "unknown" => ready[l]) /\ file[l] # NoFile /\ Goto(t, "enter")
    /\ UNCHANGED <<second, phase, closing, ready, lock, file, disk>>

(***************************************************************************)
(* unknown_log_init from a late request: the lock, then the file, a line   *)
(* in the shim log, and the flag.                                          *)
(***************************************************************************)
InitLock(t) ==
    /\ Running(t)
    /\ pc[t] = "init"
    /\ lock' = [lock EXCEPT !["unknown"] = "free"]
    /\ Goto(t, "open")
    /\ UNCHANGED <<second, phase, closing, ready, file, disk, log, lines>>

OpenAgain(t) ==
    /\ Running(t)
    /\ pc[t] = "open"
    /\ CanLogToShim
    /\ \E opened \in SUBSET {"unknown"} :
          /\ disk' = LoggedToShim(Emptied(opened), t)
          /\ file' = [file EXCEPT !["unknown"] = IF opened = {} THEN NoFile ELSE FileName]
          /\ Goto(t, IF opened = {} THEN "idle" ELSE "enter")
    /\ ready' = [ready EXCEPT !["unknown"] = TRUE]
    /\ UNCHANGED <<second, phase, closing, lock, log, lines>>

(***************************************************************************)
(* EnterCriticalSection.  On a lock that was deleted after the test of the *)
(* file anything may happen: the thread gets in, faults, or never returns. *)
(***************************************************************************)
Enter(t) ==
    /\ Running(t)
    /\ pc[t] = "enter"
    /\ \/ /\ CanEnter(log[t])
          /\ lock' = [lock EXCEPT ![log[t]] = t]
          /\ Goto(t, "head")
          /\ UNCHANGED <<phase, closing, ready, file, log>>
       \/ /\ lock[log[t]] = "deleted"
          /\ \E outcome \in {"head", "stuck"} : Goto(t, outcome)
          /\ UNCHANGED <<phase, closing, ready, lock, file, log>>
       \/ lock[log[t]] = "deleted" /\ Gone
    /\ UNCHANGED <<second, disk, lines>>

(***************************************************************************)
(* A piece goes to the file the global points to now; through a pointer    *)
(* that the shutdown has set to NULL, fprintf faults.                      *)
(***************************************************************************)
Put(t, part, next) ==
    /\ IF file[log[t]] # NoFile
       THEN /\ disk' = [disk EXCEPT ![log[t]][file[log[t]]] =
                           Append(@, [by |-> t, part |-> part])]
            /\ Goto(t, next)
            /\ UNCHANGED <<phase, closing, ready, lock, file, log>>
       ELSE Gone /\ UNCHANGED disk
    /\ UNCHANGED <<second, lines>>

WriteHead(t) ==
    /\ Running(t)
    /\ pc[t] = "head"
    /\ Put(t, "head", "tail")

WriteTail(t) ==
    /\ Running(t)
    /\ pc[t] = "tail"
    /\ Put(t, "tail", "leave")

(***************************************************************************)
(* LeaveCriticalSection.  In the mutant the lock is not given back.        *)
(***************************************************************************)
MutLeft(t) == lock[log[t]]

Left(t) == IF lock[log[t]] = t THEN "free" ELSE lock[log[t]]

Leave(t) ==
    /\ Running(t)
    /\ pc[t] = "leave"
    /\ lock' = [lock EXCEPT ![log[t]] = Left(t)]
    /\ Goto(t, "idle")
    /\ UNCHANGED <<second, phase, closing, ready, file, disk, log, lines>>

-----------------------------------------------------------------------------
(* The end of a process, and of the DLL in it                              *)

(***************************************************************************)
(* FreeLibrary: the application's threads have left the DLL, a delivery    *)
(* thread the shutdown gave up waiting for may not have.                   *)
(***************************************************************************)
Unload ==
    /\ phase = "up"
    /\ \A t \in Threads \ Late : pc[t] = "idle"
    /\ phase' = "closing"
    /\ UNCHANGED <<second, closing, ready, lock, file, disk, pc, log, lines>>

(***************************************************************************)
(* The process exits: its other threads are killed where they are.         *)
(***************************************************************************)
ProcessExit ==
    /\ phase = "up"
    /\ phase' = "closing"
    /\ pc' = [t \in Threads |-> "killed"]
    /\ UNCHANGED <<second, closing, ready, lock, file, disk, log, lines>>

Crash ==
    /\ phase # "down"
    /\ Gone
    /\ UNCHANGED <<second, disk, lines>>

(***************************************************************************)
(* The detach logs a last line, which the shim log is still there for.     *)
(***************************************************************************)
LogExit ==
    /\ phase = "closing"
    /\ closing = "shim"
    /\ CanLogToShim
    /\ disk' = LoggedToShim(disk, "detach")
    /\ closing' = "activity"
    /\ UNCHANGED <<second, phase, ready, lock, file, pc, log, lines>>

(***************************************************************************)
(* fremsoft_shutdown closes the activity log if it is open, and the log of *)
(* unknown requests if it was initialised.  Nobody closes the shim log.    *)
(***************************************************************************)
ToClose(l) ==
    \/ l = "activity" /\ file[l] # NoFile
    \/ l = "unknown" /\ ready[l]

Advance ==
    /\ closing' = "unknown"
    /\ phase' = IF closing = "activity" THEN "closing" ELSE "closed"

SkipLog ==
    /\ phase = "closing"
    /\ closing # "shim"
    /\ ~ ToClose(closing)
    /\ Advance
    /\ UNCHANGED <<second, ready, lock, file, disk, pc, log, lines>>

CloseLog ==
    /\ phase = "closing"
    /\ ToClose(closing)
    /\ lock[closing] = "free"
    /\ file' = [file EXCEPT ![closing] = NoFile]
    /\ phase' = "deleting"
    /\ UNCHANGED <<second, closing, ready, lock, disk, pc, log, lines>>

(***************************************************************************)
(* External.  A lock whose owner was killed cannot be entered: the system  *)
(* ends the exiting process there.                                         *)
(***************************************************************************)
Orphaned ==
    /\ phase = "closing"
    /\ lock[closing] \in Threads
    /\ pc[lock[closing]] = "killed"
    /\ Gone
    /\ UNCHANGED <<second, disk, lines>>

DeleteLock ==
    /\ phase = "deleting"
    /\ lock' = [lock EXCEPT ![closing] = "deleted"]
    /\ ready' = [ready EXCEPT ![closing] = FALSE]
    /\ Advance
    /\ UNCHANGED <<second, file, disk, pc, log, lines>>

(***************************************************************************)
(* The DLL is unmapped, under a late thread too, or the process is gone.   *)
(***************************************************************************)
Unmap ==
    /\ phase = "closed"
    /\ Gone
    /\ UNCHANGED <<second, disk, lines>>

Tick ==
    /\ second < MaxSecond
    /\ second' = second + 1
    /\ UNCHANGED <<process, disk, lines>>

-----------------------------------------------------------------------------

Continue(t) ==
    \/ InitLock(t)
    \/ OpenAgain(t)
    \/ Enter(t)
    \/ WriteHead(t)
    \/ WriteTail(t)
    \/ Leave(t)

Detach ==
    \/ LogExit
    \/ SkipLog
    \/ CloseLog
    \/ Orphaned
    \/ DeleteLock
    \/ Unmap

Next ==
    \/ \E opened \in SUBSET Logs : Attach(opened)
    \/ \E t \in Threads, l \in Logs : BeginLine(t, l)
    \/ \E t \in Threads : Continue(t)
    \/ Unload
    \/ ProcessExit
    \/ Crash
    \/ Detach
    \/ Tick

Spec == Init /\ [][Next]_vars

(***************************************************************************)
(* A thread in a log function runs on, and so does the detach.             *)
(***************************************************************************)
FairSpec == Spec /\ WF_vars(Detach) /\ \A t \in Threads : WF_vars(Continue(t))

-----------------------------------------------------------------------------
(* Properties                                                              *)

Labels == {"idle", "init", "open", "enter", "head", "tail", "leave", "stuck", "killed"}

Inside(t) == pc[t] \in {"head", "tail", "leave"}

(***************************************************************************)
(* Types of the three logs; and while the DLL is up, who holds the lock of *)
(* a log is in one of its functions.                                       *)
(***************************************************************************)
TypeOK ==
    /\ second \in Seconds
    /\ phase \in {"down", "up", "closing", "deleting", "closed"}
    /\ closing \in Logs
    /\ ready \in [Logs -> BOOLEAN]
    /\ lock \in [Logs -> {"raw", "free", "deleted"} \cup Threads]
    /\ file \in [Logs -> Seconds \cup {NoFile}]
    /\ disk \in [Logs -> [Seconds -> Seq([by : Threads \cup {"detach"}, part : {"head", "tail"}])]]
    /\ pc \in [Threads -> Labels]
    /\ log \in [Threads -> Logs]
    /\ lines \in 0 .. MaxLines
    /\ phase = "up" => \A l \in Logs : lock[l] \in Threads =>
          Inside(lock[l]) /\ log[lock[l]] = l

(***************************************************************************)
(* Threads do not interleave their lines (log.c:4-5): on disk, every head  *)
(* is followed by its own tail.  Only the end of a process leaves a head   *)
(* without one, at the end of its file.                                    *)
(***************************************************************************)
WholeLines(f) ==
    \A i \in DOMAIN f :
        IF f[i].part = "head"
        THEN i < Len(f) => f[i + 1] = [by |-> f[i].by, part |-> "tail"]
        ELSE i > 1 /\ f[i - 1] = [by |-> f[i].by, part |-> "head"]

LinesAreWhole == \A l \in Logs, s \in Seconds : WholeLines(disk[l][s])

(***************************************************************************)
(* Why: the inductive invariant.  A thread writes to an open file only     *)
(* under its lock; the lock of a log is deleted after its file is closed,  *)
(* and made again, with a new file, by the one thread that may still run.  *)
(***************************************************************************)
Open(l) == file[l] # NoFile

Current(l) == disk[l][file[l]]

Torn(f) == f # << >> /\ f[Len(f)].part = "head"

Exclusion ==
    /\ \A t \in Threads : Inside(t) /\ Open(log[t]) => lock[log[t]] = t
    /\ \A l \in Logs : lock[l] = "deleted" => ~ Open(l)
    /\ \A t \in Threads : pc[t] = "open" => lock["unknown"] = "free"

Pieces ==
    /\ \A l \in Logs : Open(l) /\ lock[l] = "free" => ~ Torn(Current(l))
    /\ \A t \in Threads : Open(log[t]) =>
          /\ pc[t] \in {"head", "leave"} => ~ Torn(Current(log[t]))
          /\ pc[t] = "tail" =>
                LET f == Current(log[t])
                IN  f # << >> /\ f[Len(f)] = [by |-> t, part |-> "head"]

DetachInOrder ==
    /\ phase = "down" => \A t \in Threads : pc[t] = "idle"
    /\ phase = "deleting" => ~ Open(closing)
    /\ phase \in {"up", "closing", "deleting"} => ready["unknown"]
    /\ Detaching => \A t \in Threads \ Late : pc[t] \in {"idle", "killed"}
    /\ ~ ready["unknown"] => ~ Open("unknown")
    /\ \A t \in Threads : pc[t] \in {"init", "open"} => ~ ready["unknown"] /\ t \in Late

LogInv ==
    /\ TypeOK
    /\ LinesAreWhole
    /\ Exclusion
    /\ Pieces
    /\ DetachInOrder

(***************************************************************************)
(* fremsoft_shutdown never hangs on a lock, whoever was inside a log when  *)
(* the DLL was unloaded or the process exited.                             *)
(***************************************************************************)
DetachEnds == Detaching ~> phase = "down"

(***************************************************************************)
(* A log function returns, unless the DLL goes away under it.              *)
(***************************************************************************)
CallsReturn == \A t \in Threads : pc[t] # "idle" ~> pc[t] = "idle" \/ phase # "up"

=============================================================================
