--------------------------- MODULE LogFilesProofs ---------------------------
(***************************************************************************)
(* Proofs about LogFiles, for any number of threads, seconds and lines:    *)
(*    LogInvariance     the inductive invariant, with the types            *)
(*    LogTypes          the types alone                                    *)
(*    NoTornLines       lines are whole, but for the last one of a process *)
(***************************************************************************)
EXTENDS LogFiles, SequenceTheorems, TLAPS

USE LateAssumption, LogThreadsAssumption, LogBoundAssumption
USE DEF Logs, Seconds, NoFile

Piece == [by : Threads \cup {"detach"}, part : {"head", "tail"}]

HeadOf(t) == [by |-> t, part |-> "head"]

-----------------------------------------------------------------------------
(* Files                                                                   *)

(***************************************************************************)
(* Whole lines, case by case.                                              *)
(***************************************************************************)
LEMMA WholeMeans ==
    ASSUME NEW f \in Seq(Piece)
    PROVE  WholeLines(f) <=>
             \A i \in 1 .. Len(f) :
                /\ f[i].part = "head" /\ i < Len(f) =>
                      f[i + 1] = [by |-> f[i].by, part |-> "tail"]
                /\ f[i].part # "head" =>
                      i > 1 /\ f[i - 1] = [by |-> f[i].by, part |-> "head"]
BY DEF WholeLines

(***************************************************************************)
(* A head after whole lines leaves whole lines.                            *)
(***************************************************************************)
LEMMA HeadAppended ==
    ASSUME NEW f \in Seq(Piece), NEW t \in Threads \cup {"detach"},
           WholeLines(f), ~ Torn(f)
    PROVE  WholeLines(Append(f, [by |-> t, part |-> "head"]))
<1> DEFINE h == [by |-> t, part |-> "head"]
           g == Append(f, h)
<1>1. /\ Len(g) = Len(f) + 1 /\ DOMAIN g = 1 .. Len(f) + 1
      /\ \A i \in 1 .. Len(f) : g[i] = f[i]
      /\ g[Len(f) + 1] = h
  BY AppendProperties DEF Piece
<1>2. ASSUME NEW i \in DOMAIN g, i \in 1 .. Len(f), f[i].part = "head"
      PROVE  i < Len(g) => g[i + 1] = [by |-> g[i].by, part |-> "tail"]
  <2>1. i # Len(f)
    BY <1>2 DEF Torn
  <2>2. i < Len(f)
    BY <1>2, <2>1
  <2>3. f[i + 1] = [by |-> f[i].by, part |-> "tail"]
    BY <1>2, <2>2, WholeMeans
  <2> QED
    BY <1>1, <1>2, <2>2, <2>3
<1>3. ASSUME NEW i \in DOMAIN g, i \in 1 .. Len(f), f[i].part # "head"
      PROVE  i > 1 /\ g[i - 1] = [by |-> g[i].by, part |-> "head"]
  <2>1. i > 1 /\ f[i - 1] = [by |-> f[i].by, part |-> "head"]
    BY <1>3, WholeMeans
  <2> QED
    BY <1>1, <1>3, <2>1
<1> QED
  BY <1>1, <1>2, <1>3 DEF WholeLines

(***************************************************************************)
(* The tail of a thread after its head leaves whole lines, none torn.      *)
(***************************************************************************)
LEMMA TailAppended ==
    ASSUME NEW f \in Seq(Piece), NEW t \in Threads \cup {"detach"},
           WholeLines(f), f # << >>, f[Len(f)] = [by |-> t, part |-> "head"]
    PROVE  LET g == Append(f, [by |-> t, part |-> "tail"])
           IN  WholeLines(g) /\ ~ Torn(g)
<1> DEFINE h == [by |-> t, part |-> "tail"]
           g == Append(f, h)
<1>1. /\ Len(g) = Len(f) + 1 /\ DOMAIN g = 1 .. Len(f) + 1
      /\ \A i \in 1 .. Len(f) : g[i] = f[i]
      /\ g[Len(f) + 1] = h
  BY AppendProperties DEF Piece
<1>2. Len(f) \in Nat \ {0}
  BY EmptySeq
<1>3. ASSUME NEW i \in 1 .. Len(f), f[i].part = "head"
      PROVE  g[i + 1] = [by |-> g[i].by, part |-> "tail"]
  <2>1. CASE i = Len(f)
    BY <1>1, <1>2, <2>1
  <2>2. CASE i < Len(f)
    <3>1. f[i + 1] = [by |-> f[i].by, part |-> "tail"]
      BY <1>3, <2>2, WholeMeans
    <3> QED
      BY <1>1, <2>2, <3>1
  <2> QED
    BY <2>1, <2>2
<1>4. ASSUME NEW i \in 1 .. Len(f), f[i].part # "head"
      PROVE  i > 1 /\ g[i - 1] = [by |-> g[i].by, part |-> "head"]
  <2>1. i > 1 /\ f[i - 1] = [by |-> f[i].by, part |-> "head"]
    BY <1>4, WholeMeans
  <2> QED
    BY <1>1, <2>1
<1>5. WholeLines(g)
  <2>1. ASSUME NEW i \in DOMAIN g
        PROVE  IF g[i].part = "head"
               THEN i < Len(g) => g[i + 1] = [by |-> g[i].by, part |-> "tail"]
               ELSE i > 1 /\ g[i - 1] = [by |-> g[i].by, part |-> "head"]
    <3>1. CASE i \in 1 .. Len(f)
      BY <1>1, <1>3, <1>4, <3>1
    <3>2. CASE i = Len(f) + 1
      BY <1>1, <1>2, <3>2
    <3> QED
      BY <1>1, <3>1, <3>2
  <2> QED
    BY <2>1 DEF WholeLines
<1>6. ~ Torn(g)
  BY <1>1 DEF Torn
<1> QED
  BY <1>5, <1>6

(***************************************************************************)
(* A whole line, head and tail at once.                                    *)
(***************************************************************************)
LEMMA LineAppended ==
    ASSUME NEW f \in Seq(Piece), NEW t \in Threads \cup {"detach"},
           WholeLines(f), ~ Torn(f)
    PROVE  LET g == f \o <<[by |-> t, part |-> "head"], [by |-> t, part |-> "tail"]>>
           IN  g \in Seq(Piece) /\ WholeLines(g) /\ ~ Torn(g)
<1> DEFINE h == [by |-> t, part |-> "head"]
           e == [by |-> t, part |-> "tail"]
           a == Append(f, h)
<1>1. h \in Piece /\ e \in Piece
  BY DEF Piece
<1>2. a \in Seq(Piece) /\ a # << >> /\ a[Len(a)] = h
  BY <1>1, AppendProperties
<1>3. WholeLines(a)
  BY HeadAppended
<1>4. WholeLines(Append(a, e)) /\ ~ Torn(Append(a, e))
  BY <1>2, <1>3, TailAppended
<1>5. Append(a, e) = f \o <<h, e>>
  BY <1>1, <1>2
<1>6. Append(a, e) \in Seq(Piece)
  BY <1>1, <1>2
<1> QED
  BY <1>4, <1>5, <1>6

(***************************************************************************)
(* An empty file.                                                          *)
(***************************************************************************)
LEMMA EmptyFile == << >> \in Seq(Piece) /\ WholeLines(<< >>) /\ ~ Torn(<< >>)
BY DEF WholeLines, Torn

-----------------------------------------------------------------------------
(* The disk                                                                *)

DiskOK(d) ==
    /\ d \in [Logs -> [Seconds -> Seq(Piece)]]
    /\ \A l \in Logs, s \in Seconds : WholeLines(d[l][s])

(***************************************************************************)
(* The invariant of the disk alone.                                        *)
(***************************************************************************)
LEMMA InvDisk == LogInv => DiskOK(disk)
BY DEF LogInv, TypeOK, LinesAreWhole, DiskOK, Piece

(***************************************************************************)
(* fopen empties one file of each log it opens and leaves the others.      *)
(***************************************************************************)
LEMMA EmptiedOK ==
    ASSUME second \in Seconds, DiskOK(disk), NEW opened \in SUBSET Logs
    PROVE  /\ DiskOK(Emptied(opened))
           /\ \A l \in opened : Emptied(opened)[l][second] = << >>
           /\ \A l \in Logs \ opened : Emptied(opened)[l] = disk[l]
<1> DEFINE d == Emptied(opened)
<1>1. ASSUME NEW l \in Logs
      PROVE  /\ d[l] \in [Seconds -> Seq(Piece)]
             /\ \A s \in Seconds : WholeLines(d[l][s])
             /\ l \in opened => d[l][second] = << >>
             /\ l \notin opened => d[l] = disk[l]
  <2>1. disk[l] \in [Seconds -> Seq(Piece)] /\ \A s \in Seconds : WholeLines(disk[l][s])
    BY DEF DiskOK
  <2>2. CASE l \in opened
    <3>1. d[l] = [disk[l] EXCEPT ![second] = << >>]
      BY <2>2 DEF Emptied, FileName
    <3> QED
      BY <2>1, <2>2, <3>1, EmptyFile
  <2>3. CASE l \notin opened
    BY <2>1, <2>3 DEF Emptied
  <2> QED
    BY <2>2, <2>3
<1>2. d \in [Logs -> [Seconds -> Seq(Piece)]]
  BY <1>1 DEF Emptied
<1> QED
  BY <1>1, <1>2 DEF DiskOK

(***************************************************************************)
(* A file of one log replaced by another that is whole.                    *)
(***************************************************************************)
LEMMA ReplacedOK ==
    ASSUME NEW d, DiskOK(d), NEW l \in Logs, NEW s \in Seconds,
           NEW g \in Seq(Piece), WholeLines(g)
    PROVE  /\ DiskOK([d EXCEPT ![l][s] = g])
           /\ [d EXCEPT ![l][s] = g][l][s] = g
           /\ \A m \in Logs \ {l} : [d EXCEPT ![l][s] = g][m] = d[m]
<1>1. d[l] \in [Seconds -> Seq(Piece)]
  BY DEF DiskOK
<1> QED
  BY <1>1 DEF DiskOK

(***************************************************************************)
(* A line written to the shim log at once.                                 *)
(***************************************************************************)
LEMMA LoggedOK ==
    ASSUME NEW d, DiskOK(d), file \in [Logs -> Seconds \cup {NoFile}],
           NEW w \in Threads \cup {"detach"},
           Open("shim") => ~ Torn(d["shim"][file["shim"]])
    PROVE  LET e == LoggedToShim(d, w)
           IN  /\ DiskOK(e)
               /\ Open("shim") => ~ Torn(e["shim"][file["shim"]])
               /\ \A m \in Logs \ {"shim"} : e[m] = d[m]
<1>1. CASE ~ Open("shim")
  BY <1>1 DEF LoggedToShim, Open
<1>2. CASE Open("shim")
  <2> DEFINE f == d["shim"][file["shim"]]
             g == f \o <<[by |-> w, part |-> "head"], [by |-> w, part |-> "tail"]>>
  <2>1. file["shim"] \in Seconds
    BY <1>2 DEF Open
  <2>2. f \in Seq(Piece) /\ WholeLines(f) /\ ~ Torn(f)
    BY <1>2, <2>1 DEF DiskOK
  <2>3. g \in Seq(Piece) /\ WholeLines(g) /\ ~ Torn(g)
    BY <2>2, LineAppended
  <2>4. LoggedToShim(d, w) = [d EXCEPT !["shim"][file["shim"]] = g]
    BY <1>2 DEF LoggedToShim, Open
  <2> DEFINE e == [d EXCEPT !["shim"][file["shim"]] = g]
  <2> HIDE DEF g
  <2>5. /\ DiskOK(e)
        /\ e["shim"][file["shim"]] = g
        /\ \A m \in Logs \ {"shim"} : e[m] = d[m]
    <3>1. PICK s \in Seconds : s = file["shim"]
      BY <2>1
    <3>2. "shim" \in Logs
      OBVIOUS
    <3>3. DiskOK([d EXCEPT !["shim"][s] = g])
      BY <2>3, <3>2, ReplacedOK
    <3>4. [d EXCEPT !["shim"][s] = g]["shim"][s] = g
      BY <3>2 DEF DiskOK
    <3>5. \A m \in Logs \ {"shim"} : [d EXCEPT !["shim"][s] = g][m] = d[m]
      BY <2>3, <3>2, ReplacedOK
    <3> QED
      BY <3>1, <3>3, <3>4, <3>5
  <2> HIDE DEF e
  <2>6. LoggedToShim(d, w) = e
    BY <2>4 DEF e, g
  <2> QED
    BY <2>3, <2>5, <2>6
<1> QED
  BY <1>1, <1>2

-----------------------------------------------------------------------------
(* The parts of the invariant other than the disk                          *)

ControlOK ==
    /\ second \in Seconds
    /\ phase \in {"down", "up", "closing", "deleting", "closed"}
    /\ closing \in Logs
    /\ ready \in [Logs -> BOOLEAN]
    /\ lock \in [Logs -> {"raw", "free", "deleted"} \cup Threads]
    /\ file \in [Logs -> Seconds \cup {NoFile}]
    /\ pc \in [Threads -> Labels]
    /\ log \in [Threads -> Logs]
    /\ lines \in 0 .. MaxLines

HoldersAreInside ==
    phase = "up" => \A l \in Logs : lock[l] \in Threads =>
        Inside(lock[l]) /\ log[lock[l]] = l

(***************************************************************************)
(* The invariant, with the disk taken out of the types.                    *)
(***************************************************************************)
LEMMA InvParts ==
    LogInv <=> /\ DiskOK(disk) /\ ControlOK /\ HoldersAreInside
               /\ Exclusion /\ Pieces /\ DetachInOrder
BY DEF LogInv, TypeOK, LinesAreWhole, DiskOK, ControlOK, HoldersAreInside, Piece

(***************************************************************************)
(* The same after a step.                                                  *)
(***************************************************************************)
LEMMA InvPartsNext ==
    DiskOK(disk') /\ ControlOK' /\ HoldersAreInside' /\ Exclusion' /\ Pieces'
        /\ DetachInOrder' => LogInv'
BY DEF LogInv, TypeOK, LinesAreWhole, DiskOK, ControlOK, HoldersAreInside, Piece

(***************************************************************************)
(* Once the process is gone, only the disk matters.                        *)
(***************************************************************************)
LEMMA GoneKeeps ==
    ASSUME LogInv, Gone, UNCHANGED <<second, disk, lines>>
    PROVE  LogInv'
<1> USE DEF Gone
<1>1. DiskOK(disk')
  BY InvDisk
<1>2. ControlOK'
  BY InvParts DEF ControlOK, Labels
<1>3. HoldersAreInside' /\ Exclusion' /\ Pieces'
  BY DEF HoldersAreInside, Exclusion, Pieces, Inside, Open
<1>4. DetachInOrder'
  BY DEF DetachInOrder, Detaching, Open
<1> QED
  BY <1>1, <1>2, <1>3, <1>4, InvPartsNext

(***************************************************************************)
(* A thread that may run is the delivery thread, or the DLL is up.         *)
(***************************************************************************)
LEMMA OnlyOneIsLate ==
    ASSUME LogInv, NEW t \in Threads, Running(t), phase # "up"
    PROVE  \A u \in Threads : u # t => pc[u] \in {"idle", "killed"}
BY DEF LogInv, DetachInOrder, Running

(***************************************************************************)
(* Nobody runs while the logs are opened, and the files are empty.         *)
(***************************************************************************)
LEMMA AttachKeeps ==
    ASSUME LogInv, NEW opened \in SUBSET Logs, Attach(opened)
    PROVE  LogInv'
<1>0. /\ DiskOK(disk) /\ ControlOK /\ DetachInOrder
  BY InvParts
<1> USE DEF Attach
<1>1. /\ DiskOK(disk')
      /\ \A l \in opened : disk'[l][second] = << >>
  BY <1>0, EmptiedOK DEF ControlOK
<1>2. /\ \A t \in Threads : pc'[t] = "idle"
      /\ \A l \in Logs : lock'[l] = "free"
  BY <1>0 DEF DetachInOrder
<1>3. ControlOK'
  BY <1>0 DEF ControlOK, FileName
<1>4. HoldersAreInside' /\ Exclusion'
  BY <1>2 DEF HoldersAreInside, Exclusion, Inside
<1>5. Pieces'
  <2>1. ASSUME NEW l \in Logs, Open(l)' PROVE disk'[l][file'[l]] = << >>
    BY <1>0, <1>1, <2>1 DEF Open, ControlOK, FileName
  <2> QED
    BY <1>2, <2>1 DEF Pieces, Torn, Current
<1>6. DetachInOrder'
  BY <1>2 DEF DetachInOrder, Detaching
<1> QED
  BY <1>1, <1>3, <1>4, <1>5, <1>6, InvPartsNext

(***************************************************************************)
(* A log function is entered.                                              *)
(***************************************************************************)
LEMMA BeginLineKeeps ==
    ASSUME LogInv, NEW t \in Threads, NEW l \in Logs, BeginLine(t, l)
    PROVE  LogInv'
<1>0. /\ DiskOK(disk) /\ ControlOK /\ HoldersAreInside
      /\ Exclusion /\ Pieces /\ DetachInOrder
  BY InvParts
<1> USE DEF BeginLine, Goto
<1>1. DiskOK(disk')
  BY <1>0
<1>2. /\ ControlOK'
      /\ pc'[t] \in {"init", "enter"}
      /\ pc'[t] = "init" => ~ ready["unknown"]
      /\ \A u \in Threads : u # t => pc'[u] = pc[u] /\ log'[u] = log[u]
  BY <1>0 DEF ControlOK, Labels
<1>3. HoldersAreInside'
  BY <1>0, <1>2 DEF HoldersAreInside, Inside, ControlOK
<1>4. Exclusion'
  BY <1>0, <1>2 DEF Exclusion, Inside, Open
<1>5. Pieces'
  BY <1>0, <1>2 DEF Pieces, Open, Current
<1>6. DetachInOrder'
  BY <1>0, <1>2 DEF DetachInOrder, Detaching, Running, Open
<1> QED
  BY <1>1, <1>2, <1>3, <1>4, <1>5, <1>6, InvPartsNext

(***************************************************************************)
(* The lock of the unknown log is made again: nobody else can hold it.     *)
(***************************************************************************)
LEMMA InitLockKeeps ==
    ASSUME LogInv, NEW t \in Threads, InitLock(t)
    PROVE  LogInv'
<1>0. /\ DiskOK(disk) /\ ControlOK /\ HoldersAreInside
      /\ Exclusion /\ Pieces /\ DetachInOrder
  BY InvParts
<1> USE DEF InitLock, Goto
<1>1. DiskOK(disk')
  BY <1>0
<1>2. /\ ControlOK'
      /\ pc'[t] = "open" /\ lock'["unknown"] = "free"
      /\ \A u \in Threads : u # t => pc'[u] = pc[u]
      /\ \A l \in Logs : l # "unknown" => lock'[l] = lock[l]
  BY <1>0 DEF ControlOK, Labels
<1>3. ~ ready["unknown"] /\ phase # "up" /\ ~ Open("unknown")
  BY <1>0 DEF DetachInOrder
<1>4. HoldersAreInside'
  BY <1>0, <1>3 DEF HoldersAreInside
<1>5. Exclusion'
  BY <1>0, <1>2, <1>3 DEF Exclusion, Inside, Open, ControlOK
<1>6. Pieces'
  BY <1>0, <1>2, <1>3 DEF Pieces, Open, Current, ControlOK
<1>7. DetachInOrder'
  BY <1>0, <1>2 DEF DetachInOrder, Detaching, Running, Open
<1> QED
  BY <1>1, <1>2, <1>4, <1>5, <1>6, <1>7, InvPartsNext

(***************************************************************************)
(* The log of unknown requests is opened again by a late request: nobody   *)
(* else can be on its way into it.                                         *)
(***************************************************************************)
LEMMA OpenAgainKeeps ==
    ASSUME LogInv, NEW t \in Threads, OpenAgain(t)
    PROVE  LogInv'
<1>0. /\ DiskOK(disk) /\ ControlOK /\ HoldersAreInside
      /\ Exclusion /\ Pieces /\ DetachInOrder
  BY InvParts
<1> USE DEF OpenAgain, Goto
<1>1. PICK opened \in SUBSET {"unknown"} :
        /\ disk' = LoggedToShim(Emptied(opened), t)
        /\ file' = [file EXCEPT !["unknown"] = IF opened = {} THEN NoFile ELSE second]
        /\ pc' = [pc EXCEPT ![t] = IF opened = {} THEN "idle" ELSE "enter"]
  BY DEF FileName
<1>2. /\ DiskOK(Emptied(opened))
      /\ Emptied(opened)["shim"] = disk["shim"]
      /\ Emptied(opened)["activity"] = disk["activity"]
      /\ opened # {} => Emptied(opened)["unknown"][second] = << >>
  <2>1. /\ opened \in SUBSET Logs
        /\ "shim" \in Logs \ opened /\ "activity" \in Logs \ opened
        /\ opened # {} => "unknown" \in opened
    OBVIOUS
  <2>2. second \in Seconds
    BY <1>0 DEF ControlOK
  <2>3. /\ DiskOK(Emptied(opened))
        /\ \A l \in opened : Emptied(opened)[l][second] = << >>
        /\ \A l \in Logs \ opened : Emptied(opened)[l] = disk[l]
    BY <1>0, <2>1, <2>2, EmptiedOK
  <2> QED
    BY <2>1, <2>3
<1>3. Open("shim") => lock["shim"] = "free" /\ ~ Torn(disk["shim"][file["shim"]])
  BY <1>0 DEF CanLogToShim, CanEnter, Open, Pieces, Current
<1>4. /\ DiskOK(disk')
      /\ Open("shim") => ~ Torn(disk'["shim"][file["shim"]])
      /\ disk'["activity"] = disk["activity"]
      /\ opened # {} => disk'["unknown"][second] = << >>
  <2>1. file \in [Logs -> Seconds \cup {NoFile}]
    BY <1>0 DEF ControlOK
  <2>2. LET e == LoggedToShim(Emptied(opened), t)
        IN  /\ DiskOK(e)
            /\ Open("shim") => ~ Torn(e["shim"][file["shim"]])
            /\ \A m \in Logs \ {"shim"} : e[m] = Emptied(opened)[m]
    BY <1>2, <1>3, <2>1, LoggedOK
  <2> QED
    BY <1>1, <1>2, <2>2
<1>5. /\ ControlOK'
      /\ pc'[t] \in {"idle", "enter"}
      /\ \A u \in Threads : u # t => pc'[u] = pc[u]
      /\ file'["shim"] = file["shim"] /\ file'["activity"] = file["activity"]
      /\ file'["unknown"] = IF opened = {} THEN NoFile ELSE second
  BY <1>0, <1>1 DEF ControlOK, Labels
<1>6. /\ ~ ready["unknown"] /\ phase # "up" /\ ready'["unknown"]
      /\ \A u \in Threads : pc'[u] \in {"idle", "killed", "enter"}
  BY <1>0, <1>5, OnlyOneIsLate DEF DetachInOrder, ControlOK
<1>7. HoldersAreInside'
  BY <1>6 DEF HoldersAreInside
<1>8. Exclusion'
  BY <1>0, <1>5, <1>6 DEF Exclusion, Inside, Open
<1>9. Pieces'
  <2>1. ASSUME NEW l \in Logs, Open(l)', lock'[l] = "free" PROVE ~ Torn(Current(l)')
    <3>1. CASE l = "shim"
      BY <1>4, <1>5, <2>1, <3>1 DEF Open, Current
    <3>2. CASE l = "activity"
      BY <1>0, <1>4, <1>5, <2>1, <3>2 DEF Open, Current, Pieces
    <3>3. CASE l = "unknown"
      BY <1>4, <1>5, <2>1, <3>3 DEF Open, Current, Torn
    <3> QED
      BY <3>1, <3>2, <3>3
  <2> QED
    BY <1>6, <2>1 DEF Pieces
<1>10. DetachInOrder'
  BY <1>0, <1>5, <1>6 DEF DetachInOrder, Detaching, Running, Open
<1> QED
  BY <1>4, <1>5, <1>7, <1>8, <1>9, <1>10, InvPartsNext

(***************************************************************************)
(* The lock is free, and its file not torn; or the lock was deleted, and   *)
(* there is no file.                                                       *)
(***************************************************************************)
LEMMA EnterKeeps ==
    ASSUME LogInv, NEW t \in Threads, Enter(t)
    PROVE  LogInv'
<1>0. /\ DiskOK(disk) /\ ControlOK /\ HoldersAreInside
      /\ Exclusion /\ Pieces /\ DetachInOrder
  BY InvParts
<1> USE DEF Enter, Goto
<1>1. CASE Gone
  BY <1>1, GoneKeeps
<1>2. CASE CanEnter(log[t]) /\ lock' = [lock EXCEPT ![log[t]] = t]
           /\ pc' = [pc EXCEPT ![t] = "head"]
           /\ UNCHANGED <<phase, closing, ready, file, log>>
  <2>1. /\ ControlOK'
        /\ pc'[t] = "head" /\ lock'[log[t]] = t /\ lock[log[t]] = "free"
        /\ \A u \in Threads : u # t => pc'[u] = pc[u]
        /\ \A l \in Logs : l # log[t] => lock'[l] = lock[l]
        /\ log[t] \in Logs
    BY <1>0, <1>2 DEF ControlOK, Labels, CanEnter
  <2>2. HoldersAreInside'
    BY <1>0, <1>2, <2>1 DEF HoldersAreInside, Inside, ControlOK
  <2>3. \A u \in Threads : pc[u] = "open" => log[t] # "unknown"
    BY <1>0, OnlyOneIsLate DEF DetachInOrder, Exclusion, ControlOK
  <2>4. Exclusion'
    BY <1>0, <1>2, <2>1, <2>3 DEF Exclusion, Inside, Open, ControlOK
  <2>5. Pieces'
    BY <1>0, <1>2, <2>1 DEF Pieces, Open, Current, ControlOK
  <2>6. DetachInOrder'
    BY <1>0, <1>2, <2>1 DEF DetachInOrder, Detaching, Running, Open
  <2> QED
    BY <1>0, <2>1, <2>2, <2>4, <2>5, <2>6, InvPartsNext
<1>3. ASSUME lock[log[t]] = "deleted", NEW outcome \in {"head", "stuck"},
             pc' = [pc EXCEPT ![t] = outcome],
             UNCHANGED <<phase, closing, ready, lock, file, log>>
      PROVE  LogInv'
  <2>1. /\ ControlOK'
        /\ pc'[t] \in {"head", "stuck"} /\ ~ Open(log[t])
        /\ \A u \in Threads : u # t => pc'[u] = pc[u]
    BY <1>0, <1>3 DEF ControlOK, Labels, Exclusion
  <2>2. HoldersAreInside'
    BY <1>0, <1>3, <2>1 DEF HoldersAreInside, Inside, ControlOK
  <2>3. Exclusion' /\ Pieces'
    BY <1>0, <1>3, <2>1 DEF Exclusion, Pieces, Inside, Open, Current, ControlOK
  <2>4. DetachInOrder'
    BY <1>0, <1>3, <2>1 DEF DetachInOrder, Detaching, Running, Open
  <2> QED
    BY <1>0, <2>1, <2>2, <2>3, <2>4, InvPartsNext
<1> QED
  BY <1>1, <1>2, <1>3

(***************************************************************************)
(* The lock is given back with a whole last line.                          *)
(***************************************************************************)
LEMMA LeaveKeeps ==
    ASSUME LogInv, NEW t \in Threads, Leave(t)
    PROVE  LogInv'
<1>0. /\ DiskOK(disk) /\ ControlOK /\ HoldersAreInside
      /\ Exclusion /\ Pieces /\ DetachInOrder
  BY InvParts
<1> USE DEF Leave, Goto
<1>1. /\ ControlOK'
      /\ pc'[t] = "idle" /\ log[t] \in Logs
      /\ \A u \in Threads : u # t => pc'[u] = pc[u]
      /\ \A l \in Logs : l # log[t] => lock'[l] = lock[l]
      /\ lock'[log[t]] = IF lock[log[t]] = t THEN "free" ELSE lock[log[t]]
  BY <1>0 DEF ControlOK, Labels, Left
<1>2. HoldersAreInside'
  BY <1>0, <1>1 DEF HoldersAreInside, Inside, ControlOK
<1>3. Exclusion'
  BY <1>0, <1>1 DEF Exclusion, Inside, Open, ControlOK
<1>4. Pieces'
  <2>1. ASSUME NEW l \in Logs, Open(l), lock'[l] = "free" PROVE ~ Torn(Current(l))
    <3>1. CASE l = log[t] /\ lock[l] = t
      BY <1>0, <2>1, <3>1 DEF Pieces
    <3>2. CASE l # log[t] \/ lock[l] # t
      BY <1>0, <1>1, <2>1, <3>2 DEF Pieces
    <3> QED
      BY <3>1, <3>2
  <2>2. \A l \in Logs : Open(l)' = Open(l) /\ Current(l)' = Current(l)
    BY DEF Open, Current
  <2>3. \A l \in Logs : Open(l)' /\ lock'[l] = "free" => ~ Torn(Current(l)')
    BY <2>1, <2>2
  <2> QED
    BY <1>0, <1>1, <2>3 DEF Pieces, Open, Current, ControlOK
<1>5. DetachInOrder'
  BY <1>0, <1>1 DEF DetachInOrder, Detaching, Running, Open
<1> QED
  BY <1>0, <1>1, <1>2, <1>3, <1>4, <1>5, InvPartsNext

(***************************************************************************)
(* A piece is written under the lock, so nobody else is at that file.      *)
(***************************************************************************)
LEMMA PutKeeps ==
    ASSUME LogInv, NEW t \in Threads, Running(t), Open(log[t]),
           NEW g \in Seq(Piece), WholeLines(g),
           NEW next \in {"tail", "leave"},
           next = "tail" => pc[t] = "head" /\ g # << >> /\ g[Len(g)] = HeadOf(t),
           next = "leave" => pc[t] = "tail" /\ ~ Torn(g),
           disk' = [disk EXCEPT ![log[t]][file[log[t]]] = g],
           pc' = [pc EXCEPT ![t] = next],
           UNCHANGED <<second, phase, closing, ready, lock, file, log, lines>>
    PROVE  LogInv'
<1>0. /\ DiskOK(disk) /\ ControlOK /\ HoldersAreInside
      /\ Exclusion /\ Pieces /\ DetachInOrder
  BY InvParts
<1> DEFINE l == log[t]
<1>1. l \in Logs /\ file[l] \in Seconds
  BY <1>0 DEF ControlOK, Open
<1>2. /\ DiskOK(disk')
      /\ Current(l)' = g
      /\ \A m \in Logs : m # l => Current(m)' = Current(m)
  <2>1. disk[l] \in [Seconds -> Seq(Piece)] /\ disk \in [Logs -> [Seconds -> Seq(Piece)]]
    BY <1>0, <1>1 DEF DiskOK
  <2>2. DiskOK(disk')
    BY <1>0, <1>1, ReplacedOK
  <2>3. disk'[l][file[l]] = g /\ \A m \in Logs : m # l => disk'[m] = disk[m]
    BY <1>1, <2>1
  <2> QED
    BY <2>2, <2>3 DEF Current
<1>3. /\ pc'[t] = next /\ Inside(t)
      /\ \A u \in Threads : u # t => pc'[u] = pc[u]
      /\ \A u \in Threads : Inside(u)' => Inside(u)
  BY <1>0 DEF ControlOK, Inside
<1>4. lock[l] = t /\ \A u \in Threads : u # t /\ log[u] = l => ~ Inside(u)
  BY <1>0, <1>3 DEF Exclusion
<1>5. ControlOK'
  BY <1>0, <1>3 DEF ControlOK, Labels
<1>6. HoldersAreInside'
  BY <1>0, <1>3 DEF HoldersAreInside, Inside, ControlOK
<1>7. Exclusion'
  <2>1. \A u \in Threads : pc'[u] = "open" => pc[u] = "open"
    BY <1>3
  <2> QED
    BY <1>0, <1>3, <2>1 DEF Exclusion, Open
<1>8. Pieces'
  <2>1. ASSUME NEW m \in Logs, Open(m)', lock'[m] = "free" PROVE ~ Torn(Current(m)')
    <3>1. m # l
      BY <1>4, <2>1
    <3> QED
      BY <1>0, <1>2, <2>1, <3>1 DEF Pieces, Open
  <2>2. ASSUME NEW u \in Threads, u # t, Open(log[u])
        PROVE  /\ pc[u] \in {"head", "leave"} => ~ Torn(Current(log[u])')
               /\ pc[u] = "tail" =>
                     Current(log[u])' # << >>
                     /\ Current(log[u])'[Len(Current(log[u])')] = HeadOf(u)
    <3>1. CASE log[u] = l
      BY <1>4, <2>2, <3>1 DEF Inside
    <3>2. CASE log[u] # l
      <4>1. log[u] \in Logs
        BY <1>0 DEF ControlOK
      <4>2. Current(log[u])' = Current(log[u])
        BY <1>2, <3>2, <4>1
      <4> QED
        BY <1>0, <2>2, <4>2 DEF Pieces, HeadOf
    <3> QED
      BY <3>1, <3>2
  <2>3. /\ pc'[t] \in {"head", "leave"} => ~ Torn(Current(l)')
        /\ pc'[t] = "tail" =>
              Current(l)' # << >> /\ Current(l)'[Len(Current(l)')] = HeadOf(t)
    BY <1>2, <1>3
  <2>4. \A u \in Threads : Open(log[u])' =>
           /\ pc'[u] \in {"head", "leave"} => ~ Torn(Current(log[u])')
           /\ pc'[u] = "tail" =>
                 Current(log[u])' # << >>
                 /\ Current(log[u])'[Len(Current(log[u])')] = HeadOf(u)
    BY <1>3, <2>2, <2>3 DEF Open
  <2> QED
    BY <2>1, <2>4 DEF Pieces, HeadOf, Current
<1>9. DetachInOrder'
  BY <1>0, <1>3 DEF DetachInOrder, Detaching, Running, Open
<1> QED
  BY <1>2, <1>5, <1>6, <1>7, <1>8, <1>9, InvPartsNext

(***************************************************************************)
(* The two pieces of a line.                                               *)
(***************************************************************************)
LEMMA WriteKeeps ==
    ASSUME LogInv, NEW t \in Threads, WriteHead(t) \/ WriteTail(t)
    PROVE  LogInv'
<1>0. /\ DiskOK(disk) /\ ControlOK /\ HoldersAreInside
      /\ Exclusion /\ Pieces /\ DetachInOrder
  BY InvParts
<1> DEFINE f == Current(log[t])
<1>1. CASE ~ Open(log[t])
  BY <1>1, GoneKeeps DEF WriteHead, WriteTail, Put, Open
<1>2. ASSUME Open(log[t]) PROVE f \in Seq(Piece) /\ WholeLines(f)
  BY <1>0, <1>2 DEF DiskOK, ControlOK, Open, Current
<1>3. CASE Open(log[t]) /\ WriteHead(t)
  <2> DEFINE g == Append(f, [by |-> t, part |-> "head"])
  <2>1. ~ Torn(f)
    BY <1>0, <1>3 DEF Pieces, WriteHead
  <2>2. WholeLines(g)
    BY <1>2, <1>3, <2>1, HeadAppended
  <2>3. g \in Seq(Piece) /\ g # << >> /\ g[Len(g)] = HeadOf(t)
    BY <1>2, <1>3, AppendProperties DEF Piece, HeadOf
  <2>4. /\ Running(t) /\ pc[t] = "head"
        /\ disk' = [disk EXCEPT ![log[t]][file[log[t]]] = g]
        /\ pc' = [pc EXCEPT ![t] = "tail"]
        /\ UNCHANGED <<second, phase, closing, ready, lock, file, log, lines>>
    BY <1>3 DEF WriteHead, Put, Goto, Open, Current
  <2> HIDE DEF g
  <2> QED
    BY <1>3, <2>2, <2>3, <2>4, PutKeeps
<1>4. CASE Open(log[t]) /\ WriteTail(t)
  <2> DEFINE g == Append(f, [by |-> t, part |-> "tail"])
  <2>1. f # << >> /\ f[Len(f)] = [by |-> t, part |-> "head"]
    BY <1>0, <1>4 DEF Pieces, WriteTail
  <2>2. WholeLines(g) /\ ~ Torn(g)
    BY <1>2, <1>4, <2>1, TailAppended
  <2>3. g \in Seq(Piece)
    BY <1>2, <1>4, AppendProperties DEF Piece
  <2>4. /\ Running(t) /\ pc[t] = "tail"
        /\ disk' = [disk EXCEPT ![log[t]][file[log[t]]] = g]
        /\ pc' = [pc EXCEPT ![t] = "leave"]
        /\ UNCHANGED <<second, phase, closing, ready, lock, file, log, lines>>
    BY <1>4 DEF WriteTail, Put, Goto, Open, Current
  <2> HIDE DEF g
  <2> QED
    BY <1>4, <2>2, <2>3, <2>4, PutKeeps
<1> QED
  BY <1>1, <1>3, <1>4

-----------------------------------------------------------------------------
(* The end of the DLL and of the process                                   *)

(***************************************************************************)
(* Whoever was inside a log stays in it, or is killed there.               *)
(***************************************************************************)
LEMMA EndBegins ==
    ASSUME LogInv, Unload \/ ProcessExit
    PROVE  LogInv'
<1>0. /\ DiskOK(disk) /\ ControlOK /\ HoldersAreInside
      /\ Exclusion /\ Pieces /\ DetachInOrder
  BY InvParts
<1> USE DEF Unload, ProcessExit
<1>1. /\ DiskOK(disk') /\ ControlOK' /\ phase' = "closing" /\ phase = "up"
      /\ \A t \in Threads : pc'[t] = pc[t] \/ pc'[t] = "killed"
      /\ \A t \in Threads \ Late : pc'[t] \in {"idle", "killed"}
      /\ UNCHANGED <<ready, lock, file, disk, log>>
  BY <1>0 DEF ControlOK, Labels
<1>2. HoldersAreInside'
  BY <1>1 DEF HoldersAreInside
<1>3. Exclusion'
  BY <1>0, <1>1 DEF Exclusion, Inside, Open
<1>4. Pieces'
  BY <1>0, <1>1 DEF Pieces, Open, Current
<1>5. DetachInOrder'
  BY <1>0, <1>1 DEF DetachInOrder, Open
<1> QED
  BY <1>1, <1>2, <1>3, <1>4, <1>5, InvPartsNext

(***************************************************************************)
(* The last line of the detach: the lock is free, so the file is not torn. *)
(***************************************************************************)
LEMMA LogExitKeeps ==
    ASSUME LogInv, LogExit
    PROVE  LogInv'
<1>0. /\ DiskOK(disk) /\ ControlOK /\ HoldersAreInside
      /\ Exclusion /\ Pieces /\ DetachInOrder
  BY InvParts
<1> USE DEF LogExit
<1>1. Open("shim") => lock["shim"] = "free" /\ ~ Torn(disk["shim"][file["shim"]])
  BY <1>0 DEF CanLogToShim, CanEnter, Open, Pieces, Current
<1>2. /\ DiskOK(disk')
      /\ Open("shim") => ~ Torn(disk'["shim"][file["shim"]])
      /\ \A m \in Logs \ {"shim"} : disk'[m] = disk[m]
  <2>1. file \in [Logs -> Seconds \cup {NoFile}]
    BY <1>0 DEF ControlOK
  <2>2. LET e == LoggedToShim(disk, "detach")
        IN  /\ DiskOK(e)
            /\ Open("shim") => ~ Torn(e["shim"][file["shim"]])
            /\ \A m \in Logs \ {"shim"} : e[m] = disk[m]
    BY <1>0, <1>1, <2>1, LoggedOK
  <2> QED
    BY <2>2
<1>3. ControlOK' /\ HoldersAreInside'
  BY <1>0 DEF ControlOK, HoldersAreInside
<1>4. Exclusion'
  BY <1>0 DEF Exclusion, Inside, Open
<1>5. Pieces'
  <2>1. ASSUME NEW l \in Logs, Open(l), lock[l] = "free" PROVE ~ Torn(Current(l)')
    <3>1. CASE l = "shim"
      BY <1>2, <2>1, <3>1 DEF Current
    <3>2. CASE l # "shim"
      BY <1>0, <1>2, <2>1, <3>2 DEF Current, Pieces
    <3> QED
      BY <3>1, <3>2
  <2>2. ASSUME NEW t \in Threads, Open(log[t]), Inside(t)
        PROVE  Current(log[t])' = Current(log[t])
    <3>1. log[t] \in Logs /\ lock[log[t]] = t
      BY <1>0, <2>2 DEF Exclusion, ControlOK
    <3>2. log[t] # "shim"
      BY <1>1, <2>2, <3>1
    <3> QED
      BY <1>2, <3>1, <3>2 DEF Current
  <2>3. \A t \in Threads : Open(log[t]) /\ Inside(t) =>
           /\ pc[t] \in {"head", "leave"} => ~ Torn(Current(log[t])')
           /\ pc[t] = "tail" =>
                 Current(log[t])' # << >>
                 /\ Current(log[t])'[Len(Current(log[t])')] = HeadOf(t)
    BY <1>0, <2>2 DEF Pieces, HeadOf
  <2> QED
    BY <2>1, <2>3 DEF Pieces, Open, Inside, HeadOf, Current
<1>6. DetachInOrder'
  BY <1>0 DEF DetachInOrder, Detaching, Open
<1> QED
  BY <1>2, <1>3, <1>4, <1>5, <1>6, InvPartsNext

(***************************************************************************)
(* A log that is not open is passed over.                                  *)
(***************************************************************************)
LEMMA SkipLogKeeps ==
    ASSUME LogInv, SkipLog
    PROVE  LogInv'
<1>0. /\ DiskOK(disk) /\ ControlOK /\ HoldersAreInside
      /\ Exclusion /\ Pieces /\ DetachInOrder
  BY InvParts
<1> USE DEF SkipLog, Advance
<1>1. ControlOK' /\ HoldersAreInside' /\ phase' \in {"closing", "closed"}
  BY <1>0 DEF ControlOK, HoldersAreInside
<1>2. Exclusion' /\ Pieces'
  BY <1>0 DEF Exclusion, Pieces, Inside, Open, Current
<1>3. DetachInOrder'
  BY <1>0, <1>1 DEF DetachInOrder, Detaching, Open
<1> QED
  BY <1>0, <1>1, <1>2, <1>3, InvPartsNext

(***************************************************************************)
(* A log is closed while nobody has its lock: who was waiting for the lock *)
(* finds no file.                                                          *)
(***************************************************************************)
LEMMA CloseLogKeeps ==
    ASSUME LogInv, CloseLog
    PROVE  LogInv'
<1>0. /\ DiskOK(disk) /\ ControlOK /\ HoldersAreInside
      /\ Exclusion /\ Pieces /\ DetachInOrder
  BY InvParts
<1> USE DEF CloseLog
<1>1. /\ ControlOK' /\ HoldersAreInside' /\ ~ Open(closing)'
      /\ \A l \in Logs : Open(l)' => Open(l) /\ file'[l] = file[l]
  BY <1>0 DEF ControlOK, HoldersAreInside, Open
<1>2. Exclusion'
  BY <1>0, <1>1 DEF Exclusion, Inside, ControlOK
<1>3. Pieces'
  BY <1>0, <1>1 DEF Pieces, Current, ControlOK
<1>4. DetachInOrder'
  BY <1>0, <1>1 DEF DetachInOrder, Detaching
<1> QED
  BY <1>0, <1>1, <1>2, <1>3, <1>4, InvPartsNext

(***************************************************************************)
(* Its lock is deleted: no thread is opening the log again, since it was   *)
(* ready until now.                                                        *)
(***************************************************************************)
LEMMA DeleteLockKeeps ==
    ASSUME LogInv, DeleteLock
    PROVE  LogInv'
<1>0. /\ DiskOK(disk) /\ ControlOK /\ HoldersAreInside
      /\ Exclusion /\ Pieces /\ DetachInOrder
  BY InvParts
<1> USE DEF DeleteLock, Advance
<1>1. ControlOK' /\ HoldersAreInside' /\ phase' \in {"closing", "closed"}
  BY <1>0 DEF ControlOK, HoldersAreInside
<1>2. /\ ~ Open(closing) /\ closing \in Logs
      /\ lock'[closing] = "deleted" /\ ~ ready'[closing]
      /\ \A l \in Logs : l # closing => lock'[l] = lock[l] /\ ready'[l] = ready[l]
  BY <1>0 DEF ControlOK, DetachInOrder
<1>3. \A t \in Threads : pc[t] \notin {"init", "open"}
  BY <1>0 DEF DetachInOrder
<1>4. Exclusion'
  BY <1>0, <1>2, <1>3 DEF Exclusion, Inside, Open, ControlOK
<1>5. Pieces'
  BY <1>0, <1>2 DEF Pieces, Open, Current
<1>6. DetachInOrder'
  BY <1>0, <1>1, <1>2, <1>3 DEF DetachInOrder, Detaching, Open, ControlOK
<1> QED
  BY <1>0, <1>1, <1>4, <1>5, <1>6, InvPartsNext

-----------------------------------------------------------------------------
(* The specification                                                       *)

(***************************************************************************)
(* Before the first attach every file is empty.                            *)
(***************************************************************************)
LEMMA InvAtStart ==
    ASSUME Init
    PROVE  LogInv
<1> USE DEF Init
<1>1. DiskOK(disk)
  BY EmptyFile DEF DiskOK
<1>2. ControlOK
  BY DEF ControlOK, Labels
<1>3. HoldersAreInside /\ Exclusion /\ Pieces /\ DetachInOrder
  BY DEF HoldersAreInside, Exclusion, Pieces, DetachInOrder, Detaching, Inside, Open
<1> QED
  BY <1>1, <1>2, <1>3, InvParts

(***************************************************************************)
(* One step per action.                                                    *)
(***************************************************************************)
LEMMA StepKeeps ==
    ASSUME LogInv, [Next]_vars
    PROVE  LogInv'
<1>1. ASSUME NEW opened \in SUBSET Logs, Attach(opened) PROVE LogInv'
  BY <1>1, AttachKeeps
<1>2. ASSUME NEW t \in Threads, NEW l \in Logs, BeginLine(t, l) PROVE LogInv'
  BY <1>2, BeginLineKeeps
<1>3. ASSUME NEW t \in Threads, Continue(t) PROVE LogInv'
  BY <1>3, InitLockKeeps, OpenAgainKeeps, EnterKeeps, WriteKeeps, LeaveKeeps DEF Continue
<1>4. CASE Unload \/ ProcessExit
  BY <1>4, EndBegins
<1>5. CASE Crash \/ Orphaned \/ Unmap
  BY <1>5, GoneKeeps DEF Crash, Orphaned, Unmap
<1>6. CASE LogExit \/ SkipLog \/ CloseLog \/ DeleteLock
  BY <1>6, LogExitKeeps, SkipLogKeeps, CloseLogKeeps, DeleteLockKeeps
<1>7. CASE Tick \/ UNCHANGED vars
  <2>1. /\ UNCHANGED <<process, disk, lines>>
        /\ second' \in Seconds
    BY <1>7 DEF Tick, vars, LogInv, TypeOK
  <2>2. /\ DiskOK(disk) /\ ControlOK /\ HoldersAreInside
        /\ Exclusion /\ Pieces /\ DetachInOrder
    BY InvParts
  <2>3. DiskOK(disk') /\ ControlOK' /\ HoldersAreInside'
    BY <2>1, <2>2 DEF process, ControlOK, HoldersAreInside, Inside
  <2>4. Exclusion' /\ Pieces' /\ DetachInOrder'
    BY <2>1, <2>2
    DEF process, Exclusion, Pieces, DetachInOrder, Detaching, Inside, Open, Current
  <2> QED
    BY <2>3, <2>4, InvPartsNext
<1> QED
  BY <1>1, <1>2, <1>3, <1>4, <1>5, <1>6, <1>7 DEF Next, Detach

(***************************************************************************)
(* The inductive invariant: with the types, who may write to which file,   *)
(* and that a torn line has its writer still in the log.                   *)
(***************************************************************************)
THEOREM LogInvariance == Spec => []LogInv
<1>1. Init => LogInv
  BY InvAtStart
<1>2. LogInv /\ [Next]_vars => LogInv'
  BY StepKeeps
<1> QED
  BY <1>1, <1>2, PTL DEF Spec

(***************************************************************************)
(* Type correctness: the files, the control state of every thread and what *)
(* each process has open.                                                  *)
(***************************************************************************)
THEOREM LogTypes == Spec => []TypeOK
<1>1. LogInv => TypeOK
  BY DEF LogInv
<1> QED
  BY <1>1, LogInvariance, PTL

(***************************************************************************)
(* Threads never interleave their lines, whoever the unload, the exit or   *)
(* the crash of a process finds inside a log.                              *)
(***************************************************************************)
THEOREM NoTornLines == Spec => []LinesAreWhole
<1>1. LogInv => LinesAreWhole
  BY DEF LogInv
<1> QED
  BY <1>1, LogInvariance, PTL

=============================================================================
