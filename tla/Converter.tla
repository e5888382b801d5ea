----------------------------- MODULE Converter -----------------------------
(***************************************************************************)
(* From a shim log to what playback looks requests up in:                  *)
(* src/tools/build_recording.py turns the REQ-PDU and RSP-UDS lines of a   *)
(* log into exchanges and writes them as a document, which recording_load  *)
(* reads (Recording.tla) and recording_lookup searches.                    *)
(*                                                                         *)
(* The bytes of a reply are copied, never looked at: here they are the     *)
(* position of its line in the log.                                        *)
(***************************************************************************)
EXTENDS Recording

CONSTANTS
    Requests,   \* records [can_id, uds]: what the application may send
    CanWord,    \* 2^16: parse_log keeps two of the four bytes of a CAN id
    MaxGap,     \* --max-gap-ms
    Steps,      \* how far the wall clock may move between two lines
    Strays,     \* sets of places where unknown members may have been added
    MaxFrames   \* bound: lines in the log

ASSUME WordAssumption ==
    /\ CanWord \in Nat \ {0}
    /\ MaxGap \in 0 .. DelayWord - 1
    /\ MaxFrames \in Nat
    /\ Steps \subseteq Int

ASSUME RequestsAssumption ==
    \A r \in Requests : r.can_id \in Nat /\ r = [can_id |-> r.can_id, uds |-> r.uds]

VARIABLES
    log,        \* the lines: [ms, dir, req] with dir "tx" or "rx"
    stage,      \* "record", "pair", "index", "write", "done"
    pos,        \* the frame or exchange the converter is at
    current,    \* current, or NoOpen
    exchanges,  \* what pair_exchanges collected
    index,      \* what index_by_request kept
    table       \* what recording_load made of it

vars == <<log, stage, pos, current, exchanges, index, table>>

NoOpen == [line |-> 0]

Init ==
    /\ log = << >>
    /\ stage = "record"
    /\ pos = 1
    /\ current = NoOpen
    /\ exchanges = << >>
    /\ index = << >>
    /\ table = << >>

-----------------------------------------------------------------------------
(* The shim writes the log                                                 *)

LastMs == IF log = << >> THEN 0 ELSE log[Len(log)].ms

Write(dir, req, step) ==
    /\ stage = "record"
    /\ Len(log) < MaxFrames
    /\ LastMs + step >= 0
    /\ log' = Append(log, [ms |-> LastMs + step, dir |-> dir, req |-> req])
    /\ UNCHANGED <<stage, pos, current, exchanges, index, table>>

Convert ==
    /\ stage = "record"
    /\ stage' = "pair"
    /\ UNCHANGED <<log, pos, current, exchanges, index, table>>

-----------------------------------------------------------------------------
(* parse_log and pair_exchanges                                            *)

Frame == log[pos]

(***************************************************************************)
(* One turn of the loop over the frames, for one in that direction.        *)
(***************************************************************************)
NextFrame(dir) ==
    /\ stage = "pair"
    /\ pos <= Len(log)
    /\ Frame.dir = dir
    /\ pos' = pos + 1
    /\ UNCHANGED <<log, stage, index, table>>

(***************************************************************************)
(* can_id = (raw[2] << 8) | raw[3]                                         *)
(***************************************************************************)
Parsed(req) == [req EXCEPT !.can_id = @ % CanWord]

(***************************************************************************)
(* In the mutant, a request nobody answered is no exchange.                *)
(***************************************************************************)
MutCollected ==
    IF current # NoOpen /\ current.rx # << >> THEN Append(exchanges, current) ELSE exchanges

Collected == IF current # NoOpen THEN Append(exchanges, current) ELSE exchanges

PairTx ==
    /\ NextFrame("tx")
    /\ exchanges' = Collected
    /\ current' = [line |-> pos, req |-> Parsed(Frame.req), rx |-> << >>, last |-> Frame.ms]

(***************************************************************************)
(* A reply with no request before it, or none since a gap, is dropped.     *)
(***************************************************************************)
PairFloating ==
    /\ NextFrame("rx")
    /\ current = NoOpen
    /\ UNCHANGED <<current, exchanges>>

Gap == Frame.ms - current.last

MutTooLate == FALSE

TooLate == Gap > MaxGap

(***************************************************************************)
(* Mutant: the gap closes nothing, it only skips the frame.                *)
(***************************************************************************)
MutSkipAfterGap ==
    /\ NextFrame("rx")
    /\ current # NoOpen
    /\ TooLate
    /\ current' = [current EXCEPT !.last = Frame.ms]
    /\ UNCHANGED exchanges

PairAfterGap ==
    /\ NextFrame("rx")
    /\ current # NoOpen
    /\ TooLate
    /\ exchanges' = Collected
    /\ current' = NoOpen

(***************************************************************************)
(* The reply is taken, and the next one measured from it.  In the mutant,  *)
(* last_seen_ms stays that of the request.                                 *)
(***************************************************************************)
MutExtended == [current EXCEPT !.rx = Append(@, [line |-> pos, delay |-> Gap])]

Extended ==
    [current EXCEPT !.rx = Append(@, [line |-> pos, delay |-> Gap]), !.last = Frame.ms]

PairRx ==
    /\ NextFrame("rx")
    /\ current # NoOpen
    /\ ~ TooLate
    /\ current' = Extended
    /\ UNCHANGED exchanges

EndPairing ==
    /\ stage = "pair"
    /\ pos > Len(log)
    /\ stage' = "index"
    /\ pos' = 1
    /\ exchanges' = Collected
    /\ current' = NoOpen
    /\ UNCHANGED <<log, index, table>>

-----------------------------------------------------------------------------
(* index_by_request                                                        *)

(***************************************************************************)
(* In the mutant, the last exchange of a request wins.                     *)
(***************************************************************************)
MutKept(x) == <<x>> \o SelectSeq(index, LAMBDA y : y.req # x.req)

Kept(x) == IF \E k \in DOMAIN index : index[k].req = x.req THEN index ELSE Append(index, x)

KeepFirst ==
    /\ stage = "index"
    /\ pos <= Len(exchanges)
    /\ index' = Kept(exchanges[pos])
    /\ pos' = pos + 1
    /\ UNCHANGED <<log, stage, current, exchanges, table>>

EndIndexing ==
    /\ stage = "index"
    /\ pos > Len(exchanges)
    /\ stage' = "write"
    /\ UNCHANGED <<log, pos, current, exchanges, index, table>>

-----------------------------------------------------------------------------
(* The document, and the loader                                            *)

(***************************************************************************)
(* The tokens of the document main writes, with a member the loader does   *)
(* not know added at each of the places in strays.                         *)
(***************************************************************************)
Note(place, strays) ==
    IF place \in strays THEN <<Member("note", String(NoBytes))>> ELSE << >>

RxTokens(r, strays) ==
    Object(Note("rx", strays) \o
        <<Member("can_id", String(0)), Member("uds", String(<<r.line>>)),
          Member("delay_ms", Number(r.delay))>>)

TxTokens(req, strays) ==
    Object(Note("tx", strays) \o
        <<Member("can_id", String(req.can_id)), Member("uds", String(req.uds))>>)

ExchangeTokens(x, strays) ==
    Object(<<Member("tx", TxTokens(x.req, strays))>> \o Note("exchange", strays) \o
        <<Member("rx", Array([n \in DOMAIN x.rx |-> RxTokens(x.rx[n], strays)]))>>)

Document(xs, strays) ==
    Object(<<Member("recording_id", String(0)), Member("captured_at", String(0)),
             Member("vehicle_profile", String(0)), Member("source_log", String(0)),
             Member("exchanges", Array([k \in DOMAIN xs |-> ExchangeTokens(xs[k], strays)]))>>
           \o Note("top", strays))

(***************************************************************************)
(* Playback is switched on and fremsoft_init calls recording_load.  Shim   *)
(* has the case that the file cannot be read or there is no memory.        *)
(***************************************************************************)
LoadRecording ==
    /\ stage = "write"
    /\ stage' = "done"
    /\ \E strays \in Strays : table' = Load(Document(index, strays))
    /\ UNCHANGED <<log, pos, current, exchanges, index>>

-----------------------------------------------------------------------------

Next ==
    \/ \E req \in Requests, step \in Steps : Write("tx", req, step)
    \/ \E step \in Steps : Write("rx", NoRequest, step)
    \/ Convert
    \/ PairTx
    \/ PairFloating
    \/ PairAfterGap
    \/ PairRx
    \/ EndPairing
    \/ KeepFirst
    \/ EndIndexing
    \/ LoadRecording

Spec == Init /\ [][Next]_vars

-----------------------------------------------------------------------------
(* Properties                                                              *)

(***************************************************************************)
(* What the docstring of build_recording.py promises, said of the log:     *)
(* reply i belongs to request j when j is the last request before it and   *)
(* no two lines from j to i are further apart than the gap.                *)
(***************************************************************************)
BelongsTo(i, j) ==
    /\ i \in DOMAIN log /\ log[i].dir = "rx"
    /\ j \in 1 .. i - 1 /\ log[j].dir = "tx"
    /\ \A k \in j + 1 .. i :
          log[k].dir = "rx" /\ log[k].ms - log[k - 1].ms <= MaxGap

HasReply(x, i) == \E n \in DOMAIN x.rx : x.rx[n].line = i

(***************************************************************************)
(* The one pass of pair_exchanges gives every request exactly the replies  *)
(* that belong to it, and every request of the log an exchange.            *)
(***************************************************************************)
RepliesFollowTheirRequest ==
    stage \in {"index", "write", "done"} =>
        /\ \A j \in DOMAIN log : log[j].dir = "tx" =>
              \E e \in DOMAIN exchanges : exchanges[e].line = j
        /\ \A e \in DOMAIN exchanges : \A i \in DOMAIN log :
              HasReply(exchanges[e], i) <=> BelongsTo(i, exchanges[e].line)

(***************************************************************************)
(* An entry of the index as the loader should store it.                    *)
(***************************************************************************)
LoadedReply(r) == [can_id |-> 0, uds |-> <<r.line>>, delay_ms |-> LoadDelay(r.delay)]

LoadedExchange(x) == [tx |-> x.req, rx |-> [n \in DOMAIN x.rx |-> LoadedReply(x.rx[n])]]

(***************************************************************************)
(* The walk over the tokens finds every exchange the converter wrote, with *)
(* every reply, in order, and nothing else, wherever a member it does not  *)
(* know was added (recording.c:122-206).                                   *)
(***************************************************************************)
LoaderReadsWhatWasWritten ==
    stage = "done" => table = [k \in DOMAIN index |-> LoadedExchange(index[k])]

(***************************************************************************)
(* The sum PDUStartComPrimitive has reached at reply n of an exchange.     *)
(***************************************************************************)
ElapsedAt(x, n) ==
    LET sum[k \in 0 .. n] == IF k = 0 THEN 0 ELSE sum[k - 1] + x.rx[k].delay_ms
    IN  sum[n]

(***************************************************************************)
(* Delays are recorded from one line to the next and added up again by     *)
(* PDUStartComPrimitive: the sum up to a reply is the time it took after   *)
(* its request when it was recorded (build_recording.py:98 and             *)
(* fremsoft.c:237).                                                        *)
(***************************************************************************)
DelaysAddUp ==
    \A k \in DOMAIN table : \A n \in DOMAIN table[k].rx :
        ElapsedAt(table[k], n) = log[index[k].rx[n].line].ms - log[index[k].line].ms

(***************************************************************************)
(* No reply is scheduled later than the gap after the one before it.       *)
(***************************************************************************)
GapsAreBounded ==
    \A k \in DOMAIN table : \A n \in DOMAIN table[k].rx :
        table[k].rx[n].delay_ms <= MaxGap

(***************************************************************************)
(* Sending a recorded request again finds an exchange, and it is the first *)
(* one that was recorded for it (build_recording.py:16, recording.c:228).  *)
(***************************************************************************)
FirstRecordingAnswers ==
    stage = "done" =>
        \A i \in DOMAIN log : log[i].dir = "tx" =>
            \E k \in DOMAIN table :
                /\ LookupStopsAt(table, log[i].req, k)
                /\ log[index[k].line].req = log[i].req
                /\ \A j \in 1 .. index[k].line - 1 :
                      log[j].dir = "tx" => log[j].req # log[i].req

-----------------------------------------------------------------------------
(* Why they hold                                                           *)

Sent == Requests \cup {NoRequest}

Lines == [ms : Nat, dir : {"tx", "rx"}, req : Sent]

Entries ==
    [line : Nat \ {0}, req : {Parsed(r) : r \in Sent},
     rx : Seq([line : Nat, delay : Int]), last : Int]

TypeOK ==
    /\ log \in Seq(Lines)
    /\ stage \in {"record", "pair", "index", "write", "done"}
    /\ pos \in Nat \ {0}
    /\ current \in Entries \cup {NoOpen}
    /\ exchanges \in Seq(Entries)
    /\ index \in Seq(Entries)

(***************************************************************************)
(* What has not been made yet is empty, and how far each pass is.          *)
(***************************************************************************)
StagesInOrder ==
    /\ stage = "record" => pos = 1 /\ exchanges = << >>
    /\ stage = "pair" => pos <= Len(log) + 1
    /\ stage = "index" => pos <= Len(exchanges) + 1
    /\ stage \in {"record", "pair"} => index = << >>
    /\ stage # "pair" => current = NoOpen
    /\ stage # "done" => table = << >>

PairedTo ==
    CASE stage = "record" -> 0
      [] stage = "pair" -> pos - 1
      [] OTHER -> Len(log)

IndexedTo ==
    CASE stage \in {"record", "pair"} -> 0
      [] stage = "index" -> pos - 1
      [] OTHER -> Len(exchanges)

(***************************************************************************)
(* The clock moves by one of Steps from a line to the next.                *)
(***************************************************************************)
ClockSteps == \A i \in 2 .. Len(log) : log[i].ms - log[i - 1].ms \in Steps

(***************************************************************************)
(* An exchange is a tx line and the rx lines after it, each at most the    *)
(* gap after the one before it.                                            *)
(***************************************************************************)
LastLine(x) == x.line + Len(x.rx)

IsReply(lines, i, r) ==
    LET d == lines[i].ms - lines[i - 1].ms
    IN  lines[i].dir = "rx" /\ d <= MaxGap /\ r = [line |-> i, delay |-> d]

Follows(lines, x) ==
    /\ LastLine(x) <= Len(lines)
    /\ lines[x.line].dir = "tx" /\ x.req = Parsed(lines[x.line].req)
    /\ \A n \in 1 .. Len(x.rx) : IsReply(lines, x.line + n, x.rx[n])
    /\ x.last = lines[LastLine(x)].ms

(***************************************************************************)
(* It ends where it has to: before a request, a gap or the end of the log. *)
(***************************************************************************)
Stops(lines, x) ==
    LET i == LastLine(x) + 1
    IN  i <= Len(lines) =>
            lines[i].dir = "tx" \/ lines[i].ms - lines[i - 1].ms > MaxGap

(***************************************************************************)
(* The exchanges are those of the requests among the lines looked at, in   *)
(* their order; the open one reaches the line before pos.                  *)
(***************************************************************************)
ExchangesAreWhole ==
    \A e \in 1 .. Len(exchanges) :
        /\ Follows(log, exchanges[e])
        /\ Stops(log, exchanges[e])
        /\ exchanges[e].line <= PairedTo

InLogOrder ==
    \A e, f \in 1 .. Len(exchanges) : e < f => exchanges[e].line < exchanges[f].line

OpenReachesPos ==
    current # NoOpen =>
        /\ Follows(log, current)
        /\ LastLine(current) = pos - 1
        /\ \A e \in 1 .. Len(exchanges) : exchanges[e].line < current.line

RequestsAreKept ==
    \A j \in 1 .. PairedTo : log[j].dir = "tx" =>
        \/ current.line = j
        \/ \E e \in 1 .. Len(exchanges) : exchanges[e].line = j

(***************************************************************************)
(* The index has the first exchange of each request looked at, once.       *)
(***************************************************************************)
IndexHasFirsts ==
    /\ \A k \in 1 .. Len(index) : \E e \in 1 .. IndexedTo :
          /\ index[k] = exchanges[e]
          /\ \A f \in 1 .. e - 1 : exchanges[f].req # exchanges[e].req
    /\ \A e \in 1 .. IndexedTo : \E k \in 1 .. Len(index) : index[k].req = exchanges[e].req
    /\ \A k, m \in 1 .. Len(index) : index[k].req = index[m].req => k = m

(***************************************************************************)
(* The inductive invariant of the conversion (build_recording.py:74-124):  *)
(* pairing keeps the exchanges in the order of the log, each with all the  *)
(* replies its position says, and indexing the first of every request.     *)
(***************************************************************************)
ConverterInv ==
    /\ TypeOK
    /\ StagesInOrder
    /\ ClockSteps
    /\ ExchangesAreWhole
    /\ InLogOrder
    /\ OpenReachesPos
    /\ RequestsAreKept
    /\ IndexHasFirsts
    /\ LoaderReadsWhatWasWritten

=============================================================================
