----------------------------- MODULE Recording -----------------------------
(***************************************************************************)
(* The recording: the JSON document build_recording.py writes, as the      *)
(* sequence of tokens jsmn makes of it, and the walk of recording_load     *)
(* (src/src/recording.c) over those tokens.                                *)
(*                                                                         *)
(* jsmn keeps no tree.  An object or an array is a token with the number   *)
(* of its members, followed by their tokens, so the loader has to step     *)
(* over whatever it does not know, and one step too many or too few makes  *)
(* it read the rest of the document for something else.                    *)
(*                                                                         *)
(* A string or number is a token with its value: hexadecimal and decimal   *)
(* notation are left out, except that delay_ms is stored in 32 bits.       *)
(***************************************************************************)
EXTENDS Integers, Sequences, SequencesExt

CONSTANT DelayWord    \* 2^32: delay_ms is a uint32_t

ASSUME DelayWordAssumption == DelayWord \in Nat \ {0}

NoBytes == << >>      \* uds_len = 0

-----------------------------------------------------------------------------
(* jsmn, external: the tokens of a document                                *)

Token(type, size, text) == <<[type |-> type, size |-> size, text |-> text]>>

String(text) == Token("string", 0, text)

Number(n) == Token("primitive", 0, n)

Member(key, value) == Token("string", 1, key) \o value

Object(members) == Token("object", Len(members), "") \o FlattenSeq(members)

Array(elements) == Token("array", Len(elements), "") \o FlattenSeq(elements)

-----------------------------------------------------------------------------
(* recording_load                                                          *)

(***************************************************************************)
(* A loop "for (k = 0; k < size && j < n; k++)": the body takes the state  *)
(* of the loop, with its position in the tokens in field at, and k.        *)
(***************************************************************************)
Loop(tok, size, body(_, _), start) ==
    LET state[k \in 0 .. size] ==
            IF k = 0 THEN start
            ELSE LET s == state[k - 1]
                 IN  IF s.at > Len(tok) THEN s ELSE body(s, k)
    IN  state[size]

(***************************************************************************)
(* json_eq, and the test that the value is there.  No value of a recording *)
(* reads like the name of a member, so only keys are compared.             *)
(***************************************************************************)
IsMember(tok, j, key) ==
    /\ tok[j].type = "string" /\ tok[j].size = 1 /\ tok[j].text = key
    /\ j < Len(tok)

IsGroup(tok, j, key, type) == IsMember(tok, j, key) /\ tok[j + 1].type = type

(***************************************************************************)
(* What the loader steps over when it does not know a member: the key and  *)
(* one token of value.                                                     *)
(***************************************************************************)
MutStep == 1

Step == 2

Skipped(s) == [s EXCEPT !.at = @ + Step]

(***************************************************************************)
(* strtoul of delay_ms, stored in a uint32_t: "-3" becomes 2^32 - 3.       *)
(***************************************************************************)
LoadDelay(delay) == delay % DelayWord

(***************************************************************************)
(* A member of a tx object: can_id and uds are stored, others stepped over.*)
(***************************************************************************)
TxMember(tok, s) ==
    IF IsMember(tok, s.at, "can_id")
    THEN [at |-> s.at + 2, rec |-> [s.rec EXCEPT !.can_id = tok[s.at + 1].text]]
    ELSE IF IsMember(tok, s.at, "uds")
    THEN [at |-> s.at + 2, rec |-> [s.rec EXCEPT !.uds = tok[s.at + 1].text]]
    ELSE Skipped(s)

(***************************************************************************)
(* A member of an rx object, which has a delay too.                        *)
(***************************************************************************)
RxMember(tok, s) ==
    IF IsMember(tok, s.at, "delay_ms")
    THEN [at |-> s.at + 2,
          rec |-> [s.rec EXCEPT !.delay_ms = LoadDelay(tok[s.at + 1].text)]]
    ELSE TxMember(tok, s)

TxFields(tok, j, size, rec) ==
    Loop(tok, size, LAMBDA s, q : TxMember(tok, s), [at |-> j, rec |-> rec])

RxFields(tok, j, size, rec) ==
    Loop(tok, size, LAMBDA s, q : RxMember(tok, s), [at |-> j, rec |-> rec])

(***************************************************************************)
(* The zeroes of calloc.                                                   *)
(***************************************************************************)
NoRequest == [can_id |-> 0, uds |-> NoBytes]

NoResponse == [can_id |-> 0, uds |-> NoBytes, delay_ms |-> 0]

NoExchange == [tx |-> NoRequest, rx |-> << >>]

(***************************************************************************)
(* An array of objects, read into as many zeroed entries.  An element that *)
(* is no object leaves its entry as it is.                                 *)
(***************************************************************************)
Elements(tok, j, zero, read(_, _, _)) ==
    Loop(tok, tok[j].size,
         LAMBDA s, e :
            IF tok[s.at].type # "object" THEN [s EXCEPT !.at = @ + 1]
            ELSE LET r == read(s.at + 1, tok[s.at].size, s.rec[e])
                 IN  [at |-> r.at, rec |-> [s.rec EXCEPT ![e] = r.rec]],
         [at |-> j + 1, rec |-> [e \in 1 .. tok[j].size |-> zero]])

Replies(tok, j) ==
    Elements(tok, j, NoResponse, LAMBDA t, o, x : RxFields(tok, t, o, x))

(***************************************************************************)
(* A member of an exchange: the tx object or the array of rx objects.      *)
(***************************************************************************)
ExchangeMember(tok, s) ==
    IF IsGroup(tok, s.at, "tx", "object")
    THEN LET r == TxFields(tok, s.at + 2, tok[s.at + 1].size, s.rec.tx)
         IN  [at |-> r.at, rec |-> [s.rec EXCEPT !.tx = r.rec]]
    ELSE IF IsGroup(tok, s.at, "rx", "array")
    THEN LET r == Replies(tok, s.at + 1)
         IN  [at |-> r.at, rec |-> [s.rec EXCEPT !.rx = r.rec]]
    ELSE Skipped(s)

Exchange(tok, j, size, rec) ==
    Loop(tok, size, LAMBDA s, k : ExchangeMember(tok, s), [at |-> j, rec |-> rec])

Exchanges(tok, j) ==
    Elements(tok, j, NoExchange, LAMBDA t, o, x : Exchange(tok, t, o, x))

(***************************************************************************)
(* A member of the document.  The metadata is left out: like an unknown    *)
(* member, it is two tokens.                                               *)
(***************************************************************************)
TopMember(tok, s) ==
    IF IsGroup(tok, s.at, "exchanges", "array")
    THEN Exchanges(tok, s.at + 1)
    ELSE Skipped(s)

(***************************************************************************)
(* The top-level loop runs to the end of the tokens, whatever the size of  *)
(* the outer object.                                                       *)
(***************************************************************************)
Load(tok) ==
    Loop(tok, Len(tok), LAMBDA s, k : TopMember(tok, s), [at |-> 2, rec |-> << >>]).rec

(***************************************************************************)
(* recording_lookup stops at position k of the table: the first exchange   *)
(* of that CAN id and those bytes.                                         *)
(***************************************************************************)
LookupStopsAt(table, request, k) ==
    /\ k \in DOMAIN table
    /\ table[k].tx = request
    /\ \A j \in DOMAIN table : j < k => table[j].tx # request

=============================================================================
