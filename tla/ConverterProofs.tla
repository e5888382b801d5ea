-------------------------- MODULE ConverterProofs --------------------------
(***************************************************************************)
(* Proofs about the conversion of a log and the loading of the document    *)
(* (Converter.tla, Recording.tla), for every log, every set of requests    *)
(* and every choice of unknown members.                                    *)
(*                                                                         *)
(* recording_load walks over a flat array of tokens; most of this module   *)
(* shows that it stops where every member begins.  The loops of the loader *)
(* and the sums of the tokens are recursive functions, and induction over  *)
(* the natural numbers is used for sets: NatSetInduction.                  *)
(***************************************************************************)
EXTENDS Converter, SequenceTheorems, WellFoundedInduction, TLAPS

(***************************************************************************)
(* Induction over the natural numbers, for a set: what holds of 0 and of   *)
(* the next number holds of all.                                           *)
(***************************************************************************)
LEMMA NatSetInduction ==
    ASSUME NEW S, 0 \in S, \A n \in Nat : n \in S => n + 1 \in S
    PROVE  \A n \in Nat : n \in S
<1> DEFINE R == {ss \in Nat \X Nat : ss[1] < ss[2]}
<1>1. IsWellFoundedOn(R, Nat)
  BY NatLessThanWellFounded DEF OpToRel
<1>2. \A x, y \in Nat : x < y => <<x, y>> \in R
  OBVIOUS
<1> HIDE DEF R
<1>3. SUFFICES ASSUME Nat \ S # {} PROVE FALSE
  OBVIOUS
<1>4. PICK x \in Nat \ S : \A y \in Nat \ S : ~ (<<y, x>> \in R)
  BY <1>1, <1>3, WFMin
<1>5. x - 1 \in Nat /\ x - 1 \notin S
  BY <1>4
<1>6. <<x - 1, x>> \in R
  BY <1>2, <1>4, <1>5
<1> QED
  BY <1>4, <1>5, <1>6

(***************************************************************************)
(* Two functions that begin alike and go on alike end alike.               *)
(***************************************************************************)
Alike(f, g, n) ==
    /\ f[0] = g[0]
    /\ \A k \in 1 .. n : f[k - 1] = g[k - 1] => f[k] = g[k]

(***************************************************************************)
(* The run of a loop that CHOOSE picks is any run we can write down.       *)
(***************************************************************************)
LEMMA SameRuns ==
    ASSUME NEW n \in Nat, NEW f, NEW g, Alike(f, g, n)
    PROVE  f[n] = g[n]
<1> DEFINE S == {k \in Nat : k <= n => f[k] = g[k]}
<1>1. 0 \in S
  BY DEF Alike
<1>2. ASSUME NEW k \in Nat, k \in S PROVE k + 1 \in S
  <2>1. SUFFICES ASSUME k + 1 <= n PROVE f[k + 1] = g[k + 1]
    OBVIOUS
  <2>2. k + 1 \in 1 .. n /\ f[(k + 1) - 1] = g[(k + 1) - 1]
    BY <1>2, <2>1
  <2> QED
    BY <2>2 DEF Alike
<1>3. \A k \in Nat : k \in S
  <2> HIDE DEF S
  <2> QED
    BY <1>1, <1>2, NatSetInduction
<1> QED
  BY <1>3

-----------------------------------------------------------------------------
(* FlattenSeq                                                              *)

(***************************************************************************)
(* Concatenation under a name the provers leave alone.                     *)
(***************************************************************************)
Joined(s, t) == s \o t

(***************************************************************************)
(* Joined sequences are a sequence.                                        *)
(***************************************************************************)
LEMMA JoinedType ==
    ASSUME NEW T, NEW s \in Seq(T), NEW t \in Seq(T)
    PROVE  Joined(s, t) \in Seq(T)
BY DEF Joined

(***************************************************************************)
(* f holds, at i, the first i of n sequences one after the other.          *)
(***************************************************************************)
Accumulates(f, ss, n) ==
    f = [i \in 1 .. n |-> IF i = 1 THEN ss[i] ELSE Joined(f[i - 1], ss[i])]

(***************************************************************************)
(* Sequences can be accumulated.                                           *)
(***************************************************************************)
LEMMA AccumulationExists ==
    ASSUME NEW T, NEW n \in Nat, NEW ss \in [1 .. n -> Seq(T)]
    PROVE  \E f \in [1 .. n -> Seq(T)] : Accumulates(f, ss, n)
<1> DEFINE Part(f, m) == f \in [1 .. m -> Seq(T)] /\ Accumulates(f, ss, m)
           S == {m \in Nat : m <= n => \E f : Part(f, m)}
<1>1. \E f : Part(f, 0)
  <2>1. Part([i \in 1 .. 0 |-> ss[i]], 0)
    BY DEF Accumulates
  <2> QED
    BY <2>1
<1>2. ASSUME NEW m \in Nat, m < n, NEW f, Part(f, m)
      PROVE  \E h : Part(h, m + 1)
  <2> DEFINE last == IF m = 0 THEN ss[1] ELSE Joined(f[m], ss[m + 1])
             h == [i \in 1 .. m + 1 |-> IF i = m + 1 THEN last ELSE f[i]]
  <2>1. last \in Seq(T)
    BY <1>2, JoinedType
  <2>2. \A i \in 1 .. m : h[i] = f[i] /\ h[i] \in Seq(T)
    BY <1>2
  <2>3. h[m + 1] = last
    OBVIOUS
  <2>4. \A i \in 1 .. m : f[i] = IF i = 1 THEN ss[i] ELSE Joined(f[i - 1], ss[i])
    BY <1>2 DEF Accumulates
  <2>5. ASSUME NEW i \in 1 .. m + 1
        PROVE  h[i] = (IF i = 1 THEN ss[i] ELSE Joined(h[i - 1], ss[i])) /\ h[i] \in Seq(T)
    <3> HIDE DEF h
    <3>1. CASE i = m + 1
      <4>1. m # 0 => m \in 1 .. m /\ i - 1 = m /\ h[m] = f[m]
        BY <2>2, <3>1
      <4> QED
        BY <2>1, <2>3, <3>1, <4>1
    <3>2. CASE i # m + 1
      <4>1. i \in 1 .. m /\ (i # 1 => i - 1 \in 1 .. m)
        BY <3>2
      <4> QED
        BY <2>2, <2>4, <4>1
    <3> QED
      BY <3>1, <3>2
  <2>6. h \in [1 .. m + 1 -> Seq(T)]
    BY <2>5
  <2>7. h = [i \in 1 .. m + 1 |-> IF i = 1 THEN ss[i] ELSE Joined(h[i - 1], ss[i])]
    BY <2>5
  <2> HIDE DEF h
  <2> QED
    BY <2>6, <2>7 DEF Accumulates
<1> HIDE DEF Part
<1>3. 0 \in S
  BY <1>1
<1>4. ASSUME NEW m \in Nat, m \in S PROVE m + 1 \in S
  BY <1>2, <1>4
<1>5. \A m \in Nat : m \in S
  <2> HIDE DEF S
  <2> QED
    BY <1>3, <1>4, NatSetInduction
<1>6. PICK f : Part(f, n)
  BY <1>5
<1> QED
  BY <1>6 DEF Part

(***************************************************************************)
(* Two sequences or functions agree up to m.                               *)
(***************************************************************************)
Agree(ss, tt, m) == \A i \in 1 .. m : ss[i] = tt[i]

(***************************************************************************)
(* What has been accumulated up to m depends on the first m sequences      *)
(* only.                                                                   *)
(***************************************************************************)
LEMMA AccumulationIsUnique ==
    ASSUME NEW n \in Nat, NEW m \in Nat, m <= n, NEW ss, NEW tt, NEW f, NEW g,
           Accumulates(f, ss, m), Accumulates(g, tt, n),
           Agree(ss, tt, m)
    PROVE  Agree(f, g, m)
<1> DEFINE S == {k \in Nat : k \in 1 .. m => f[k] = g[k]}
<1>1. \A i \in 1 .. m : f[i] = IF i = 1 THEN ss[i] ELSE Joined(f[i - 1], ss[i])
  BY DEF Accumulates
<1>2. \A i \in 1 .. m : g[i] = IF i = 1 THEN ss[i] ELSE Joined(g[i - 1], ss[i])
  BY DEF Accumulates, Agree
<1>3. 0 \in S
  OBVIOUS
<1>4. ASSUME NEW k \in Nat, k \in S PROVE k + 1 \in S
  <2>1. SUFFICES ASSUME k + 1 \in 1 .. m PROVE f[k + 1] = g[k + 1]
    OBVIOUS
  <2>2. (k + 1) - 1 = k /\ (k + 1 # 1 => k \in 1 .. m)
    BY <2>1
  <2> QED
    BY <1>1, <1>2, <1>4, <2>1, <2>2
<1>5. \A k \in Nat : k \in S
  <2> HIDE DEF S
  <2> QED
    BY <1>3, <1>4, NatSetInduction
<1> QED
  BY <1>5 DEF Agree

(***************************************************************************)
(* FlattenSeq is the last accumulation.                                    *)
(***************************************************************************)
LEMMA FlattenIs ==
    ASSUME NEW T, NEW ss \in Seq(Seq(T)), ss # << >>,
           NEW f, Accumulates(f, ss, Len(ss))
    PROVE  FlattenSeq(ss) = f[Len(ss)]
<1> DEFINE n == Len(ss)
           c == CHOOSE h : Accumulates(h, ss, n)
<1>1. n \in Nat \ {0}
  OBVIOUS
<1>2. Accumulates(c, ss, n)
  OBVIOUS
<1>3. FlattenSeq(ss) = c[n]
  BY <1>1 DEF FlattenSeq, Accumulates, Joined
<1> HIDE DEF c
<1>4. c[n] = f[n]
  <2>1. Agree(c, f, n)
    BY <1>1, <1>2, AccumulationIsUnique DEF Agree
  <2> QED
    BY <1>1, <2>1 DEF Agree
<1> QED
  BY <1>3, <1>4

(***************************************************************************)
(* FlattenSeq of nothing is nothing.                                       *)
(***************************************************************************)
LEMMA FlattenNothing == FlattenSeq(<< >>) = << >>
BY DEF FlattenSeq

(***************************************************************************)
(* FlattenSeq of one sequence more.                                        *)
(***************************************************************************)
LEMMA FlattenAppend ==
    ASSUME NEW T, NEW ss \in Seq(Seq(T)), NEW s \in Seq(T)
    PROVE  /\ FlattenSeq(ss) \in Seq(T)
           /\ FlattenSeq(Append(ss, s)) = FlattenSeq(ss) \o s
<1> DEFINE n == Len(ss)
           tt == Append(ss, s)
<1>1. /\ n \in Nat /\ tt \in Seq(Seq(T)) /\ Len(tt) = n + 1
      /\ tt[n + 1] = s /\ \A i \in 1 .. n : tt[i] = ss[i]
  <2> DEFINE Q == Seq(T)
  <2>1. ss \in Seq(Q) /\ s \in Q
    OBVIOUS
  <2> HIDE DEF Q
  <2>2. /\ n \in Nat /\ tt \in Seq(Q) /\ Len(tt) = n + 1
        /\ tt[n + 1] = s /\ \A i \in 1 .. n : tt[i] = ss[i]
    BY <2>1
  <2> QED
    BY <2>2 DEF Q
<1> HIDE DEF tt
<1>2. tt # << >> /\ tt \in [1 .. n + 1 -> Seq(T)]
  <2>1. tt \in [1 .. Len(tt) -> Seq(T)]
    BY <1>1, LenProperties
  <2> QED
    BY <1>1, <2>1
<1>3. PICK f \in [1 .. n + 1 -> Seq(T)] : Accumulates(f, tt, n + 1)
  BY <1>1, <1>2, AccumulationExists
<1>4. FlattenSeq(tt) = f[n + 1]
  BY <1>1, <1>2, <1>3, FlattenIs
<1>5. f[n + 1] = IF n = 0 THEN s ELSE Joined(f[n], s)
  <2>1. \A i \in 1 .. n + 1 : f[i] = IF i = 1 THEN tt[i] ELSE Joined(f[i - 1], tt[i])
    BY <1>3 DEF Accumulates
  <2>2. n + 1 \in 1 .. n + 1 /\ (n + 1) - 1 = n /\ (n + 1 = 1 <=> n = 0)
    BY <1>1
  <2> QED
    BY <1>1, <2>1, <2>2
<1>6. CASE n = 0
  <2>1. ss = << >>
    BY <1>6
  <2>2. FlattenSeq(ss) = << >>
    BY <2>1, FlattenNothing
  <2> QED
    BY <1>4, <1>5, <1>6, <2>2 DEF tt
<1>7. CASE n # 0
  <2>1. ss # << >> /\ ss \in [1 .. n -> Seq(T)] /\ n \in 1 .. n
    <3>1. ss \in [1 .. Len(ss) -> Seq(T)]
      BY LenProperties
    <3> QED
      BY <1>1, <1>7, <3>1
  <2>2. PICK g \in [1 .. n -> Seq(T)] : Accumulates(g, ss, n)
    BY <1>1, <2>1, AccumulationExists
  <2>3. FlattenSeq(ss) = g[n]
    BY <2>1, <2>2, FlattenIs
  <2>4. g[n] = f[n]
    <3> DEFINE m == n + 1
    <3>1. /\ n \in Nat /\ m \in Nat /\ n <= m /\ Agree(ss, tt, n)
          /\ Accumulates(g, ss, n) /\ Accumulates(f, tt, m)
      BY <1>1, <1>3, <2>2 DEF Agree
    <3> HIDE DEF m
    <3>2. Agree(g, f, n)
      BY <3>1, AccumulationIsUnique
    <3> QED
      BY <2>1, <3>2 DEF Agree
  <2>5. g[n] \in Seq(T)
    BY <2>1, <2>2
  <2> QED
    BY <1>4, <1>5, <1>7, <2>3, <2>4, <2>5 DEF tt, Joined
<1> QED
  BY <1>6, <1>7

-----------------------------------------------------------------------------
(* Where the parts of a document stand                                     *)

(***************************************************************************)
(* The tokens s stand in tok from position j on.                           *)
(***************************************************************************)
Stands(tok, j, s) ==
    /\ j \in Nat \ {0}
    /\ j + Len(s) <= Len(tok) + 1
    /\ \A i \in 1 .. Len(s) : tok[j + i - 1] = s[i]

(***************************************************************************)
(* When two sequences stand in a row, so does each, the second behind the  *)
(* first.                                                                  *)
(***************************************************************************)
LEMMA StandsJoined ==
    ASSUME NEW T, NEW tok \in Seq(T), NEW s \in Seq(T), NEW t \in Seq(T), NEW j,
           Stands(tok, j, s \o t)
    PROVE  /\ Stands(tok, j, s)
           /\ Stands(tok, j + Len(s), t)
<1> DEFINE m == Len(s)
           n == Len(t)
           st == s \o t
<1>1. /\ m \in Nat /\ n \in Nat /\ Len(st) = m + n
      /\ \A i \in 1 .. m : st[i] = s[i]
      /\ \A i \in 1 .. n : st[m + i] = t[i]
  OBVIOUS
<1>2. /\ j \in Nat \ {0} /\ j + Len(st) <= Len(tok) + 1 /\ Len(tok) \in Nat
      /\ \A i \in 1 .. Len(st) : tok[j + i - 1] = st[i]
  BY DEF Stands
<1> HIDE DEF m, n, st
<1>3. \A i \in 1 .. m : tok[j + i - 1] = s[i]
  BY <1>1, <1>2
<1>4. \A i \in 1 .. n : tok[(j + m) + i - 1] = t[i]
  <2> TAKE i \in 1 .. n
  <2>1. m + i \in 1 .. Len(st) /\ j + (m + i) - 1 = (j + m) + i - 1
    BY <1>1, <1>2
  <2> QED
    BY <1>1, <1>2, <2>1
<1>5. j + m <= Len(tok) + 1 /\ (j + m) + n <= Len(tok) + 1 /\ j + m \in Nat \ {0}
  BY <1>1, <1>2
<1> QED
  BY <1>2, <1>3, <1>4, <1>5 DEF Stands, m, n

(***************************************************************************)
(* How many tokens the first k parts take.                                 *)
(***************************************************************************)
Upto(ss, k) == Len(FlattenSeq(SubSeq(ss, 1, k)))

(***************************************************************************)
(* FlattenSeq of the first k parts is that of the first k - 1 and part k.  *)
(***************************************************************************)
LEMMA FlattenPrefix ==
    ASSUME NEW T, NEW ss \in Seq(Seq(T)), NEW k \in 1 .. Len(ss)
    PROVE  /\ FlattenSeq(SubSeq(ss, 1, k)) \in Seq(T)
           /\ FlattenSeq(SubSeq(ss, 1, k - 1)) \in Seq(T)
           /\ ss[k] \in Seq(T)
           /\ FlattenSeq(SubSeq(ss, 1, k)) = FlattenSeq(SubSeq(ss, 1, k - 1)) \o ss[k]
<1> DEFINE Q == Seq(T)
           p == SubSeq(ss, 1, k - 1)
<1>1. p \in Seq(Q) /\ ss[k] \in Q /\ SubSeq(ss, 1, k) = Append(p, ss[k])
  <2>1. ss \in Seq(Q)
    OBVIOUS
  <2> HIDE DEF Q
  <2> QED
    BY <2>1
<1>2. SubSeq(ss, 1, k) \in Seq(Q)
  <2> HIDE DEF Q
  <2> QED
    BY <1>1
<1> HIDE DEF p
<1>3. FlattenSeq(p) \in Seq(T) /\ FlattenSeq(Append(p, ss[k])) = FlattenSeq(p) \o ss[k]
  BY <1>1, FlattenAppend
<1>4. FlattenSeq(SubSeq(ss, 1, k)) \in Seq(T)
  <2>1. Joined(FlattenSeq(p), ss[k]) \in Seq(T)
    BY <1>1, <1>3, JoinedType
  <2> QED
    BY <1>1, <1>3, <2>1, Zenon DEF Joined
<1> QED
  BY <1>1, <1>3, <1>4 DEF p

(***************************************************************************)
(* Where the counting of parts begins and ends.                            *)
(***************************************************************************)
LEMMA PrefixEnds ==
    ASSUME NEW T, NEW ss \in Seq(Seq(T))
    PROVE  /\ SubSeq(ss, 1, Len(ss)) = ss
           /\ SubSeq(ss, 1, 0) = << >>
           /\ Upto(ss, 0) = 0
           /\ Upto(ss, Len(ss)) = Len(FlattenSeq(ss))
           /\ FlattenSeq(ss) \in Seq(T)
           /\ \A k \in 0 .. Len(ss) : Upto(ss, k) \in Nat
<1> DEFINE Q == Seq(T)
<1>1. SubSeq(ss, 1, Len(ss)) = ss /\ SubSeq(ss, 1, 0) = << >>
  <2>1. ss \in Seq(Q)
    OBVIOUS
  <2> HIDE DEF Q
  <2> QED
    BY <2>1
<1>2. FlattenSeq(ss) \in Seq(T)
  <2>1. << >> \in Seq(T)
    OBVIOUS
  <2> QED
    BY <2>1, FlattenAppend
<1>3. Upto(ss, 0) = 0
  <2>1. Len(<< >>) = 0
    OBVIOUS
  <2> QED
    BY <1>1, <2>1, FlattenNothing, Zenon DEF Upto
<1>4. ASSUME NEW k \in 0 .. Len(ss) PROVE Upto(ss, k) \in Nat
  <2>1. CASE k = 0
    <3>1. Upto(ss, k) = 0
      BY <1>3, <2>1, Zenon
    <3> QED
      BY <3>1
  <2>2. CASE k # 0
    <3>1. k \in 1 .. Len(ss)
      BY <2>2
    <3>2. FlattenSeq(SubSeq(ss, 1, k)) \in Seq(T)
      BY <3>1, FlattenPrefix
    <3> QED
      BY <3>2 DEF Upto
  <2> QED
    BY <2>1, <2>2
<1> QED
  BY <1>1, <1>2, <1>3, <1>4 DEF Upto

(***************************************************************************)
(* Part k takes as many tokens as it is long.                              *)
(***************************************************************************)
LEMMA UptoStep ==
    ASSUME NEW T, NEW ss \in Seq(Seq(T)), NEW k \in 1 .. Len(ss)
    PROVE  Upto(ss, k) = Upto(ss, k - 1) + Len(ss[k])
<1> DEFINE a == FlattenSeq(SubSeq(ss, 1, k - 1))
           b == ss[k]
<1>1. a \in Seq(T) /\ b \in Seq(T) /\ FlattenSeq(SubSeq(ss, 1, k)) = a \o b
  BY FlattenPrefix
<1>2. Upto(ss, k) = Len(a \o b)
  BY <1>1, Zenon DEF Upto
<1> HIDE DEF a, b
<1>3. Len(a \o b) = Len(a) + Len(b)
  BY <1>1
<1> QED
  BY <1>2, <1>3, Zenon DEF Upto, a, b

(***************************************************************************)
(* In a row of parts, part k stands behind the first k - 1.                *)
(***************************************************************************)
LEMMA Places ==
    ASSUME NEW T, NEW ss \in Seq(Seq(T)), NEW tok \in Seq(T), NEW j,
           Stands(tok, j, FlattenSeq(ss)), NEW k \in 1 .. Len(ss)
    PROVE  Stands(tok, j + Upto(ss, k - 1), ss[k])
<1> DEFINE n == Len(ss)
           S == {d \in Nat : d <= n => Stands(tok, j, FlattenSeq(SubSeq(ss, 1, n - d)))}
<1>1. n \in Nat
  OBVIOUS
<1>2. 0 \in S
  <2>1. n - 0 = n /\ SubSeq(ss, 1, n) = ss
    BY <1>1, PrefixEnds
  <2> QED
    BY <1>1, <2>1
<1>3. ASSUME NEW d \in Nat, d \in S PROVE d + 1 \in S
  <2>1. SUFFICES ASSUME d + 1 <= n PROVE Stands(tok, j, FlattenSeq(SubSeq(ss, 1, n - (d + 1))))
    OBVIOUS
  <2> DEFINE e == n - d
  <2>2. e \in 1 .. Len(ss) /\ n - (d + 1) = e - 1 /\ d <= n
    BY <1>1, <2>1
  <2>3. Stands(tok, j, FlattenSeq(SubSeq(ss, 1, e)))
    BY <1>3, <2>2
  <2> HIDE DEF e
  <2>4. /\ FlattenSeq(SubSeq(ss, 1, e)) = FlattenSeq(SubSeq(ss, 1, e - 1)) \o ss[e]
        /\ FlattenSeq(SubSeq(ss, 1, e - 1)) \in Seq(T)
        /\ ss[e] \in Seq(T)
    BY <2>2, FlattenPrefix
  <2>5. Stands(tok, j, FlattenSeq(SubSeq(ss, 1, e - 1)))
    BY <2>3, <2>4, StandsJoined
  <2> QED
    BY <2>2, <2>5
<1>4. \A d \in Nat : d \in S
  <2> HIDE DEF S
  <2> QED
    BY <1>2, <1>3, NatSetInduction
<1>5. Stands(tok, j, FlattenSeq(SubSeq(ss, 1, k)))
  <2>1. n - k \in Nat /\ n - k <= n /\ n - (n - k) = k
    BY <1>1
  <2> QED
    BY <1>4, <2>1
<1> HIDE DEF S
<1>6. /\ FlattenSeq(SubSeq(ss, 1, k)) = FlattenSeq(SubSeq(ss, 1, k - 1)) \o ss[k]
      /\ FlattenSeq(SubSeq(ss, 1, k - 1)) \in Seq(T)
      /\ ss[k] \in Seq(T)
  BY FlattenPrefix
<1> DEFINE a == FlattenSeq(SubSeq(ss, 1, k - 1))
<1>7. Stands(tok, j, a \o ss[k]) /\ a \in Seq(T) /\ ss[k] \in Seq(T)
  BY <1>5, <1>6, Zenon
<1> HIDE DEF a
<1>8. Stands(tok, j + Len(a), ss[k])
  BY <1>7, StandsJoined
<1> QED
  BY <1>8, Zenon DEF Upto, a

(***************************************************************************)
(* The text of an object or array, under a name: the provers' translation  *)
(* has no empty string.                                                    *)
(***************************************************************************)
NoText == ""

(***************************************************************************)
(* The tokens over a set V of texts.                                       *)
(***************************************************************************)
TokenTypes == {"object", "array", "string", "primitive"}

Tok(V) == [type : TokenTypes, size : Nat, text : V]

IsToken(t, type, size, text) == t.type = type /\ t.size = size /\ t.text = text

(***************************************************************************)
(* A token is a sequence of one.                                           *)
(***************************************************************************)
LEMMA OneToken ==
    ASSUME NEW V, NEW type \in TokenTypes, NEW size \in Nat, NEW text \in V
    PROVE  /\ Token(type, size, text) \in Seq(Tok(V))
           /\ Len(Token(type, size, text)) = 1
           /\ IsToken(Token(type, size, text)[1], type, size, text)
<1> DEFINE t == [type |-> type, size |-> size, text |-> text]
<1>1. t \in Tok(V) /\ IsToken(t, type, size, text)
  BY DEF Tok, IsToken
<1> HIDE DEF t
<1>2. <<t>> \in Seq(Tok(V)) /\ Len(<<t>>) = 1 /\ <<t>>[1] = t
  BY <1>1
<1> QED
  BY <1>1, <1>2, Zenon DEF Token, t

(***************************************************************************)
(* A token before a sequence: the rest stands one further on.              *)
(***************************************************************************)
LEMMA TokenFirst ==
    ASSUME NEW V, NEW type \in TokenTypes, NEW size \in Nat, NEW text \in V,
           NEW rest \in Seq(Tok(V))
    PROVE  /\ Token(type, size, text) \o rest \in Seq(Tok(V))
           /\ Len(Token(type, size, text) \o rest) = 1 + Len(rest)
           /\ \A tok \in Seq(Tok(V)), j \in Nat :
                Stands(tok, j, Token(type, size, text) \o rest) =>
                  IsToken(tok[j], type, size, text) /\ Stands(tok, j + 1, rest)
<1> DEFINE t == Token(type, size, text)
<1>1. t \in Seq(Tok(V)) /\ Len(t) = 1 /\ IsToken(t[1], type, size, text)
  BY OneToken
<1> HIDE DEF t
<1>2. t \o rest \in Seq(Tok(V)) /\ Len(t \o rest) = 1 + Len(rest)
  BY <1>1, ConcatProperties
<1>3. ASSUME NEW tok \in Seq(Tok(V)), NEW j \in Nat, Stands(tok, j, t \o rest)
      PROVE  IsToken(tok[j], type, size, text) /\ Stands(tok, j + 1, rest)
  <2>1. Stands(tok, j, t) /\ Stands(tok, j + Len(t), rest)
    BY <1>1, <1>3, StandsJoined
  <2>2. tok[j] = t[1]
    <3>1. tok[j + 1 - 1] = t[1] /\ j \in Nat
      BY <1>1, <2>1 DEF Stands
    <3> QED
      BY <3>1
  <2> QED
    BY <1>1, <2>1, <2>2
<1> QED
  BY <1>2, <1>3 DEF t

(***************************************************************************)
(* An object or an array: a token that counts its parts, then the parts.   *)
(***************************************************************************)
GroupTypes == {"object", "array"}

Group(type, ms) == Token(type, Len(ms), NoText) \o FlattenSeq(ms)

(***************************************************************************)
(* How long a group is, and where its parts stand.                         *)
(***************************************************************************)
LEMMA GroupIs ==
    ASSUME NEW V, NoText \in V, NEW type \in GroupTypes, NEW ms \in Seq(Seq(Tok(V)))
    PROVE  /\ Group(type, ms) \in Seq(Tok(V))
           /\ Len(Group(type, ms)) = 1 + Upto(ms, Len(ms))
           /\ \A tok \in Seq(Tok(V)), j \in Nat :
                Stands(tok, j, Group(type, ms)) =>
                  /\ IsToken(tok[j], type, Len(ms), NoText)
                  /\ \A k \in 1 .. Len(ms) : Stands(tok, j + 1 + Upto(ms, k - 1), ms[k])
<1> DEFINE rest == FlattenSeq(ms)
           T == Tok(V)
           n == Len(ms)
<1>1. ms \in Seq(Seq(T))
  OBVIOUS
<1> HIDE DEF T
<1>2. rest \in Seq(T) /\ Len(rest) = Upto(ms, n)
  BY <1>1, PrefixEnds
<1>3. n \in Nat
  BY <1>1, LenProperties
<1>4. type \in TokenTypes
  BY DEF TokenTypes, GroupTypes
<1> HIDE DEF rest, n
<1>5. /\ Token(type, n, NoText) \o rest \in Seq(T)
      /\ Len(Token(type, n, NoText) \o rest) = 1 + Len(rest)
      /\ \A tok \in Seq(T), j \in Nat :
            Stands(tok, j, Token(type, n, NoText) \o rest) =>
              IsToken(tok[j], type, n, NoText) /\ Stands(tok, j + 1, rest)
  BY <1>2, <1>3, <1>4, TokenFirst DEF T
<1>6. Group(type, ms) = Token(type, n, NoText) \o rest
  BY Zenon DEF Group, rest, n
<1>7. ASSUME NEW tok \in Seq(T), NEW j \in Nat, Stands(tok, j, Group(type, ms))
      PROVE  /\ IsToken(tok[j], type, n, NoText)
             /\ \A k \in 1 .. n : Stands(tok, j + 1 + Upto(ms, k - 1), ms[k])
  <2>1. IsToken(tok[j], type, n, NoText) /\ Stands(tok, j + 1, rest)
    BY <1>5, <1>6, <1>7, Zenon
  <2>2. ASSUME NEW k \in 1 .. n
        PROVE  Stands(tok, (j + 1) + Upto(ms, k - 1), ms[k])
    BY <1>1, <2>1, Places DEF rest, n
  <2> QED
    BY <2>1, <2>2
<1> QED
  BY <1>2, <1>5, <1>6, <1>7, Zenon DEF T, n

(***************************************************************************)
(* A member: the token of its key, then its value.                         *)
(***************************************************************************)
LEMMA MemberIs ==
    ASSUME NEW V, NEW key \in V, NEW value \in Seq(Tok(V))
    PROVE  /\ Member(key, value) \in Seq(Tok(V))
           /\ Len(Member(key, value)) = 1 + Len(value)
           /\ \A tok \in Seq(Tok(V)), j \in Nat :
                Stands(tok, j, Member(key, value)) =>
                  IsToken(tok[j], "string", 1, key) /\ Stands(tok, j + 1, value)
<1>1. "string" \in TokenTypes /\ 1 \in Nat
  BY DEF TokenTypes
<1> QED
  BY <1>1, TokenFirst, Zenon DEF Member

(***************************************************************************)
(* A member whose value is one token.                                      *)
(***************************************************************************)
Scalar(key, type, val) == Member(key, Token(type, 0, val))

IsScalar(tok, j, key, val) ==
    /\ j + 1 <= Len(tok)
    /\ IsToken(tok[j], "string", 1, key)
    /\ tok[j + 1].text = val

(***************************************************************************)
(* Such a member takes two tokens, its key and its value.                  *)
(***************************************************************************)
LEMMA ScalarIs ==
    ASSUME NEW V, NEW key \in V, NEW type \in TokenTypes, NEW val \in V
    PROVE  /\ Scalar(key, type, val) \in Seq(Tok(V))
           /\ Len(Scalar(key, type, val)) = 2
           /\ \A tok \in Seq(Tok(V)), j \in Nat :
                Stands(tok, j, Scalar(key, type, val)) => IsScalar(tok, j, key, val)
<1> DEFINE value == Token(type, 0, val)
<1>1. value \in Seq(Tok(V)) /\ Len(value) = 1 /\ IsToken(value[1], type, 0, val)
  BY OneToken
<1>2. Scalar(key, type, val) = Member(key, value)
  BY DEF Scalar
<1> HIDE DEF value
<1>3. /\ Member(key, value) \in Seq(Tok(V))
      /\ Len(Member(key, value)) = 1 + Len(value)
      /\ \A tok \in Seq(Tok(V)), j \in Nat :
            Stands(tok, j, Member(key, value)) =>
              IsToken(tok[j], "string", 1, key) /\ Stands(tok, j + 1, value)
  BY <1>1, MemberIs
<1>4. ASSUME NEW tok \in Seq(Tok(V)), NEW j \in Nat, Stands(tok, j, Member(key, value))
      PROVE  IsScalar(tok, j, key, val)
  <2>1. IsToken(tok[j], "string", 1, key) /\ Stands(tok, j + 1, value)
    BY <1>3, <1>4
  <2>2. Len(tok) \in Nat /\ (j + 1) + 1 <= Len(tok) + 1 /\ tok[(j + 1) + 1 - 1] = value[1]
    BY <1>1, <2>1 DEF Stands
  <2>3. (j + 1) + 1 - 1 = j + 1
    OBVIOUS
  <2> QED
    BY <1>1, <2>1, <2>2, <2>3 DEF IsScalar, IsToken
<1>5. Len(Member(key, value)) = 2
  BY <1>1, <1>3
<1> QED
  BY <1>2, <1>3, <1>4, <1>5, Zenon

-----------------------------------------------------------------------------
(* The loops of recording_load                                             *)

(***************************************************************************)
(* One turn of the loop over a tx object.                                  *)
(***************************************************************************)
Request(id, uds) == [can_id |-> id, uds |-> uds]

At(a, rec) == [at |-> a, rec |-> rec]

(***************************************************************************)
(* A turn stores the value of a member of that name and moves on by two    *)
(* tokens; a member it does not know changes nothing.                      *)
(***************************************************************************)
LEMMA TxTurn ==
    ASSUME NEW tok, NEW a \in Nat, NEW id, NEW uds, NEW val, Len(tok) \in Nat
    PROVE  /\ IsScalar(tok, a, "can_id", val) =>
                TxMember(tok, At(a, Request(id, uds))) = At(a + 2, Request(val, uds))
           /\ IsScalar(tok, a, "uds", val) =>
                TxMember(tok, At(a, Request(id, uds))) = At(a + 2, Request(id, val))
           /\ IsScalar(tok, a, "note", val) =>
                TxMember(tok, At(a, Request(id, uds))) = At(a + 2, Request(id, uds))
<1> DEFINE s == [at |-> a, rec |-> [can_id |-> id, uds |-> uds]]
<1>1. s = At(a, Request(id, uds))
  BY DEF At, Request
<1>2. ASSUME NEW key \in {"can_id", "uds", "note"}, IsScalar(tok, a, key, val)
      PROVE  \A k \in {"can_id", "uds"} : IsMember(tok, a, k) <=> k = key
  BY <1>2 DEF IsMember, IsScalar, IsToken
<1>3. ASSUME IsScalar(tok, a, "can_id", val) PROVE TxMember(tok, s) = At(a + 2, Request(val, uds))
  <2>1. IsMember(tok, a, "can_id") /\ tok[a + 1].text = val
    BY <1>2, <1>3 DEF IsScalar
  <2> QED
    BY <2>1 DEF TxMember, At, Request
<1>4. ASSUME IsScalar(tok, a, "uds", val) PROVE TxMember(tok, s) = At(a + 2, Request(id, val))
  <2>1. ~ IsMember(tok, a, "can_id") /\ IsMember(tok, a, "uds") /\ tok[a + 1].text = val
    BY <1>2, <1>4 DEF IsScalar
  <2> QED
    BY <2>1 DEF TxMember, At, Request
<1>5. ASSUME IsScalar(tok, a, "note", val) PROVE TxMember(tok, s) = At(a + 2, Request(id, uds))
  <2>1. ~ IsMember(tok, a, "can_id") /\ ~ IsMember(tok, a, "uds")
    BY <1>2, <1>5
  <2> QED
    BY <2>1 DEF TxMember, Skipped, Step, At, Request
<1> QED
  BY <1>1, <1>3, <1>4, <1>5

Response(id, uds, delay) == [can_id |-> id, uds |-> uds, delay_ms |-> delay]

(***************************************************************************)
(* One turn of the loop over an rx object.                                 *)
(***************************************************************************)
LEMMA RxTurn ==
    ASSUME NEW tok, NEW a \in Nat, NEW id, NEW uds, NEW delay, NEW key, NEW val,
           Len(tok) \in Nat, IsScalar(tok, a, key, val),
           key \in {"can_id", "uds", "delay_ms", "note"}
    PROVE  RxMember(tok, At(a, Response(id, uds, delay))) =
               At(a + 2, Response(IF key = "can_id" THEN val ELSE id,
                                  IF key = "uds" THEN val ELSE uds,
                                  IF key = "delay_ms" THEN LoadDelay(val) ELSE delay))
<1> DEFINE s == [at |-> a, rec |-> [can_id |-> id, uds |-> uds, delay_ms |-> delay]]
<1>1. s = At(a, Response(id, uds, delay))
  BY DEF At, Response
<1>2. \A k \in {"can_id", "uds", "delay_ms"} : IsMember(tok, a, k) <=> k = key
  BY DEF IsMember, IsScalar, IsToken
<1>3. tok[a + 1].text = val
  BY DEF IsScalar
<1>4. CASE key = "can_id"
  BY <1>1, <1>2, <1>3, <1>4 DEF RxMember, TxMember, At, Response
<1>5. CASE key = "uds"
  BY <1>1, <1>2, <1>3, <1>5 DEF RxMember, TxMember, At, Response
<1>6. CASE key = "delay_ms"
  BY <1>1, <1>2, <1>3, <1>6 DEF RxMember, At, Response
<1>7. CASE key = "note"
  BY <1>1, <1>2, <1>3, <1>7 DEF RxMember, TxMember, Skipped, Step, At, Response
<1> QED
  BY <1>4, <1>5, <1>6, <1>7

(***************************************************************************)
(* The loop over a tx object, with n members it does not know at its head. *)
(***************************************************************************)
LEMMA TxWalk ==
    ASSUME NEW tok, Len(tok) \in Nat, NEW j \in Nat, NEW n \in {0, 1}, NEW id, NEW uds,
           n = 1 => IsScalar(tok, j, "note", NoBytes),
           IsScalar(tok, j + 2 * n, "can_id", id),
           IsScalar(tok, j + 2 * n + 2, "uds", uds)
    PROVE  TxFields(tok, j, n + 2, NoRequest) = At(j + 2 * n + 4, Request(id, uds))
<1> DEFINE Turn(s) == IF s.at > Len(tok) THEN s ELSE TxMember(tok, s)
           IsRun(f) == f = [k \in 0 .. n + 2 |-> IF k = 0 THEN At(j, NoRequest) ELSE Turn(f[k - 1])]
           g == [k \in 0 .. n + 2 |->
                    At(j + 2 * k, IF k <= n THEN NoRequest
                                  ELSE IF k = n + 1 THEN Request(id, NoBytes)
                                  ELSE Request(id, uds))]
           c == CHOOSE f : IsRun(f)
<1>1. NoRequest = Request(0, NoBytes)
  BY DEF NoRequest, Request
<1>2. ASSUME NEW a \in Nat, NEW r, a <= Len(tok) PROVE Turn(At(a, r)) = TxMember(tok, At(a, r))
  BY <1>2 DEF At
<1> HIDE DEF Turn
<1>3. ASSUME n = 1 PROVE Turn(At(j, NoRequest)) = At(j + 2, NoRequest)
  <2>1. j <= Len(tok)
    BY <1>3 DEF IsScalar
  <2>2. TxMember(tok, At(j, NoRequest)) = At(j + 2, NoRequest)
    BY <1>1, <1>3, TxTurn
  <2> QED
    BY <1>2, <2>1, <2>2
<1>4. Turn(At(j + 2 * n, NoRequest)) = At(j + 2 * n + 2, Request(id, NoBytes))
  BY <1>1, <1>2, TxTurn DEF IsScalar
<1>5. Turn(At(j + 2 * n + 2, Request(id, NoBytes))) = At(j + 2 * n + 4, Request(id, uds))
  <2> DEFINE a == j + 2 * n + 2
  <2>1. a \in Nat /\ a + 2 = j + 2 * n + 4 /\ a <= Len(tok)
    BY DEF IsScalar
  <2>2. IsScalar(tok, a, "uds", uds)
    OBVIOUS
  <2> HIDE DEF a
  <2>3. TxMember(tok, At(a, Request(id, NoBytes))) = At(a + 2, Request(id, uds))
    BY <2>1, <2>2, TxTurn
  <2>4. Turn(At(a, Request(id, NoBytes))) = At(a + 2, Request(id, uds))
    BY <1>2, <2>1, <2>3
  <2> QED
    BY <2>1, <2>4 DEF a
<1>6. IsRun(g)
  <2>1. ASSUME NEW k \in 0 .. n + 2
        PROVE  g[k] = IF k = 0 THEN At(j, NoRequest) ELSE Turn(g[k - 1])
    <3>1. CASE k = 0
      BY <3>1
    <3>2. CASE k # 0 /\ k <= n
      BY <1>3, <3>2
    <3>3. CASE k = n + 1
      BY <1>4, <3>3
    <3>4. CASE k = n + 2
      BY <1>5, <3>4
    <3> QED
      BY <3>1, <3>2, <3>3, <3>4
  <2> QED
    BY <2>1
<1>7. IsRun(c)
  <2> HIDE DEF IsRun, g
  <2> QED
    BY <1>6
<1>8. TxFields(tok, j, n + 2, NoRequest) = c[n + 2]
  BY DEF TxFields, Loop, Turn, At
<1>9. c[n + 2] = g[n + 2]
  <2> HIDE DEF c, g
  <2>1. Alike(c, g, n + 2)
    BY <1>6, <1>7 DEF Alike
  <2> QED
    BY <2>1, SameRuns
<1> QED
  BY <1>8, <1>9

(***************************************************************************)
(* The same for an rx object.                                              *)
(***************************************************************************)
LEMMA RxWalk ==
    ASSUME NEW tok, Len(tok) \in Nat, NEW j \in Nat, NEW n \in {0, 1},
           NEW id, NEW uds, NEW delay,
           n = 1 => IsScalar(tok, j, "note", NoBytes),
           IsScalar(tok, j + 2 * n, "can_id", id),
           IsScalar(tok, j + 2 * n + 2, "uds", uds),
           IsScalar(tok, j + 2 * n + 4, "delay_ms", delay)
    PROVE  RxFields(tok, j, n + 3, NoResponse)
               = At(j + 2 * n + 6, Response(id, uds, LoadDelay(delay)))
<1> DEFINE Turn(s) == IF s.at > Len(tok) THEN s ELSE RxMember(tok, s)
           IsRun(f) == f = [k \in 0 .. n + 3 |-> IF k = 0 THEN At(j, NoResponse) ELSE Turn(f[k - 1])]
           g == [k \in 0 .. n + 3 |->
                    At(j + 2 * k, IF k <= n THEN NoResponse
                                  ELSE IF k = n + 1 THEN Response(id, NoBytes, 0)
                                  ELSE IF k = n + 2 THEN Response(id, uds, 0)
                                  ELSE Response(id, uds, LoadDelay(delay)))]
           c == CHOOSE f : IsRun(f)
<1>1. NoResponse = Response(0, NoBytes, 0)
  BY DEF NoResponse, Response
<1>2. ASSUME NEW a \in Nat, NEW r, a <= Len(tok) PROVE Turn(At(a, r)) = RxMember(tok, At(a, r))
  BY <1>2 DEF At
<1> HIDE DEF Turn
<1>3. ASSUME n = 1 PROVE Turn(At(j, NoResponse)) = At(j + 2, NoResponse)
  <2>1. j <= Len(tok)
    BY <1>3 DEF IsScalar
  <2>2. RxMember(tok, At(j, NoResponse)) = At(j + 2, NoResponse)
    BY <1>1, <1>3, RxTurn
  <2> QED
    BY <1>2, <2>1, <2>2
<1>4. Turn(At(j + 2 * n, NoResponse)) = At(j + 2 * n + 2, Response(id, NoBytes, 0))
  <2> DEFINE a == j + 2 * n
  <2>1. a \in Nat /\ a <= Len(tok) /\ IsScalar(tok, a, "can_id", id)
    BY DEF IsScalar
  <2> HIDE DEF a
  <2>2. RxMember(tok, At(a, NoResponse)) = At(a + 2, Response(id, NoBytes, 0))
    BY <1>1, <2>1, RxTurn
  <2> QED
    BY <1>2, <2>1, <2>2 DEF a
<1>5. Turn(At(j + 2 * n + 2, Response(id, NoBytes, 0))) = At(j + 2 * n + 4, Response(id, uds, 0))
  <2> DEFINE a == j + 2 * n + 2
  <2>1. a \in Nat /\ a <= Len(tok) /\ IsScalar(tok, a, "uds", uds) /\ a + 2 = j + 2 * n + 4
    BY DEF IsScalar
  <2> HIDE DEF a
  <2>2. RxMember(tok, At(a, Response(id, NoBytes, 0))) = At(a + 2, Response(id, uds, 0))
    BY <2>1, RxTurn
  <2>3. Turn(At(a, Response(id, NoBytes, 0))) = At(a + 2, Response(id, uds, 0))
    BY <1>2, <2>1, <2>2
  <2> QED
    BY <2>1, <2>3 DEF a
<1>6. Turn(At(j + 2 * n + 4, Response(id, uds, 0)))
         = At(j + 2 * n + 6, Response(id, uds, LoadDelay(delay)))
  <2> DEFINE a == j + 2 * n + 4
  <2>1. a \in Nat /\ a <= Len(tok) /\ IsScalar(tok, a, "delay_ms", delay) /\ a + 2 = j + 2 * n + 6
    BY DEF IsScalar
  <2> HIDE DEF a
  <2>2. RxMember(tok, At(a, Response(id, uds, 0))) = At(a + 2, Response(id, uds, LoadDelay(delay)))
    BY <2>1, RxTurn
  <2>3. Turn(At(a, Response(id, uds, 0))) = At(a + 2, Response(id, uds, LoadDelay(delay)))
    BY <1>2, <2>1, <2>2
  <2> QED
    BY <2>1, <2>3 DEF a
<1>7. IsRun(g)
  <2>1. ASSUME NEW k \in 0 .. n + 3
        PROVE  g[k] = IF k = 0 THEN At(j, NoResponse) ELSE Turn(g[k - 1])
    <3>1. CASE k = 0
      BY <3>1
    <3>2. CASE k # 0 /\ k <= n
      BY <1>3, <3>2
    <3>3. CASE k = n + 1
      BY <1>4, <3>3
    <3>4. CASE k = n + 2
      BY <1>5, <3>4
    <3>5. CASE k = n + 3
      BY <1>6, <3>5
    <3> QED
      BY <3>1, <3>2, <3>3, <3>4, <3>5
  <2> QED
    BY <2>1
<1>8. IsRun(c)
  <2> HIDE DEF IsRun, g
  <2> QED
    BY <1>7
<1>9. RxFields(tok, j, n + 3, NoResponse) = c[n + 3]
  BY DEF RxFields, Loop, Turn, At
<1>10. c[n + 3] = g[n + 3]
  <2> HIDE DEF c, g
  <2>1. Alike(c, g, n + 3)
    BY <1>7, <1>8 DEF Alike
  <2> QED
    BY <2>1, SameRuns
<1> QED
  BY <1>9, <1>10

-----------------------------------------------------------------------------
(* The members of the document                                             *)

Extra(place, strays) == IF place \in strays THEN 1 ELSE 0

(***************************************************************************)
(* With a member the loader does not know in front, the others move by one.*)
(***************************************************************************)
WithNote(place, strays, parts) == Note(place, strays) \o parts

(***************************************************************************)
(* The parts behind the added member, if there is one.                     *)
(***************************************************************************)
LEMMA NoteFirst ==
    ASSUME NEW V, NEW place, NEW strays, NEW parts \in Seq(Seq(Tok(V))),
           "note" \in V, NoBytes \in V
    PROVE  /\ Extra(place, strays) \in {0, 1}
           /\ WithNote(place, strays, parts) \in Seq(Seq(Tok(V)))
           /\ Len(WithNote(place, strays, parts)) = Extra(place, strays) + Len(parts)
           /\ Extra(place, strays) = 1 =>
                 WithNote(place, strays, parts)[1] = Scalar("note", "string", NoBytes)
           /\ \A k \in 1 .. Len(parts) :
                 WithNote(place, strays, parts)[Extra(place, strays) + k] = parts[k]
<1> DEFINE Q == Seq(Tok(V))
           note == Scalar("note", "string", NoBytes)
<1>1. note \in Q
  <2>1. "string" \in TokenTypes
    BY DEF TokenTypes
  <2> QED
    BY <2>1, ScalarIs
<1>2. Note(place, strays) = IF place \in strays THEN <<note>> ELSE << >>
  BY DEF Note, Scalar, String
<1>3. parts \in Seq(Q)
  OBVIOUS
<1> HIDE DEF Q, note
<1>4. CASE place \in strays
  <2>1. Note(place, strays) = <<note>> /\ Extra(place, strays) = 1
    BY <1>2, <1>4 DEF Extra
  <2>2. /\ <<note>> \o parts \in Seq(Q)
        /\ Len(<<note>> \o parts) = 1 + Len(parts)
        /\ (<<note>> \o parts)[1] = note
        /\ \A k \in 1 .. Len(parts) : (<<note>> \o parts)[1 + k] = parts[k]
    BY <1>1, <1>3
  <2> QED
    BY <2>1, <2>2 DEF Q, note, WithNote
<1>5. CASE place \notin strays
  <2>1. Note(place, strays) = << >> /\ Extra(place, strays) = 0
    BY <1>2, <1>5 DEF Extra
  <2>2. << >> \o parts = parts /\ Len(parts) \in Nat
    BY <1>3
  <2> QED
    BY <1>3, <2>1, <2>2 DEF Q, WithNote
<1> QED
  BY <1>4, <1>5

(***************************************************************************)
(* Members of two tokens each.                                             *)
(***************************************************************************)
LEMMA Pairs ==
    ASSUME NEW T, NEW ms \in Seq(Seq(T)), \A i \in 1 .. Len(ms) : Len(ms[i]) = 2
    PROVE  \A k \in 0 .. Len(ms) : Upto(ms, k) = 2 * k
<1> DEFINE n == Len(ms)
           S == {k \in Nat : k <= n => Upto(ms, k) = 2 * k}
<1>1. n \in Nat
  BY LenProperties
<1>2. 0 \in S
  BY PrefixEnds
<1>3. ASSUME NEW k \in Nat, k \in S PROVE k + 1 \in S
  <2>1. SUFFICES ASSUME k + 1 <= n PROVE Upto(ms, k + 1) = 2 * (k + 1)
    OBVIOUS
  <2>2. k + 1 \in 1 .. n /\ (k + 1) - 1 = k /\ Upto(ms, k) = 2 * k
    BY <1>1, <1>3, <2>1
  <2>3. Upto(ms, k + 1) = Upto(ms, k) + Len(ms[k + 1])
    BY <2>2, UptoStep
  <2>4. Len(ms[k + 1]) = 2 /\ 2 * (k + 1) = 2 * k + 2
    BY <2>2
  <2> QED
    BY <2>2, <2>3, <2>4, Zenon
<1>4. \A k \in Nat : k \in S
  <2> HIDE DEF S
  <2> QED
    BY <1>2, <1>3, NatSetInduction
<1> QED
  BY <1>1, <1>4

(***************************************************************************)
(* The keys and the constant values of the document, among the texts V.    *)
(***************************************************************************)
HasWords(V) ==
    /\ {"note", "can_id", "uds", "delay_ms", "tx", "rx", "exchanges", "recording_id",
         "captured_at", "vehicle_profile", "source_log"} \subseteq V
    /\ NoText \in V
    /\ 0 \in V
    /\ NoBytes \in V

(***************************************************************************)
(* An object of members with one token of value, after a member the loader *)
(* may not know: where its members stand.                                  *)
(***************************************************************************)
FlatObject(place, strays, parts) == Object(WithNote(place, strays, parts))

IsFlatObject(V, o, n, parts, p) ==
    /\ n \in {0, 1}
    /\ o \in Seq(Tok(V))
    /\ Len(o) = 1 + 2 * (n + p)
    /\ \A tok \in Seq(Tok(V)), j \in Nat : Stands(tok, j, o) =>
          /\ IsToken(tok[j], "object", n + p, NoText)
          /\ n = 1 => IsScalar(tok, j + 1, "note", NoBytes)
          /\ \A k \in 1 .. p : Stands(tok, (j + 1) + 2 * n + 2 * (k - 1), parts[k])

(***************************************************************************)
(* Its members stand two tokens apart.                                     *)
(***************************************************************************)
LEMMA FlatObjectIs ==
    ASSUME NEW V, HasWords(V), NEW place, NEW strays, NEW parts \in Seq(Seq(Tok(V))),
           \A k \in 1 .. Len(parts) : Len(parts[k]) = 2
    PROVE  IsFlatObject(V, FlatObject(place, strays, parts), Extra(place, strays),
                        parts, Len(parts))
<1> DEFINE n == Extra(place, strays)
           ms == WithNote(place, strays, parts)
           note == Scalar("note", "string", NoBytes)
           p == Len(parts)
<1>1. /\ n \in {0, 1} /\ ms \in Seq(Seq(Tok(V))) /\ Len(ms) = n + p
      /\ n = 1 => ms[1] = note
      /\ \A k \in 1 .. p : ms[n + k] = parts[k]
  <2>1. "note" \in V /\ NoBytes \in V
    BY DEF HasWords
  <2> QED
    BY <2>1, NoteFirst
<1>2. p \in Nat
  BY LenProperties
<1>3. /\ Len(note) = 2
      /\ \A tok \in Seq(Tok(V)), j \in Nat :
            Stands(tok, j, note) => IsScalar(tok, j, "note", NoBytes)
  <2>1. "string" \in TokenTypes /\ "note" \in V /\ NoBytes \in V
    BY DEF TokenTypes, HasWords
  <2> QED
    BY <2>1, ScalarIs
<1>4. FlatObject(place, strays, parts) = Group("object", ms)
  BY DEF FlatObject, Object, Group, NoText
<1> HIDE DEF n, ms, note, p
<1>5. ASSUME NEW i \in 1 .. n + p PROVE Len(ms[i]) = 2
  <2>1. CASE i <= n
    BY <1>1, <1>3, <2>1
  <2>2. CASE i > n
    <3>1. i - n \in 1 .. p /\ n + (i - n) = i
      BY <1>1, <1>2, <2>2
    <3> QED
      BY <1>1, <3>1 DEF p
  <2> QED
    BY <1>1, <2>1, <2>2
<1>6. \A k \in 0 .. n + p : Upto(ms, k) = 2 * k
  <2> DEFINE T == Tok(V)
  <2>1. ms \in Seq(Seq(T)) /\ \A i \in 1 .. Len(ms) : Len(ms[i]) = 2
    BY <1>1, <1>5
  <2> HIDE DEF T
  <2>2. \A k \in 0 .. Len(ms) : Upto(ms, k) = 2 * k
    BY <2>1, Pairs
  <2> QED
    BY <1>1, <2>2
<1>7. NoText \in V /\ "object" \in GroupTypes
  BY DEF HasWords, GroupTypes
<1>8. /\ Group("object", ms) \in Seq(Tok(V))
      /\ Len(Group("object", ms)) = 1 + Upto(ms, n + p)
      /\ \A tok \in Seq(Tok(V)), j \in Nat :
            Stands(tok, j, Group("object", ms)) =>
              /\ IsToken(tok[j], "object", n + p, NoText)
              /\ \A k \in 1 .. n + p : Stands(tok, j + 1 + Upto(ms, k - 1), ms[k])
  <2>1. /\ Group("object", ms) \in Seq(Tok(V))
        /\ Len(Group("object", ms)) = 1 + Upto(ms, Len(ms))
        /\ \A tok \in Seq(Tok(V)), j \in Nat :
            Stands(tok, j, Group("object", ms)) =>
              /\ IsToken(tok[j], "object", Len(ms), NoText)
              /\ \A k \in 1 .. Len(ms) : Stands(tok, j + 1 + Upto(ms, k - 1), ms[k])
    BY <1>1, <1>7, GroupIs
  <2> QED
    BY <1>1, <2>1, Zenon
<1>9. ASSUME NEW tok \in Seq(Tok(V)), NEW j \in Nat, Stands(tok, j, Group("object", ms))
      PROVE  /\ IsToken(tok[j], "object", n + p, NoText)
             /\ n = 1 => IsScalar(tok, j + 1, "note", NoBytes)
             /\ \A k \in 1 .. p : Stands(tok, (j + 1) + 2 * n + 2 * (k - 1), parts[k])
  <2>1. ASSUME n = 1 PROVE IsScalar(tok, j + 1, "note", NoBytes)
    <3>1. 1 \in 1 .. n + p /\ 0 \in 0 .. n + p /\ 1 - 1 = 0 /\ j + 1 \in Nat
      BY <1>1, <1>2, <2>1
    <3>2. Stands(tok, j + 1 + Upto(ms, 0), note) /\ Upto(ms, 0) = 0
      <4>1. Stands(tok, j + 1 + Upto(ms, 1 - 1), ms[1])
        BY <1>8, <1>9, <3>1
      <4> QED
        BY <1>1, <1>6, <2>1, <3>1, <4>1
    <3>3. Stands(tok, j + 1, note)
      BY <3>2
    <3> QED
      BY <1>3, <3>1, <3>3
  <2>2. ASSUME NEW k \in 1 .. p
        PROVE  Stands(tok, (j + 1) + 2 * n + 2 * (k - 1), parts[k])
    <3>1. n + k \in 1 .. n + p /\ (n + k) - 1 \in 0 .. n + p
      BY <1>1, <1>2
    <3>2. Stands(tok, j + 1 + Upto(ms, (n + k) - 1), ms[n + k])
      BY <1>8, <1>9, <3>1
    <3>3. Upto(ms, (n + k) - 1) = 2 * ((n + k) - 1) /\ ms[n + k] = parts[k]
      BY <1>1, <1>6, <3>1
    <3>4. j + 1 + 2 * ((n + k) - 1) = (j + 1) + 2 * n + 2 * (k - 1)
      BY <1>1, <1>2
    <3> QED
      BY <3>2, <3>3, <3>4
  <2> QED
    BY <1>8, <1>9, <2>1, <2>2
<1>10. Len(Group("object", ms)) = 1 + 2 * (n + p)
  <2>1. n + p \in 0 .. n + p
    BY <1>1, <1>2
  <2> QED
    BY <1>6, <1>8, <2>1
<1> QED
  BY <1>1, <1>4, <1>8, <1>9, <1>10, Zenon DEF n, ms, p, IsFlatObject

(***************************************************************************)
(* A tx object is read whole, and the loader stands behind it.             *)
(***************************************************************************)
LEMMA ReadsTx ==
    ASSUME NEW V, HasWords(V), NEW req, NEW strays, req.can_id \in V, req.uds \in V
    PROVE  /\ TxTokens(req, strays) \in Seq(Tok(V))
           /\ Len(TxTokens(req, strays)) \in Nat \ {0}
           /\ \A tok \in Seq(Tok(V)), j \in Nat : Stands(tok, j, TxTokens(req, strays)) =>
                 /\ tok[j].type = "object"
                 /\ TxFields(tok, j + 1, tok[j].size, NoRequest)
                        = At(j + Len(TxTokens(req, strays)), Request(req.can_id, req.uds))
<1> DEFINE a == Scalar("can_id", "string", req.can_id)
           b == Scalar("uds", "string", req.uds)
           n == Extra("tx", strays)
           o == TxTokens(req, strays)
           parts == <<a, b>>
<1>1. /\ a \in Seq(Tok(V)) /\ b \in Seq(Tok(V)) /\ Len(a) = 2 /\ Len(b) = 2
      /\ \A tok \in Seq(Tok(V)), j \in Nat :
            /\ Stands(tok, j, a) => IsScalar(tok, j, "can_id", req.can_id)
            /\ Stands(tok, j, b) => IsScalar(tok, j, "uds", req.uds)
  <2>1. "string" \in TokenTypes /\ "can_id" \in V /\ "uds" \in V
    BY DEF TokenTypes, HasWords
  <2> QED
    BY <2>1, ScalarIs
<1>2. o = FlatObject("tx", strays, parts)
  BY DEF FlatObject, WithNote, TxTokens, Scalar, String
<1> HIDE DEF a, b
<1>3. /\ parts \in Seq(Seq(Tok(V))) /\ Len(parts) = 2 /\ parts[1] = a /\ parts[2] = b
      /\ \A k \in 1 .. Len(parts) : Len(parts[k]) = 2
  <2> DEFINE Q == Seq(Tok(V))
  <2>1. a \in Q /\ b \in Q
    BY <1>1
  <2> HIDE DEF Q
  <2>2. parts \in Seq(Q) /\ Len(parts) = 2 /\ parts[1] = a /\ parts[2] = b
    BY <2>1
  <2> QED
    BY <1>1, <2>2 DEF Q
<1> HIDE DEF parts, n, o
<1>4. IsFlatObject(V, o, n, parts, 2)
  <2>1. IsFlatObject(V, FlatObject("tx", strays, parts), n, parts, Len(parts))
    BY <1>3, FlatObjectIs DEF n
  <2> QED
    BY <1>2, <1>3, <2>1, Zenon
<1>5. n \in {0, 1} /\ Len(o) = 1 + 2 * (n + 2)
  BY <1>4 DEF IsFlatObject
<1>6. ASSUME NEW tok \in Seq(Tok(V)), NEW j \in Nat, Stands(tok, j, o)
      PROVE  /\ tok[j].type = "object"
             /\ TxFields(tok, j + 1, tok[j].size, NoRequest)
                    = At(j + Len(o), Request(req.can_id, req.uds))
  <2>1. /\ IsToken(tok[j], "object", n + 2, NoText)
        /\ n = 1 => IsScalar(tok, j + 1, "note", NoBytes)
        /\ \A k \in 1 .. 2 : Stands(tok, (j + 1) + 2 * n + 2 * (k - 1), parts[k])
    BY <1>4, <1>6 DEF IsFlatObject
  <2> DEFINE i == j + 1
  <2>2. i \in Nat /\ i + 2 * n \in Nat /\ i + 2 * n + 2 \in Nat
        /\ i + 2 * n + 4 = j + Len(o)
    BY <1>5
  <2>3. Len(tok) \in Nat
    BY LenProperties
  <2>4. Stands(tok, i + 2 * n, a) /\ Stands(tok, i + 2 * n + 2, b)
    <3>1. i + 2 * n + 2 * (1 - 1) = i + 2 * n /\ i + 2 * n + 2 * (2 - 1) = i + 2 * n + 2
      BY <1>5
    <3>2. 1 \in 1 .. 2 /\ 2 \in 1 .. 2
      OBVIOUS
    <3>3. Stands(tok, i + 2 * n + 2 * (1 - 1), parts[1]) /\ Stands(tok, i + 2 * n + 2 * (2 - 1), parts[2])
      BY <2>1, <3>2
    <3> QED
      BY <1>3, <3>1, <3>3
  <2>5. IsScalar(tok, i + 2 * n, "can_id", req.can_id) /\ IsScalar(tok, i + 2 * n + 2, "uds", req.uds)
    BY <1>1, <2>2, <2>4
  <2>6. n = 1 => IsScalar(tok, i, "note", NoBytes)
    BY <2>1
  <2> HIDE DEF i
  <2>7. TxFields(tok, i, n + 2, NoRequest) = At(i + 2 * n + 4, Request(req.can_id, req.uds))
    BY <1>5, <2>2, <2>3, <2>5, <2>6, TxWalk
  <2> QED
    BY <2>1, <2>2, <2>7 DEF IsToken, i
<1>7. Len(o) \in Nat \ {0}
  BY <1>5
<1> QED
  BY <1>4, <1>6, <1>7 DEF IsFlatObject, o

(***************************************************************************)
(* The same for an rx object.                                              *)
(***************************************************************************)
LEMMA ReadsRx ==
    ASSUME NEW V, HasWords(V), NEW r, NEW strays, <<r.line>> \in V, r.delay \in V
    PROVE  /\ RxTokens(r, strays) \in Seq(Tok(V))
           /\ Len(RxTokens(r, strays)) \in Nat \ {0}
           /\ \A tok \in Seq(Tok(V)), j \in Nat : Stands(tok, j, RxTokens(r, strays)) =>
                 /\ tok[j].type = "object"
                 /\ RxFields(tok, j + 1, tok[j].size, NoResponse)
                        = At(j + Len(RxTokens(r, strays)),
                             Response(0, <<r.line>>, LoadDelay(r.delay)))
<1> DEFINE bytes == <<r.line>>
           a == Scalar("can_id", "string", 0)
           b == Scalar("uds", "string", bytes)
           d == Scalar("delay_ms", "primitive", r.delay)
           n == Extra("rx", strays)
           o == RxTokens(r, strays)
           parts == <<a, b, d>>
<1>1. o = FlatObject("rx", strays, parts)
  BY DEF FlatObject, WithNote, RxTokens, Scalar, String, Number
<1> HIDE DEF bytes
<1>2. /\ a \in Seq(Tok(V)) /\ b \in Seq(Tok(V)) /\ d \in Seq(Tok(V))
      /\ Len(a) = 2 /\ Len(b) = 2 /\ Len(d) = 2
      /\ \A tok \in Seq(Tok(V)), j \in Nat :
            /\ Stands(tok, j, a) => IsScalar(tok, j, "can_id", 0)
            /\ Stands(tok, j, b) => IsScalar(tok, j, "uds", bytes)
            /\ Stands(tok, j, d) => IsScalar(tok, j, "delay_ms", r.delay)
  <2>1. /\ "string" \in TokenTypes /\ "primitive" \in TokenTypes
        /\ "can_id" \in V /\ "uds" \in V /\ "delay_ms" \in V
        /\ 0 \in V /\ bytes \in V
    BY DEF TokenTypes, HasWords, bytes
  <2> QED
    BY <2>1, ScalarIs
<1> HIDE DEF a, b, d
<1>3. /\ parts \in Seq(Seq(Tok(V))) /\ Len(parts) = 3
      /\ parts[1] = a /\ parts[2] = b /\ parts[3] = d
      /\ \A k \in 1 .. Len(parts) : Len(parts[k]) = 2
  <2> DEFINE Q == Seq(Tok(V))
  <2>1. a \in Q /\ b \in Q /\ d \in Q
    BY <1>2
  <2> HIDE DEF Q
  <2>2. parts \in Seq(Q) /\ Len(parts) = 3 /\ parts[1] = a /\ parts[2] = b /\ parts[3] = d
    BY <2>1
  <2> QED
    BY <1>2, <2>2 DEF Q
<1> HIDE DEF parts, n, o
<1>4. IsFlatObject(V, o, n, parts, 3)
  <2>1. IsFlatObject(V, FlatObject("rx", strays, parts), n, parts, Len(parts))
    BY <1>3, FlatObjectIs DEF n
  <2> QED
    BY <1>1, <1>3, <2>1, Zenon
<1>5. n \in {0, 1} /\ Len(o) = 1 + 2 * (n + 3)
  BY <1>4 DEF IsFlatObject
<1>6. ASSUME NEW tok \in Seq(Tok(V)), NEW j \in Nat, Stands(tok, j, o)
      PROVE  /\ tok[j].type = "object"
             /\ RxFields(tok, j + 1, tok[j].size, NoResponse)
                    = At(j + Len(o), Response(0, bytes, LoadDelay(r.delay)))
  <2>1. /\ IsToken(tok[j], "object", n + 3, NoText)
        /\ n = 1 => IsScalar(tok, j + 1, "note", NoBytes)
        /\ \A k \in 1 .. 3 : Stands(tok, (j + 1) + 2 * n + 2 * (k - 1), parts[k])
    BY <1>4, <1>6 DEF IsFlatObject
  <2> DEFINE i == j + 1
  <2>2. i \in Nat /\ i + 2 * n \in Nat /\ i + 2 * n + 2 \in Nat /\ i + 2 * n + 4 \in Nat
        /\ i + 2 * n + 6 = j + Len(o)
    BY <1>5
  <2>3. Len(tok) \in Nat
    BY LenProperties
  <2>4. Stands(tok, i + 2 * n, a) /\ Stands(tok, i + 2 * n + 2, b) /\ Stands(tok, i + 2 * n + 4, d)
    <3>1. /\ i + 2 * n + 2 * (1 - 1) = i + 2 * n
          /\ i + 2 * n + 2 * (2 - 1) = i + 2 * n + 2
          /\ i + 2 * n + 2 * (3 - 1) = i + 2 * n + 4
      BY <1>5
    <3>2. 1 \in 1 .. 3 /\ 2 \in 1 .. 3 /\ 3 \in 1 .. 3
      OBVIOUS
    <3>3. /\ Stands(tok, i + 2 * n + 2 * (1 - 1), parts[1])
          /\ Stands(tok, i + 2 * n + 2 * (2 - 1), parts[2])
          /\ Stands(tok, i + 2 * n + 2 * (3 - 1), parts[3])
      BY <2>1, <3>2
    <3> QED
      BY <1>3, <3>1, <3>3
  <2>5. /\ IsScalar(tok, i + 2 * n, "can_id", 0)
        /\ IsScalar(tok, i + 2 * n + 2, "uds", bytes)
        /\ IsScalar(tok, i + 2 * n + 4, "delay_ms", r.delay)
    BY <1>2, <2>2, <2>4
  <2>6. n = 1 => IsScalar(tok, i, "note", NoBytes)
    BY <2>1
  <2> HIDE DEF i
  <2>7. RxFields(tok, i, n + 3, NoResponse)
           = At(i + 2 * n + 6, Response(0, bytes, LoadDelay(r.delay)))
    BY <1>5, <2>2, <2>3, <2>5, <2>6, RxWalk
  <2> QED
    BY <2>1, <2>2, <2>7 DEF IsToken, i
<1>7. Len(o) \in Nat \ {0}
  BY <1>5
<1> QED
  BY <1>4, <1>6, <1>7 DEF IsFlatObject, o, bytes

-----------------------------------------------------------------------------
(* Arrays of objects                                                       *)

(***************************************************************************)
(* The entries of an array after k turns: the first k are read.            *)
(***************************************************************************)
Filled(n, v, zero, k) == [e \in 1 .. n |-> IF e <= k THEN v[e] ELSE zero]

IsTable(v, n) == n \in Nat /\ v = [e \in 1 .. n |-> v[e]]

(***************************************************************************)
(* Before the first turn all entries are zero, after the last all are      *)
(* read.                                                                   *)
(***************************************************************************)
LEMMA FilledEnds ==
    ASSUME NEW n, NEW v, IsTable(v, n), NEW zero
    PROVE  /\ Filled(n, v, zero, 0) = [e \in 1 .. n |-> zero]
           /\ Filled(n, v, zero, n) = v
<1>1. Filled(n, v, zero, 0) = [e \in 1 .. n |-> zero]
  BY DEF Filled, IsTable
<1>2. Filled(n, v, zero, n) = v
  BY DEF Filled, IsTable
<1> QED
  BY <1>1, <1>2

(***************************************************************************)
(* A turn fills one entry.                                                 *)
(***************************************************************************)
LEMMA FilledStep ==
    ASSUME NEW n, NEW v, IsTable(v, n), NEW zero, NEW k \in 1 .. n
    PROVE  /\ Filled(n, v, zero, k - 1)[k] = zero
           /\ [Filled(n, v, zero, k - 1) EXCEPT ![k] = v[k]] = Filled(n, v, zero, k)
<1> DEFINE h == [e \in 1 .. n |-> IF e <= k - 1 THEN v[e] ELSE zero]
<1>1. h = Filled(n, v, zero, k - 1) /\ h[k] = zero
  BY DEF Filled, IsTable
<1>2. ASSUME NEW e \in 1 .. n
      PROVE  (IF e = k THEN v[k] ELSE h[e]) = IF e <= k THEN v[e] ELSE zero
  BY DEF IsTable
<1>3. [h EXCEPT ![k] = v[k]] = [e \in 1 .. n |-> IF e = k THEN v[k] ELSE h[e]]
  <2>1. DOMAIN h = 1 .. n
    OBVIOUS
  <2> HIDE DEF h
  <2> QED
    BY <2>1
<1>4. [e \in 1 .. n |-> IF e = k THEN v[k] ELSE h[e]]
        = [e \in 1 .. n |-> IF e <= k THEN v[e] ELSE zero]
  <2> HIDE DEF h
  <2> QED
    BY <1>2
<1> QED
  BY <1>1, <1>3, <1>4, Zenon DEF Filled

(***************************************************************************)
(* Where the k-th part of a group that stands at j begins.                 *)
(***************************************************************************)
Place(j, ms, k) == j + 1 + Upto(ms, k - 1)

AreParts(V, ms) ==
    /\ ms \in Seq(Seq(Tok(V)))
    /\ \A k \in 1 .. Len(ms) : Len(ms[k]) \in Nat \ {0}

(***************************************************************************)
(* From the place of one part to that of the next, and to the end.         *)
(***************************************************************************)
LEMMA PlaceSteps ==
    ASSUME NEW V, NoText \in V, NEW ms, AreParts(V, ms), NEW tok \in Seq(Tok(V)), NEW j \in Nat,
           NEW type \in GroupTypes, Stands(tok, j, Group(type, ms))
    PROVE  /\ IsToken(tok[j], type, Len(ms), NoText)
           /\ Place(j, ms, 1) = j + 1
           /\ Place(j, ms, Len(ms) + 1) = j + Len(Group(type, ms))
           /\ \A k \in 1 .. Len(ms) :
                 /\ Place(j, ms, k) \in Nat
                 /\ Place(j, ms, k) <= Len(tok)
                 /\ Stands(tok, Place(j, ms, k), ms[k])
                 /\ Place(j, ms, k + 1) = Place(j, ms, k) + Len(ms[k])
<1> DEFINE n == Len(ms)
           T == Tok(V)
<1>0. ms \in Seq(Seq(T))
  BY DEF AreParts
<1> HIDE DEF T
<1>1. n \in Nat /\ Len(tok) \in Nat
  BY <1>0, LenProperties
<1>2. /\ Len(Group(type, ms)) = 1 + Upto(ms, n)
      /\ IsToken(tok[j], type, n, NoText)
      /\ \A k \in 1 .. n : Stands(tok, j + 1 + Upto(ms, k - 1), ms[k])
  BY <1>0, GroupIs DEF T
<1>3. Upto(ms, 0) = 0 /\ \A k \in 0 .. n : Upto(ms, k) \in Nat
  BY <1>0, PrefixEnds
<1>4. Place(j, ms, 1) = j + 1
  <2>1. 1 - 1 = 0
    OBVIOUS
  <2> QED
    BY <1>3, <2>1 DEF Place
<1>5. Place(j, ms, n + 1) = j + Len(Group(type, ms))
  <2>1. (n + 1) - 1 = n /\ Upto(ms, n) \in Nat
    BY <1>1, <1>3
  <2> QED
    BY <1>2, <2>1 DEF Place
<1>6. ASSUME NEW k \in 1 .. n
      PROVE  /\ Place(j, ms, k) \in Nat
             /\ Place(j, ms, k) <= Len(tok)
             /\ Stands(tok, Place(j, ms, k), ms[k])
             /\ Place(j, ms, k + 1) = Place(j, ms, k) + Len(ms[k])
  <2>1. Upto(ms, k) = Upto(ms, k - 1) + Len(ms[k])
    BY <1>0, UptoStep
  <2>2. k - 1 \in 0 .. n /\ (k + 1) - 1 = k /\ Upto(ms, k - 1) \in Nat
    BY <1>1, <1>3
  <2>3. Stands(tok, Place(j, ms, k), ms[k])
    BY <1>2 DEF Place
  <2>4. Place(j, ms, k + 1) = Place(j, ms, k) + Len(ms[k])
    BY <2>1, <2>2 DEF Place
  <2>5. Place(j, ms, k) \in Nat
    BY <2>2 DEF Place
  <2>6. Len(ms[k]) \in Nat \ {0} /\ Place(j, ms, k) + Len(ms[k]) <= Len(tok) + 1
    BY <2>3 DEF Stands, AreParts
  <2>7. Place(j, ms, k) <= Len(tok)
    BY <1>1, <2>5, <2>6
  <2> QED
    BY <2>3, <2>4, <2>5, <2>7
<1> QED
  BY <1>2, <1>4, <1>5, <1>6

(***************************************************************************)
(* The rx objects of an exchange, and what is read of them.                *)
(***************************************************************************)
ReplyTokens(rx, strays) == [n \in DOMAIN rx |-> RxTokens(rx[n], strays)]

LoadedReplies(rx) == [n \in DOMAIN rx |-> LoadedReply(rx[n])]

HasReplies(V, rx) ==
    /\ Len(rx) \in Nat /\ DOMAIN rx = 1 .. Len(rx)
    /\ \A n \in 1 .. Len(rx) : <<rx[n].line>> \in V /\ rx[n].delay \in V

(***************************************************************************)
(* An array of replies is read whole, and the loader stands behind it.     *)
(***************************************************************************)
LEMMA ReadsReplies ==
    ASSUME NEW V, HasWords(V), NEW rx, HasReplies(V, rx), NEW strays
    PROVE  /\ Array(ReplyTokens(rx, strays)) \in Seq(Tok(V))
           /\ Len(Array(ReplyTokens(rx, strays))) \in Nat \ {0}
           /\ \A tok \in Seq(Tok(V)), j \in Nat :
                Stands(tok, j, Array(ReplyTokens(rx, strays))) =>
                  /\ tok[j].type = "array"
                  /\ Replies(tok, j)
                        = At(j + Len(Array(ReplyTokens(rx, strays))), LoadedReplies(rx))
<1> DEFINE n == Len(rx)
           ms == ReplyTokens(rx, strays)
           v == LoadedReplies(rx)
<1>1. /\ n \in Nat
      /\ \A k \in 1 .. n : ms[k] = RxTokens(rx[k], strays) /\ v[k] = LoadedReply(rx[k])
      /\ IsTable(v, n)
      /\ ms = [k \in 1 .. n |-> ms[k]]
  BY DEF ReplyTokens, LoadedReplies, HasReplies, IsTable
<1>2. ASSUME NEW k \in 1 .. n
      PROVE  /\ ms[k] \in Seq(Tok(V))
             /\ Len(ms[k]) \in Nat \ {0}
             /\ \A tok \in Seq(Tok(V)), j \in Nat : Stands(tok, j, ms[k]) =>
                   /\ tok[j].type = "object"
                   /\ RxFields(tok, j + 1, tok[j].size, NoResponse) = At(j + Len(ms[k]), v[k])
  <2>1. <<rx[k].line>> \in V /\ rx[k].delay \in V
    BY DEF HasReplies
  <2>2. v[k] = Response(0, <<rx[k].line>>, LoadDelay(rx[k].delay))
    BY <1>1 DEF LoadedReply, Response
  <2> HIDE DEF v
  <2> QED
    BY <1>1, <2>1, <2>2, ReadsRx
<1> HIDE DEF n, ms, v
<1>3. ms \in Seq(Seq(Tok(V))) /\ Len(ms) = n
  <2> DEFINE Q == Seq(Tok(V))
  <2>1. n \in Nat /\ ms = [k \in 1 .. n |-> ms[k]] /\ \A k \in 1 .. n : ms[k] \in Q
    BY <1>1, <1>2
  <2> HIDE DEF Q
  <2> QED
    BY <2>1 DEF Q
<1>4. Array(ms) = Group("array", ms) /\ NoText \in V /\ "array" \in GroupTypes
  <2>1. Array(ms) = Group("array", ms)
    BY Zenon DEF Array, Group, NoText
  <2> QED
    BY <2>1 DEF HasWords, GroupTypes
<1>5. Group("array", ms) \in Seq(Tok(V)) /\ Len(Group("array", ms)) \in Nat \ {0}
  <2>1. Group("array", ms) \in Seq(Tok(V)) /\ Len(Group("array", ms)) = 1 + Upto(ms, n)
    BY <1>3, <1>4, GroupIs
  <2>2. Upto(ms, n) \in Nat
    BY <1>1, <1>3, PrefixEnds
  <2> QED
    BY <2>1, <2>2
<1>6. ASSUME NEW tok \in Seq(Tok(V)), NEW j \in Nat, Stands(tok, j, Group("array", ms))
      PROVE  tok[j].type = "array" /\ Replies(tok, j) = At(j + Len(Group("array", ms)), v)
  <2> DEFINE P(k) == Place(j, ms, k)
             F(k) == Filled(n, v, NoResponse, k)
             Turn(s, k) ==
                IF s.at > Len(tok) THEN s
                ELSE IF tok[s.at].type # "object" THEN [s EXCEPT !.at = @ + 1]
                ELSE LET r == RxFields(tok, s.at + 1, tok[s.at].size, s.rec[k])
                     IN  [at |-> r.at, rec |-> [s.rec EXCEPT ![k] = r.rec]]
             start == At(j + 1, [e \in 1 .. n |-> NoResponse])
             IsRun(f) == f = [k \in 0 .. n |-> IF k = 0 THEN start ELSE Turn(f[k - 1], k)]
             g == [k \in 0 .. n |-> At(P(k + 1), F(k))]
             c == CHOOSE f : IsRun(f)
  <2>1. /\ IsToken(tok[j], "array", n, NoText)
        /\ P(1) = j + 1
        /\ P(n + 1) = j + Len(Group("array", ms))
        /\ \A k \in 1 .. n :
              /\ P(k) \in Nat
              /\ P(k) <= Len(tok)
              /\ Stands(tok, P(k), ms[k])
              /\ P(k + 1) = P(k) + Len(ms[k])
    <3>1. AreParts(V, ms) /\ "array" \in GroupTypes
      BY <1>2, <1>3 DEF AreParts, GroupTypes
    <3> QED
      BY <1>3, <1>4, <1>6, <3>1, PlaceSteps
  <2>2. F(0) = [e \in 1 .. n |-> NoResponse] /\ F(n) = v
    BY <1>1, FilledEnds
  <2>9. \A k \in 1 .. n : F(k - 1)[k] = NoResponse /\ [F(k - 1) EXCEPT ![k] = v[k]] = F(k)
    BY <1>1, FilledStep
  <2> HIDE DEF P, F
  <2>3. ASSUME NEW k \in 1 .. n PROVE Turn(At(P(k), F(k - 1)), k) = At(P(k + 1), F(k))
    <3>1. /\ tok[P(k)].type = "object"
          /\ RxFields(tok, P(k) + 1, tok[P(k)].size, F(k - 1)[k]) = At(P(k + 1), v[k])
      <4>1. Stands(tok, P(k), ms[k]) /\ P(k) \in Nat /\ P(k + 1) = P(k) + Len(ms[k])
        BY <2>1
      <4>2. F(k - 1)[k] = NoResponse
        BY <2>9
      <4> QED
        BY <1>2, <4>1, <4>2
    <3>2. ~ (P(k) > Len(tok))
      <4>1. P(k) \in Nat /\ P(k) <= Len(tok) /\ Len(tok) \in Nat
        BY <2>1, LenProperties
      <4> QED
        BY <4>1
    <3>3. [F(k - 1) EXCEPT ![k] = v[k]] = F(k)
      BY <2>9
    <3> QED
      BY <3>1, <3>2, <3>3 DEF At
  <2>4. Replies(tok, j) = c[n]
    <3>1. tok[j].size = n
      BY <2>1 DEF IsToken
    <3> QED
      BY <3>1 DEF Replies, Elements, Loop, At
  <2> HIDE DEF Turn, start
  <2>5. IsRun(g)
    <3>1. ASSUME NEW k \in 0 .. n
          PROVE  g[k] = IF k = 0 THEN start ELSE Turn(g[k - 1], k)
      <4>1. CASE k = 0
        <5>1. g[0] = At(P(1), F(0))
          BY <1>1
        <5> QED
          BY <2>1, <2>2, <4>1, <5>1 DEF start
      <4>2. CASE k # 0
        <5>1. k \in 1 .. n /\ k - 1 \in 0 .. n /\ (k - 1) + 1 = k
          BY <1>1, <4>2
        <5>2. g[k - 1] = At(P(k), F(k - 1)) /\ g[k] = At(P(k + 1), F(k))
          BY <5>1
        <5> QED
          BY <2>3, <4>2, <5>1, <5>2
      <4> QED
        BY <4>1, <4>2
    <3> QED
      BY <3>1
  <2>6. IsRun(c)
    <3> HIDE DEF IsRun, g
    <3> QED
      BY <2>5
  <2>7. c[n] = g[n]
    <3> HIDE DEF c, g
    <3>1. Alike(c, g, n)
      BY <1>1, <2>5, <2>6 DEF Alike
    <3> QED
      BY <1>1, <3>1, SameRuns
  <2>8. g[n] = At(j + Len(Group("array", ms)), v)
    <3>1. g[n] = At(P(n + 1), F(n))
      BY <1>1
    <3> QED
      BY <2>1, <2>2, <3>1
  <2> QED
    BY <2>1, <2>4, <2>7, <2>8 DEF IsToken
<1> QED
  BY <1>4, <1>5, <1>6, Zenon DEF ms, v

-----------------------------------------------------------------------------
(* An exchange                                                             *)

Pair(tx, rx) == [tx |-> tx, rx |-> rx]

(***************************************************************************)
(* A member stands at a, with its value behind it.                         *)
(***************************************************************************)
IsKey(tok, a, key) == IsToken(tok[a], "string", 1, key) /\ a + 1 <= Len(tok)

(***************************************************************************)
(* A member that stands at a has its key at a and its value behind it.     *)
(***************************************************************************)
LEMMA KeyStands ==
    ASSUME NEW V, NEW key \in V, NEW value \in Seq(Tok(V)), Len(value) \in Nat \ {0},
           NEW tok \in Seq(Tok(V)), NEW a \in Nat, Stands(tok, a, Member(key, value))
    PROVE  IsKey(tok, a, key) /\ Stands(tok, a + 1, value)
<1>1. IsToken(tok[a], "string", 1, key) /\ Stands(tok, a + 1, value)
  BY MemberIs
<1>2. (a + 1) + Len(value) <= Len(tok) + 1 /\ Len(tok) \in Nat
  BY <1>1 DEF Stands
<1>3. a + 1 <= Len(tok)
  BY <1>2
<1> QED
  BY <1>1, <1>3 DEF IsKey

(***************************************************************************)
(* A member has one name.                                                  *)
(***************************************************************************)
LEMMA KeyIs ==
    ASSUME NEW tok, NEW a \in Nat, NEW key, IsKey(tok, a, key), Len(tok) \in Nat
    PROVE  \A k : IsMember(tok, a, k) <=> k = key
BY DEF IsKey, IsToken, IsMember

(***************************************************************************)
(* One turn of the loop over the members of an exchange: the tx object,    *)
(***************************************************************************)
LEMMA TxIsRead ==
    ASSUME NEW tok, NEW a \in Nat, NEW b, NEW tx, NEW rx, NEW r, Len(tok) \in Nat,
           IsKey(tok, a, "tx"), tok[a + 1].type = "object",
           TxFields(tok, a + 2, tok[a + 1].size, tx) = At(b, r)
    PROVE  ExchangeMember(tok, At(a, Pair(tx, rx))) = At(b, Pair(r, rx))
<1>1. IsGroup(tok, a, "tx", "object")
  BY KeyIs DEF IsGroup
<1> QED
  BY <1>1 DEF ExchangeMember, At, Pair

(***************************************************************************)
(* the array of rx objects,                                                *)
(***************************************************************************)
LEMMA RxIsRead ==
    ASSUME NEW tok, NEW a \in Nat, NEW b, NEW tx, NEW rx, NEW r, Len(tok) \in Nat,
           IsKey(tok, a, "rx"), tok[a + 1].type = "array",
           Replies(tok, a + 1) = At(b, r)
    PROVE  ExchangeMember(tok, At(a, Pair(tx, rx))) = At(b, Pair(tx, r))
<1>1. IsGroup(tok, a, "rx", "array") /\ ~ IsGroup(tok, a, "tx", "object")
  BY KeyIs DEF IsGroup
<1> QED
  BY <1>1 DEF ExchangeMember, At, Pair

(***************************************************************************)
(* and a member the loader does not know.                                  *)
(***************************************************************************)
LEMMA NoteIsSkipped ==
    ASSUME NEW tok, NEW a \in Nat, NEW tx, NEW rx, Len(tok) \in Nat, IsKey(tok, a, "note")
    PROVE  ExchangeMember(tok, At(a, Pair(tx, rx))) = At(a + 2, Pair(tx, rx))
<1>1. ~ IsGroup(tok, a, "rx", "array") /\ ~ IsGroup(tok, a, "tx", "object")
  BY KeyIs DEF IsGroup
<1> QED
  BY <1>1 DEF ExchangeMember, At, Pair, Skipped, Step

(***************************************************************************)
(* The members of an exchange, and where they are.                         *)
(***************************************************************************)
ExchangeMembers(a, strays, b) == <<a>> \o Note("exchange", strays) \o <<b>>

IsLonger(T, q, p, b) ==
    /\ q \in Seq(T)
    /\ Len(q) = Len(p) + 1
    /\ q[Len(p) + 1] = b
    /\ \A i \in 1 .. Len(p) : q[i] = p[i]

(***************************************************************************)
(* A sequence and one element more.                                        *)
(***************************************************************************)
LEMMA OneMore ==
    ASSUME NEW T, NEW p \in Seq(T), NEW b \in T
    PROVE  IsLonger(T, p \o <<b>>, p, b)
<1> DEFINE q == <<b>>
<1>1. q \in Seq(T) /\ Len(q) = 1 /\ q[1] = b /\ Len(p) \in Nat
  OBVIOUS
<1> HIDE DEF q
<1>2. /\ p \o q \in Seq(T) /\ Len(p \o q) = Len(p) + Len(q)
      /\ \A i \in 1 .. Len(p) + Len(q) :
            (p \o q)[i] = IF i <= Len(p) THEN p[i] ELSE q[i - Len(p)]
  BY <1>1, ConcatProperties
<1>3. (p \o q)[Len(p) + 1] = b
  BY <1>1, <1>2
<1>4. \A i \in 1 .. Len(p) : (p \o q)[i] = p[i]
  BY <1>1, <1>2
<1> QED
  BY <1>1, <1>2, <1>3, <1>4, Zenon DEF q, IsLonger

(***************************************************************************)
(* The members of an exchange: tx first, rx last, an unknown one between.  *)
(***************************************************************************)
LEMMA ExchangeMembersAre ==
    ASSUME NEW V, HasWords(V), NEW strays, NEW a \in Seq(Tok(V)), NEW b \in Seq(Tok(V))
    PROVE  LET e  == Extra("exchange", strays)
               ms == ExchangeMembers(a, strays, b)
           IN  /\ e \in {0, 1}
               /\ ms \in Seq(Seq(Tok(V)))
               /\ Len(ms) = e + 2
               /\ ms[1] = a
               /\ e = 1 => ms[2] = Scalar("note", "string", NoBytes)
               /\ ms[e + 2] = b
<1> DEFINE Q == Seq(Tok(V))
           note == Scalar("note", "string", NoBytes)
<1>1. note \in Q /\ a \in Q /\ b \in Q
  <2>1. "string" \in TokenTypes /\ "note" \in V /\ NoBytes \in V
    BY DEF TokenTypes, HasWords
  <2> QED
    BY <2>1, ScalarIs
<1>2. Note("exchange", strays) = IF "exchange" \in strays THEN <<note>> ELSE << >>
  BY DEF Note, Scalar, String
<1> HIDE DEF Q, note
<1>3. CASE "exchange" \in strays
  <2> DEFINE p == <<a>> \o <<note>>
  <2>1. p \in Seq(Q) /\ Len(p) = 2 /\ p[1] = a /\ p[2] = note
    BY <1>1
  <2>2. ExchangeMembers(a, strays, b) = p \o <<b>> /\ Extra("exchange", strays) = 1
    BY <1>2, <1>3 DEF ExchangeMembers, Extra
  <2> HIDE DEF p
  <2>3. /\ p \o <<b>> \in Seq(Q) /\ Len(p \o <<b>>) = 3
        /\ (p \o <<b>>)[1] = a /\ (p \o <<b>>)[2] = note /\ (p \o <<b>>)[3] = b
    <3>1. IsLonger(Q, p \o <<b>>, p, b)
      BY <1>1, <2>1, OneMore
    <3> QED
      BY <2>1, <3>1 DEF IsLonger
  <2> QED
    BY <2>2, <2>3 DEF Q, note
<1>4. CASE "exchange" \notin strays
  <2> DEFINE p == <<a>> \o << >>
  <2>1. p \in Seq(Q) /\ Len(p) = 1 /\ p[1] = a
    BY <1>1
  <2>2. ExchangeMembers(a, strays, b) = p \o <<b>> /\ Extra("exchange", strays) = 0
    BY <1>2, <1>4 DEF ExchangeMembers, Extra
  <2> HIDE DEF p
  <2>3. /\ p \o <<b>> \in Seq(Q) /\ Len(p \o <<b>>) = 2
        /\ (p \o <<b>>)[1] = a /\ (p \o <<b>>)[2] = b
    <3>1. IsLonger(Q, p \o <<b>>, p, b)
      BY <1>1, <2>1, OneMore
    <3> QED
      BY <2>1, <3>1 DEF IsLonger
  <2> QED
    BY <2>2, <2>3 DEF Q, note
<1> QED
  BY <1>3, <1>4

HasExchange(V, x) ==
    /\ x.req = Request(x.req.can_id, x.req.uds)
    /\ x.req.can_id \in V /\ x.req.uds \in V
    /\ HasReplies(V, x.rx)

(***************************************************************************)
(* An exchange is read whole, and the loader stands behind it.             *)
(***************************************************************************)
LEMMA ReadsExchange ==
    ASSUME NEW V, HasWords(V), NEW x, HasExchange(V, x), NEW strays
    PROVE  /\ ExchangeTokens(x, strays) \in Seq(Tok(V))
           /\ Len(ExchangeTokens(x, strays)) \in Nat \ {0}
           /\ \A tok \in Seq(Tok(V)), j \in Nat : Stands(tok, j, ExchangeTokens(x, strays)) =>
                 /\ tok[j].type = "object"
                 /\ Exchange(tok, j + 1, tok[j].size, NoExchange)
                       = At(j + Len(ExchangeTokens(x, strays)), LoadedExchange(x))
<1> DEFINE o == TxTokens(x.req, strays)
           ar == Array(ReplyTokens(x.rx, strays))
           a == Member("tx", o)
           b == Member("rx", ar)
           e == Extra("exchange", strays)
           ms == ExchangeMembers(a, strays, b)
           note == Scalar("note", "string", NoBytes)
           R == Request(x.req.can_id, x.req.uds)
           L == LoadedReplies(x.rx)
<1>1. ExchangeTokens(x, strays) = Group("object", ms)
  BY Zenon DEF ExchangeTokens, ExchangeMembers, Object, Group, NoText, ReplyTokens
<1>2. /\ "tx" \in V /\ "rx" \in V /\ "note" \in V /\ NoBytes \in V /\ NoText \in V
      /\ "object" \in GroupTypes /\ "string" \in TokenTypes
  BY DEF HasWords, GroupTypes, TokenTypes
<1>3. /\ o \in Seq(Tok(V)) /\ Len(o) \in Nat \ {0}
      /\ \A tok \in Seq(Tok(V)), j \in Nat : Stands(tok, j, o) =>
            /\ tok[j].type = "object"
            /\ TxFields(tok, j + 1, tok[j].size, NoRequest) = At(j + Len(o), R)
  <2>1. x.req.can_id \in V /\ x.req.uds \in V
    BY DEF HasExchange
  <2> QED
    BY <2>1, ReadsTx
<1>4. /\ ar \in Seq(Tok(V)) /\ Len(ar) \in Nat \ {0}
      /\ \A tok \in Seq(Tok(V)), j \in Nat : Stands(tok, j, ar) =>
            tok[j].type = "array" /\ Replies(tok, j) = At(j + Len(ar), L)
  BY ReadsReplies DEF HasExchange
<1>5. LoadedExchange(x) = Pair(R, L) /\ NoExchange = Pair(NoRequest, << >>)
  <2>1. R = x.req
    BY DEF HasExchange
  <2> HIDE DEF R
  <2> QED
    BY <2>1 DEF LoadedExchange, NoExchange, Pair, LoadedReplies
<1> HIDE DEF o, ar, R, L
<1>6. /\ a \in Seq(Tok(V)) /\ b \in Seq(Tok(V))
      /\ Len(a) = 1 + Len(o) /\ Len(b) = 1 + Len(ar)
  BY <1>2, <1>3, <1>4, MemberIs
<1>7. note \in Seq(Tok(V)) /\ Len(note) = 2 /\ note = Member("note", Token("string", 0, NoBytes))
  BY <1>2, ScalarIs DEF Scalar
<1> HIDE DEF a, b
<1>8. /\ e \in {0, 1} /\ ms \in Seq(Seq(Tok(V))) /\ Len(ms) = e + 2
      /\ ms[1] = a /\ ms[e + 2] = b /\ (e = 1 => ms[2] = note)
  BY <1>6, ExchangeMembersAre
<1> HIDE DEF e, ms, note
<1>13. /\ Len(a) = 1 + Len(o) /\ Len(b) = 1 + Len(ar)
       /\ Len(o) \in Nat \ {0} /\ Len(ar) \in Nat \ {0}
  BY <1>3, <1>4, <1>6
<1>9. AreParts(V, ms)
  <2>1. Len(ms[1]) \in Nat \ {0} /\ Len(ms[e + 2]) \in Nat \ {0}
    BY <1>8, <1>13
  <2>2. e = 1 => Len(ms[2]) \in Nat \ {0}
    <3>1. e = 1 => ms[2] = note
      BY <1>8
    <3>2. Len(note) = 2
      BY <1>7
    <3> QED
      BY <3>1, <3>2
  <2>3. \A k \in 1 .. Len(ms) : k = 1 \/ k = e + 2 \/ (k = 2 /\ e = 1)
    BY <1>8
  <2>4. \A k \in 1 .. Len(ms) : Len(ms[k]) \in Nat \ {0}
    BY <2>1, <2>2, <2>3
  <2> QED
    BY <1>8, <2>4 DEF AreParts
<1>10. Group("object", ms) \in Seq(Tok(V)) /\ Len(Group("object", ms)) \in Nat \ {0}
  <2>1. Group("object", ms) \in Seq(Tok(V)) /\ Len(Group("object", ms)) = 1 + Upto(ms, Len(ms))
    BY <1>2, <1>8, GroupIs
  <2>2. Len(ms) \in 0 .. Len(ms)
    BY <1>8
  <2>3. Upto(ms, Len(ms)) \in Nat
    BY <1>8, <2>2, PrefixEnds
  <2> QED
    BY <2>1, <2>3
<1>11. ASSUME NEW tok \in Seq(Tok(V)), NEW j \in Nat, Stands(tok, j, Group("object", ms))
       PROVE  /\ tok[j].type = "object"
              /\ Exchange(tok, j + 1, tok[j].size, NoExchange)
                    = At(j + Len(Group("object", ms)), Pair(R, L))
  <2> DEFINE P(k) == Place(j, ms, k)
             Turn(s) == IF s.at > Len(tok) THEN s ELSE ExchangeMember(tok, s)
             IsRun(f) == f = [k \in 0 .. e + 2 |->
                                IF k = 0 THEN At(j + 1, NoExchange) ELSE Turn(f[k - 1])]
             g == [k \in 0 .. e + 2 |->
                     At(P(k + 1), IF k = 0 THEN NoExchange
                                  ELSE IF k = e + 2 THEN Pair(R, L) ELSE Pair(R, << >>))]
             c == CHOOSE f : IsRun(f)
  <2>1. /\ IsToken(tok[j], "object", e + 2, NoText)
        /\ P(1) = j + 1
        /\ P(e + 2 + 1) = j + Len(Group("object", ms))
        /\ \A k \in 1 .. e + 2 :
              /\ P(k) \in Nat
              /\ P(k) <= Len(tok)
              /\ Stands(tok, P(k), ms[k])
              /\ P(k + 1) = P(k) + Len(ms[k])
    <3>1. Len(ms) = e + 2
      BY <1>8
    <3>2. NoText \in V /\ "object" \in GroupTypes
      BY <1>2
    <3>3. /\ IsToken(tok[j], "object", Len(ms), NoText)
          /\ P(1) = j + 1
          /\ P(Len(ms) + 1) = j + Len(Group("object", ms))
          /\ \A k \in 1 .. Len(ms) :
                /\ P(k) \in Nat
                /\ P(k) <= Len(tok)
                /\ Stands(tok, P(k), ms[k])
                /\ P(k + 1) = P(k) + Len(ms[k])
      BY <1>9, <1>11, <3>2, PlaceSteps
    <3> HIDE DEF P
    <3> QED
      BY <3>1, <3>3
  <2>2. Len(tok) \in Nat
    BY LenProperties
  <2> HIDE DEF P
  <2>3. ASSUME NEW i \in Nat, NEW r, i <= Len(tok) PROVE Turn(At(i, r)) = ExchangeMember(tok, At(i, r))
    BY <2>2, <2>3 DEF At
  <2>4. tok[j].size = e + 2 /\ tok[j].type = "object"
    BY <2>1 DEF IsToken
  <2>5. Exchange(tok, j + 1, tok[j].size, NoExchange) = c[e + 2]
    BY <2>4 DEF Exchange, Loop, At
  <2> HIDE DEF Turn
  <2>6. Turn(At(P(1), NoExchange)) = At(P(2), Pair(R, << >>))
    <3> DEFINE i == P(1)
    <3>1. /\ i \in Nat /\ i <= Len(tok) /\ Stands(tok, i, a)
          /\ P(2) = i + Len(a)
      <4>1. 1 \in 1 .. e + 2 /\ 1 + 1 = 2
        BY <1>8
      <4> QED
        BY <1>8, <2>1, <4>1
    <3> HIDE DEF i
    <3>2. P(2) = (i + 1) + Len(o) /\ i + 1 \in Nat /\ (i + 1) + 1 = i + 2
      BY <1>13, <3>1
    <3>3. IsKey(tok, i, "tx") /\ Stands(tok, i + 1, o)
      BY <1>2, <1>3, <3>1, KeyStands DEF a
    <3>4. /\ tok[i + 1].type = "object"
          /\ TxFields(tok, i + 2, tok[i + 1].size, NoRequest) = At(P(2), R)
      BY <1>3, <3>2, <3>3
    <3>5. ExchangeMember(tok, At(i, Pair(NoRequest, << >>))) = At(P(2), Pair(R, << >>))
      BY <2>2, <3>1, <3>3, <3>4, TxIsRead
    <3> QED
      BY <1>5, <2>3, <3>1, <3>5 DEF i
  <2>7. ASSUME e = 1 PROVE Turn(At(P(2), Pair(R, << >>))) = At(P(3), Pair(R, << >>))
    <3> DEFINE i == P(2)
    <3>1. /\ i \in Nat /\ i <= Len(tok) /\ Stands(tok, i, note) /\ P(3) = i + 2
      <4>1. 2 \in 1 .. e + 2 /\ 2 + 1 = 3
        BY <2>7
      <4>2. ms[2] = note /\ Len(ms[2]) = 2
        BY <1>7, <1>8, <2>7
      <4> QED
        BY <2>1, <4>1, <4>2
    <3> HIDE DEF i
    <3>2. IsKey(tok, i, "note")
      <4>1. Token("string", 0, NoBytes) \in Seq(Tok(V)) /\ Len(Token("string", 0, NoBytes)) \in Nat \ {0}
        BY <1>2, OneToken
      <4> QED
        BY <1>2, <1>7, <3>1, <4>1, KeyStands
    <3>3. ExchangeMember(tok, At(i, Pair(R, << >>))) = At(i + 2, Pair(R, << >>))
      BY <2>2, <3>1, <3>2, NoteIsSkipped
    <3> QED
      BY <2>3, <3>1, <3>3 DEF i
  <2>8. Turn(At(P(e + 2), Pair(R, << >>))) = At(P(e + 2 + 1), Pair(R, L))
    <3> DEFINE i == P(e + 2)
               q == P(e + 2 + 1)
    <3>1. i \in Nat /\ i <= Len(tok) /\ Stands(tok, i, b) /\ q = i + Len(b)
      <4>1. e + 2 \in 1 .. e + 2
        BY <1>8
      <4> QED
        BY <1>8, <2>1, <4>1
    <3> HIDE DEF i, q
    <3>2. q = (i + 1) + Len(ar) /\ i + 1 \in Nat
      BY <1>13, <3>1
    <3>3. IsKey(tok, i, "rx") /\ Stands(tok, i + 1, ar)
      BY <1>2, <1>4, <3>1, KeyStands DEF b
    <3>4. tok[i + 1].type = "array" /\ Replies(tok, i + 1) = At(q, L)
      BY <1>4, <3>2, <3>3
    <3>5. ExchangeMember(tok, At(i, Pair(R, << >>))) = At(q, Pair(R, L))
      BY <2>2, <3>1, <3>3, <3>4, RxIsRead
    <3> QED
      BY <2>3, <3>1, <3>5 DEF i, q
  <2>9. IsRun(g)
    <3>1. ASSUME NEW k \in 0 .. e + 2
          PROVE  g[k] = IF k = 0 THEN At(j + 1, NoExchange) ELSE Turn(g[k - 1])
      <4>1. CASE k = 0
        BY <2>1, <4>1
      <4>2. CASE k = 1
        <5>1. g[0] = At(P(1), NoExchange) /\ g[1] = At(P(2), Pair(R, << >>))
          BY <1>8
        <5> QED
          BY <2>6, <4>2, <5>1
      <4>3. CASE k = 2 /\ e = 1
        <5>1. g[1] = At(P(2), Pair(R, << >>)) /\ g[2] = At(P(3), Pair(R, << >>))
          BY <4>3
        <5> QED
          BY <2>7, <4>3, <5>1
      <4>4. CASE k = e + 2
        <5>1. /\ g[k] = At(P(e + 2 + 1), Pair(R, L))
              /\ g[k - 1] = At(P(e + 2), Pair(R, << >>))
          BY <1>8, <4>4
        <5> QED
          BY <1>8, <2>8, <4>4, <5>1
      <4> QED
        BY <1>8, <4>1, <4>2, <4>3, <4>4
    <3> QED
      BY <3>1
  <2>10. IsRun(c)
    <3> HIDE DEF IsRun, g
    <3> QED
      BY <2>9
  <2>11. c[e + 2] = g[e + 2]
    <3> HIDE DEF c, g
    <3>1. Alike(c, g, e + 2) /\ e + 2 \in Nat
      BY <1>8, <2>9, <2>10 DEF Alike
    <3> QED
      BY <3>1, SameRuns
  <2>12. g[e + 2] = At(P(e + 2 + 1), Pair(R, L))
    BY <1>8
  <2> QED
    BY <2>1, <2>4, <2>5, <2>11, <2>12
<1> QED
  BY <1>1, <1>5, <1>10, <1>11, Zenon

-----------------------------------------------------------------------------
(* The document                                                            *)

ArrayTokens(xs, strays) == [k \in DOMAIN xs |-> ExchangeTokens(xs[k], strays)]

LoadedTable(xs) == [k \in DOMAIN xs |-> LoadedExchange(xs[k])]

HasExchanges(V, xs) ==
    /\ Len(xs) \in Nat /\ DOMAIN xs = 1 .. Len(xs)
    /\ \A k \in 1 .. Len(xs) : HasExchange(V, xs[k])

(***************************************************************************)
(* The array of exchanges is read whole.                                   *)
(***************************************************************************)
LEMMA ReadsExchanges ==
    ASSUME NEW V, HasWords(V), NEW xs, HasExchanges(V, xs), NEW strays
    PROVE  /\ Array(ArrayTokens(xs, strays)) \in Seq(Tok(V))
           /\ Len(Array(ArrayTokens(xs, strays))) \in Nat \ {0}
           /\ \A tok \in Seq(Tok(V)), j \in Nat :
                Stands(tok, j, Array(ArrayTokens(xs, strays))) =>
                  /\ tok[j].type = "array"
                  /\ Exchanges(tok, j)
                        = At(j + Len(Array(ArrayTokens(xs, strays))), LoadedTable(xs))
<1> DEFINE n == Len(xs)
           ms == ArrayTokens(xs, strays)
           v == LoadedTable(xs)
<1>1. /\ n \in Nat
      /\ \A k \in 1 .. n : ms[k] = ExchangeTokens(xs[k], strays) /\ v[k] = LoadedExchange(xs[k])
      /\ IsTable(v, n)
      /\ ms = [k \in 1 .. n |-> ms[k]]
  BY DEF ArrayTokens, LoadedTable, HasExchanges, IsTable
<1>2. ASSUME NEW k \in 1 .. n
      PROVE  /\ ms[k] \in Seq(Tok(V))
             /\ Len(ms[k]) \in Nat \ {0}
             /\ \A tok \in Seq(Tok(V)), j \in Nat : Stands(tok, j, ms[k]) =>
                   /\ tok[j].type = "object"
                   /\ Exchange(tok, j + 1, tok[j].size, NoExchange) = At(j + Len(ms[k]), v[k])
  <2>1. HasExchange(V, xs[k])
    BY DEF HasExchanges
  <2> QED
    BY <1>1, <2>1, ReadsExchange
<1> HIDE DEF n, ms, v
<1>3. ms \in Seq(Seq(Tok(V))) /\ Len(ms) = n
  <2> DEFINE Q == Seq(Tok(V))
  <2>1. n \in Nat /\ ms = [k \in 1 .. n |-> ms[k]] /\ \A k \in 1 .. n : ms[k] \in Q
    BY <1>1, <1>2
  <2> HIDE DEF Q
  <2> QED
    BY <2>1 DEF Q
<1>4. Array(ms) = Group("array", ms) /\ NoText \in V /\ "array" \in GroupTypes
  <2>1. Array(ms) = Group("array", ms)
    BY Zenon DEF Array, Group, NoText
  <2> QED
    BY <2>1 DEF HasWords, GroupTypes
<1>5. Group("array", ms) \in Seq(Tok(V)) /\ Len(Group("array", ms)) \in Nat \ {0}
  <2>1. Group("array", ms) \in Seq(Tok(V)) /\ Len(Group("array", ms)) = 1 + Upto(ms, n)
    BY <1>3, <1>4, GroupIs
  <2>2. Upto(ms, n) \in Nat
    BY <1>1, <1>3, PrefixEnds
  <2> QED
    BY <2>1, <2>2
<1>6. ASSUME NEW tok \in Seq(Tok(V)), NEW j \in Nat, Stands(tok, j, Group("array", ms))
      PROVE  tok[j].type = "array" /\ Exchanges(tok, j) = At(j + Len(Group("array", ms)), v)
  <2> DEFINE P(k) == Place(j, ms, k)
             F(k) == Filled(n, v, NoExchange, k)
             Turn(s, k) ==
                IF s.at > Len(tok) THEN s
                ELSE IF tok[s.at].type # "object" THEN [s EXCEPT !.at = @ + 1]
                ELSE LET r == Exchange(tok, s.at + 1, tok[s.at].size, s.rec[k])
                     IN  [at |-> r.at, rec |-> [s.rec EXCEPT ![k] = r.rec]]
             start == At(j + 1, [e \in 1 .. n |-> NoExchange])
             IsRun(f) == f = [k \in 0 .. n |-> IF k = 0 THEN start ELSE Turn(f[k - 1], k)]
             g == [k \in 0 .. n |-> At(P(k + 1), F(k))]
             c == CHOOSE f : IsRun(f)
  <2>1. /\ IsToken(tok[j], "array", n, NoText)
        /\ P(1) = j + 1
        /\ P(n + 1) = j + Len(Group("array", ms))
        /\ \A k \in 1 .. n :
              /\ P(k) \in Nat
              /\ P(k) <= Len(tok)
              /\ Stands(tok, P(k), ms[k])
              /\ P(k + 1) = P(k) + Len(ms[k])
    <3>1. AreParts(V, ms) /\ "array" \in GroupTypes
      BY <1>2, <1>3 DEF AreParts, GroupTypes
    <3> QED
      BY <1>3, <1>4, <1>6, <3>1, PlaceSteps
  <2>2. F(0) = [e \in 1 .. n |-> NoExchange] /\ F(n) = v
    BY <1>1, FilledEnds
  <2>9. \A k \in 1 .. n : F(k - 1)[k] = NoExchange /\ [F(k - 1) EXCEPT ![k] = v[k]] = F(k)
    BY <1>1, FilledStep
  <2> HIDE DEF P, F
  <2>3. ASSUME NEW k \in 1 .. n PROVE Turn(At(P(k), F(k - 1)), k) = At(P(k + 1), F(k))
    <3>1. /\ tok[P(k)].type = "object"
          /\ Exchange(tok, P(k) + 1, tok[P(k)].size, F(k - 1)[k]) = At(P(k + 1), v[k])
      <4>1. Stands(tok, P(k), ms[k]) /\ P(k) \in Nat /\ P(k + 1) = P(k) + Len(ms[k])
        BY <2>1
      <4>2. F(k - 1)[k] = NoExchange
        BY <2>9
      <4> QED
        BY <1>2, <4>1, <4>2
    <3>2. ~ (P(k) > Len(tok))
      <4>1. P(k) \in Nat /\ P(k) <= Len(tok) /\ Len(tok) \in Nat
        BY <2>1, LenProperties
      <4> QED
        BY <4>1
    <3>3. [F(k - 1) EXCEPT ![k] = v[k]] = F(k)
      BY <2>9
    <3> QED
      BY <3>1, <3>2, <3>3 DEF At
  <2>4. Exchanges(tok, j) = c[n]
    <3>1. tok[j].size = n
      BY <2>1 DEF IsToken
    <3> QED
      BY <3>1 DEF Exchanges, Elements, Loop, At
  <2> HIDE DEF Turn, start
  <2>5. IsRun(g)
    <3>1. ASSUME NEW k \in 0 .. n
          PROVE  g[k] = IF k = 0 THEN start ELSE Turn(g[k - 1], k)
      <4>1. CASE k = 0
        <5>1. g[0] = At(P(1), F(0))
          BY <1>1
        <5> QED
          BY <2>1, <2>2, <4>1, <5>1 DEF start
      <4>2. CASE k # 0
        <5>1. k \in 1 .. n /\ k - 1 \in 0 .. n /\ (k - 1) + 1 = k
          BY <1>1, <4>2
        <5>2. g[k - 1] = At(P(k), F(k - 1)) /\ g[k] = At(P(k + 1), F(k))
          BY <5>1
        <5> QED
          BY <2>3, <4>2, <5>1, <5>2
      <4> QED
        BY <4>1, <4>2
    <3> QED
      BY <3>1
  <2>6. IsRun(c)
    <3> HIDE DEF IsRun, g
    <3> QED
      BY <2>5
  <2>7. c[n] = g[n]
    <3> HIDE DEF c, g
    <3>1. Alike(c, g, n)
      BY <1>1, <2>5, <2>6 DEF Alike
    <3> QED
      BY <1>1, <3>1, SameRuns
  <2>8. g[n] = At(j + Len(Group("array", ms)), v)
    <3>1. g[n] = At(P(n + 1), F(n))
      BY <1>1
    <3> QED
      BY <2>1, <2>2, <3>1
  <2> QED
    BY <2>1, <2>4, <2>7, <2>8 DEF IsToken
<1> QED
  BY <1>4, <1>5, <1>6, Zenon DEF ms, v

(***************************************************************************)
(* A member of the document the loader steps over, and the exchanges.      *)
(***************************************************************************)
LEMMA TopIsSkipped ==
    ASSUME NEW tok, NEW a \in Nat, NEW key, NEW r, Len(tok) \in Nat,
           IsKey(tok, a, key), key # "exchanges"
    PROVE  TopMember(tok, At(a, r)) = At(a + 2, r)
<1>1. ~ IsGroup(tok, a, "exchanges", "array")
  BY KeyIs DEF IsGroup
<1> QED
  BY <1>1 DEF TopMember, At, Skipped, Step

(***************************************************************************)
(* The member with the exchanges is read by the loop over them.            *)
(***************************************************************************)
LEMMA TopIsRead ==
    ASSUME NEW tok, NEW a \in Nat, NEW r, Len(tok) \in Nat,
           IsKey(tok, a, "exchanges"), tok[a + 1].type = "array"
    PROVE  TopMember(tok, At(a, r)) = Exchanges(tok, a + 1)
<1>1. IsGroup(tok, a, "exchanges", "array")
  BY KeyIs DEF IsGroup
<1> QED
  BY <1>1 DEF TopMember, At

(***************************************************************************)
(* The members of the document: four of metadata, the exchanges, and one   *)
(* the loader may not know.                                                *)
(***************************************************************************)
Metadata(key) == Scalar(key, "string", 0)

TopMembers(ar, strays) ==
    <<Metadata("recording_id"), Metadata("captured_at"), Metadata("vehicle_profile"),
      Metadata("source_log"), Member("exchanges", ar)>> \o Note("top", strays)

IsMetadata(V, m) ==
    /\ m \in Seq(Tok(V)) /\ Len(m) = 2
    /\ \A tok \in Seq(Tok(V)), a \in Nat : Stands(tok, a, m) =>
          \E key : IsKey(tok, a, key) /\ key # "exchanges"

(***************************************************************************)
(* The four members of metadata are none the loader looks for.             *)
(***************************************************************************)
LEMMA MetadataIs ==
    ASSUME NEW V, HasWords(V), NEW key \in V, key # "exchanges", NEW val \in V
    PROVE  IsMetadata(V, Scalar(key, "string", val))
<1> DEFINE o == Token("string", 0, val)
<1>1. "string" \in TokenTypes
  BY DEF TokenTypes
<1>2. o \in Seq(Tok(V)) /\ Len(o) \in Nat \ {0}
  BY <1>1, OneToken
<1>3. Scalar(key, "string", val) \in Seq(Tok(V)) /\ Len(Scalar(key, "string", val)) = 2
  BY <1>1, ScalarIs
<1>4. Scalar(key, "string", val) = Member(key, o)
  BY DEF Scalar
<1> HIDE DEF o
<1>5. \A tok \in Seq(Tok(V)), a \in Nat : Stands(tok, a, Member(key, o)) => IsKey(tok, a, key)
  BY <1>2, KeyStands
<1> QED
  BY <1>3, <1>4, <1>5 DEF IsMetadata

IsTop(V, ms, e, ar) ==
    /\ e \in {0, 1}
    /\ ms \in Seq(Seq(Tok(V)))
    /\ Len(ms) = 5 + e
    /\ ms[5] = Member("exchanges", ar)
    /\ \A k \in 1 .. 5 + e : k # 5 => IsMetadata(V, ms[k])

(***************************************************************************)
(* The exchanges are the fifth member, and the only one of that name.      *)
(***************************************************************************)
LEMMA TopMembersAre ==
    ASSUME NEW V, HasWords(V), NEW strays, NEW ar \in Seq(Tok(V))
    PROVE  IsTop(V, TopMembers(ar, strays), Extra("top", strays), ar)
<1> DEFINE Q == Seq(Tok(V))
           note == Scalar("note", "string", NoBytes)
           m1 == Metadata("recording_id")
           m2 == Metadata("captured_at")
           m3 == Metadata("vehicle_profile")
           m4 == Metadata("source_log")
           m5 == Member("exchanges", ar)
           p == <<m1, m2, m3, m4, m5>>
<1>1. /\ IsMetadata(V, note) /\ IsMetadata(V, m1) /\ IsMetadata(V, m2)
      /\ IsMetadata(V, m3) /\ IsMetadata(V, m4)
  <2>1. IsMetadata(V, note)
    BY MetadataIs DEF HasWords
  <2>2. /\ m1 = Scalar("recording_id", "string", 0) /\ m2 = Scalar("captured_at", "string", 0)
        /\ m3 = Scalar("vehicle_profile", "string", 0) /\ m4 = Scalar("source_log", "string", 0)
    BY DEF Metadata
  <2> HIDE DEF m1, m2, m3, m4
  <2>3. /\ "recording_id" \in V /\ "captured_at" \in V /\ "vehicle_profile" \in V
        /\ "source_log" \in V /\ 0 \in V
    BY DEF HasWords
  <2> QED
    BY <2>1, <2>2, <2>3, MetadataIs
<1>2. m5 \in Q
  BY MemberIs DEF HasWords
<1>3. note \in Q /\ m1 \in Q /\ m2 \in Q /\ m3 \in Q /\ m4 \in Q
  BY <1>1 DEF IsMetadata
<1>4. Note("top", strays) = IF "top" \in strays THEN <<note>> ELSE << >>
  BY DEF Note, Scalar, String
<1>5. TopMembers(ar, strays) = p \o Note("top", strays)
  BY DEF TopMembers
<1> HIDE DEF Q, note, m1, m2, m3, m4, m5
<1>6. /\ p \in Seq(Q) /\ Len(p) = 5 /\ p[5] = m5
      /\ \A k \in 1 .. 5 : k # 5 => IsMetadata(V, p[k])
  <2>1. p \in Seq(Q) /\ Len(p) = 5
    BY <1>2, <1>3
  <2>2. p[1] = m1 /\ p[2] = m2 /\ p[3] = m3 /\ p[4] = m4 /\ p[5] = m5
    OBVIOUS
  <2> HIDE DEF p
  <2>3. \A k \in 1 .. 5 : k = 1 \/ k = 2 \/ k = 3 \/ k = 4 \/ k = 5
    OBVIOUS
  <2> QED
    BY <1>1, <2>1, <2>2, <2>3
<1> HIDE DEF p
<1>7. CASE "top" \in strays
  <2>1. TopMembers(ar, strays) = p \o <<note>> /\ Extra("top", strays) = 1
    BY <1>4, <1>5, <1>7 DEF Extra
  <2>2. IsLonger(Q, p \o <<note>>, p, note)
    BY <1>3, <1>6, OneMore
  <2> DEFINE q == p \o <<note>>
  <2> HIDE DEF q
  <2>3. /\ q \in Seq(Q) /\ Len(q) = 6 /\ q[6] = note /\ \A i \in 1 .. 5 : q[i] = p[i]
    BY <1>6, <2>2 DEF IsLonger, q
  <2>4. \A k \in 1 .. 5 + 1 : k = 6 \/ k \in 1 .. 5
    OBVIOUS
  <2>5. q[5] = m5 /\ \A k \in 1 .. 5 + 1 : k # 5 => IsMetadata(V, q[k])
    BY <1>1, <1>6, <2>3, <2>4
  <2> QED
    <3>1. IsTop(V, q, 1, ar)
      BY <2>3, <2>5 DEF IsTop, Q, m5
    <3> QED
      BY <2>1, <3>1, Zenon DEF q
<1>8. CASE "top" \notin strays
  <2>1. TopMembers(ar, strays) = p \o << >> /\ Extra("top", strays) = 0
    BY <1>4, <1>5, <1>8 DEF Extra
  <2>2. p \o << >> = p
    BY <1>6
  <2> QED
    BY <1>6, <2>1, <2>2 DEF IsTop, Q, m5
<1> QED
  BY <1>7, <1>8

(***************************************************************************)
(* What recording_load makes of the document the converter wrote.          *)
(***************************************************************************)
LEMMA LoadIs ==
    ASSUME NEW V, HasWords(V), NEW xs, HasExchanges(V, xs), NEW strays
    PROVE  Load(Document(xs, strays)) = LoadedTable(xs)
<1> DEFINE ar == Array(ArrayTokens(xs, strays))
           ms == TopMembers(ar, strays)
           e == Extra("top", strays)
           tok == Document(xs, strays)
           v == LoadedTable(xs)
<1>1. tok = Group("object", ms)
  BY Zenon DEF Document, TopMembers, Metadata, Scalar, String, Object, Group, NoText, ArrayTokens
<1>2. /\ ar \in Seq(Tok(V)) /\ Len(ar) \in Nat \ {0}
      /\ \A t \in Seq(Tok(V)), j \in Nat : Stands(t, j, ar) =>
            t[j].type = "array" /\ Exchanges(t, j) = At(j + Len(ar), v)
  BY ReadsExchanges
<1> HIDE DEF ar, v
<1>3. IsTop(V, ms, e, ar)
  BY <1>2, TopMembersAre
<1>4. "exchanges" \in V /\ NoText \in V /\ "object" \in GroupTypes
  BY DEF HasWords, GroupTypes
<1>5. Len(Member("exchanges", ar)) = 1 + Len(ar)
  BY <1>2, <1>4, MemberIs
<1> HIDE DEF ms, e, tok
<1>6. e \in {0, 1} /\ Len(ms) = 5 + e
  BY <1>3 DEF IsTop
<1>7. /\ Len(ms[5]) = 1 + Len(ar) /\ Len(ar) \in Nat \ {0}
      /\ \A k \in 1 .. 5 + e : k # 5 => Len(ms[k]) = 2
  BY <1>2, <1>3, <1>5 DEF IsTop, IsMetadata
<1>8. AreParts(V, ms)
  <2>1. \A k \in 1 .. Len(ms) : Len(ms[k]) \in Nat \ {0}
    <3>1. Len(ms[5]) \in Nat \ {0}
      BY <1>7
    <3>2. \A k \in 1 .. 5 + e : k # 5 => Len(ms[k]) \in Nat \ {0}
      BY <1>7
    <3> QED
      BY <1>6, <3>1, <3>2
  <2> QED
    BY <1>3, <2>1 DEF IsTop, AreParts
<1>9. tok \in Seq(Tok(V)) /\ Len(tok) \in Nat /\ Stands(tok, 1, Group("object", ms))
  <2>1. Group("object", ms) \in Seq(Tok(V))
    BY <1>4, <1>8, GroupIs DEF AreParts
  <2>2. Len(tok) \in Nat /\ tok \in Seq(Tok(V))
    BY <1>1, <2>1, LenProperties
  <2>3. Stands(tok, 1, tok)
    BY <2>2 DEF Stands
  <2> QED
    BY <1>1, <2>2, <2>3
<1> DEFINE P(k) == Place(1, ms, k)
<1>10. /\ P(1) = 2
       /\ P(5 + e + 1) = 1 + Len(tok)
       /\ \A k \in 1 .. 5 + e :
             /\ P(k) \in Nat
             /\ P(k) <= Len(tok)
             /\ Stands(tok, P(k), ms[k])
             /\ P(k + 1) = P(k) + Len(ms[k])
  <2>1. /\ P(1) = 1 + 1
        /\ P(Len(ms) + 1) = 1 + Len(Group("object", ms))
        /\ \A k \in 1 .. Len(ms) :
              /\ P(k) \in Nat
              /\ P(k) <= Len(tok)
              /\ Stands(tok, P(k), ms[k])
              /\ P(k + 1) = P(k) + Len(ms[k])
    BY <1>4, <1>8, <1>9, PlaceSteps
  <2> HIDE DEF P
  <2> QED
    BY <1>1, <1>6, <2>1
<1> HIDE DEF P
<1> DEFINE Turn(s) == IF s.at > Len(tok) THEN s ELSE TopMember(tok, s)
           n == Len(tok)
           IsRun(f) == f = [k \in 0 .. n |-> IF k = 0 THEN At(2, << >>) ELSE Turn(f[k - 1])]
           Rest(k) == IF k < 5 THEN << >> ELSE v
           g == [k \in 0 .. n |-> IF k <= 5 + e THEN At(P(k + 1), Rest(k))
                                   ELSE At(P(5 + e + 1), v)]
           c == CHOOSE f : IsRun(f)
<1>11. Load(tok) = c[n].rec
  BY DEF Load, Loop, At
<1>12. /\ \A i \in Nat : \A r : i <= Len(tok) => Turn(At(i, r)) = TopMember(tok, At(i, r))
       /\ \A i \in Nat : \A r : i > Len(tok) => Turn(At(i, r)) = At(i, r)
  BY <1>9 DEF At
<1> HIDE DEF Turn
<1>13. ASSUME NEW k \in 1 .. 5 + e PROVE Turn(At(P(k), Rest(k - 1))) = At(P(k + 1), Rest(k))
  <2> DEFINE i == P(k)
             q == P(k + 1)
             r == Rest(k - 1)
  <2>1. i \in Nat /\ i <= Len(tok) /\ Stands(tok, i, ms[k]) /\ q = i + Len(ms[k])
    BY <1>10
  <2>2. CASE k = 5
    <3>1. Rest(k) = v
      BY <2>2
    <3> HIDE DEF i, q, r, Rest
    <3>2. ms[k] = Member("exchanges", ar) /\ Len(ms[k]) = 1 + Len(ar) /\ Len(ar) \in Nat \ {0}
      BY <1>3, <1>7, <2>2 DEF IsTop
    <3>3. IsKey(tok, i, "exchanges") /\ Stands(tok, i + 1, ar)
      BY <1>2, <1>4, <1>9, <2>1, <3>2, KeyStands
    <3>4. i + 1 \in Nat /\ q = (i + 1) + Len(ar)
      BY <2>1, <3>2
    <3>5. tok[i + 1].type = "array" /\ Exchanges(tok, i + 1) = At(q, v)
      BY <1>2, <1>9, <3>3, <3>4
    <3>6. TopMember(tok, At(i, r)) = At(q, v)
      BY <1>9, <2>1, <3>3, <3>5, TopIsRead
    <3>7. Turn(At(i, r)) = At(q, v)
      BY <1>12, <2>1, <3>6
    <3> QED
      BY <3>1, <3>7 DEF i, q, r
  <2>3. CASE k # 5
    <3>1. Rest(k) = r
      BY <1>6, <2>3
    <3> HIDE DEF i, q, r, Rest
    <3>2. IsMetadata(V, ms[k]) /\ Len(ms[k]) = 2
      BY <1>3, <1>7, <2>3 DEF IsTop
    <3>3. PICK key : IsKey(tok, i, key) /\ key # "exchanges"
      BY <1>9, <2>1, <3>2 DEF IsMetadata
    <3>4. TopMember(tok, At(i, r)) = At(i + 2, r)
      BY <1>9, <2>1, <3>3, TopIsSkipped
    <3>5. Turn(At(i, r)) = At(q, r)
      BY <1>12, <2>1, <3>2, <3>4
    <3> QED
      BY <3>1, <3>5 DEF i, q, r
  <2> QED
    BY <2>2, <2>3
<1>14. P(5 + e + 1) \in Nat /\ P(5 + e + 1) > n
  BY <1>9, <1>10
<1>15. n > 5 + e
  <2>1. P(2) >= 3 /\ P(3) >= 4 /\ P(4) >= 5 /\ P(5) >= 6
    <3>1. /\ P(1 + 1) = P(1) + Len(ms[1]) /\ P(2 + 1) = P(2) + Len(ms[2])
          /\ P(3 + 1) = P(3) + Len(ms[3]) /\ P(4 + 1) = P(4) + Len(ms[4])
      BY <1>6, <1>10
    <3>2. Len(ms[1]) = 2 /\ Len(ms[2]) = 2 /\ Len(ms[3]) = 2 /\ Len(ms[4]) = 2
      BY <1>6, <1>7
    <3> QED
      BY <1>10, <3>1, <3>2
  <2>2. P(5) \in Nat /\ P(5 + 1) = P(5) + (1 + Len(ar))
    BY <1>6, <1>7, <1>10
  <2>3. P(6) >= 8
    BY <1>7, <2>1, <2>2
  <2>4. CASE e = 0
    BY <1>9, <1>10, <2>3, <2>4
  <2>5. CASE e = 1
    <3>1. P(6) \in Nat /\ P(6 + 1) = P(6) + 2 /\ P(6 + 1) = 1 + n
      <4>1. 6 \in 1 .. 5 + e /\ 5 + e + 1 = 6 + 1
        BY <2>5
      <4>2. P(6) \in Nat /\ P(6 + 1) = P(6) + Len(ms[6]) /\ P(6 + 1) = 1 + n
        BY <1>10, <4>1
      <4>3. Len(ms[6]) = 2
        BY <1>7, <4>1
      <4> QED
        BY <4>2, <4>3
    <3> QED
      BY <1>9, <2>3, <2>5, <3>1
  <2> QED
    BY <1>6, <2>4, <2>5
<1>16. IsRun(g)
  <2>1. ASSUME NEW k \in 0 .. n
        PROVE  g[k] = IF k = 0 THEN At(2, << >>) ELSE Turn(g[k - 1])
    <3>1. CASE k = 0
      <4>1. g[0] = At(P(1), << >>)
        BY <1>6, <1>9
      <4> QED
        BY <1>10, <3>1, <4>1
    <3>2. CASE k \in 1 .. 5 + e
      <4>1. g[k] = At(P(k + 1), Rest(k)) /\ g[k - 1] = At(P(k), Rest(k - 1))
        BY <1>6, <1>9, <3>2
      <4> HIDE DEF g, Rest
      <4> QED
        BY <1>13, <3>2, <4>1
    <3>3. CASE k > 5 + e
      <4>1. g[k] = At(P(5 + e + 1), v)
        BY <1>6, <3>3
      <4>2. g[k - 1] = At(P(5 + e + 1), v)
        <5>1. CASE k - 1 = 5 + e
          BY <1>6, <1>9, <3>3, <5>1
        <5>2. CASE k - 1 # 5 + e
          BY <1>6, <1>9, <3>3, <5>2
        <5> QED
          BY <5>1, <5>2
      <4>3. Turn(At(P(5 + e + 1), v)) = At(P(5 + e + 1), v)
        BY <1>12, <1>14
      <4> HIDE DEF g
      <4> QED
        BY <1>6, <3>3, <4>1, <4>2, <4>3
    <3> QED
      BY <1>6, <1>9, <3>1, <3>2, <3>3
  <2> QED
    BY <2>1
<1>17. IsRun(c)
  <2> HIDE DEF IsRun, g
  <2> QED
    BY <1>16
<1>18. c[n] = g[n]
  <2>1. n \in Nat
    BY <1>9
  <2> HIDE DEF c, g, n
  <2>2. Alike(c, g, n)
    BY <1>16, <1>17, <2>1 DEF Alike
  <2> QED
    BY <2>1, <2>2, SameRuns
<1>19. g[n] = At(P(5 + e + 1), v)
  BY <1>6, <1>9, <1>15
<1>20. c[n].rec = v
  <2> HIDE DEF c, g
  <2> QED
    BY <1>18, <1>19 DEF At
<1> QED
  BY <1>11, <1>20 DEF tok, v

-----------------------------------------------------------------------------
(* The conversion                                                          *)

(***************************************************************************)
(* Append, as IsLonger says it.                                            *)
(***************************************************************************)
LEMMA AppendIs ==
    ASSUME NEW T, NEW p \in Seq(T), NEW b \in T
    PROVE  IsLonger(T, Append(p, b), p, b)
BY DEF IsLonger

(***************************************************************************)
(* A request keeps its bytes and two bytes of its CAN id.                  *)
(***************************************************************************)
LEMMA ParsedIs ==
    ASSUME NEW r \in Sent
    PROVE  /\ r.can_id \in Nat
           /\ r = Request(r.can_id, r.uds)
           /\ Parsed(r) = Request(r.can_id % CanWord, r.uds)
           /\ Parsed(r) \in {Parsed(q) : q \in Sent}
<1>1. r.can_id \in Nat /\ r = [can_id |-> r.can_id, uds |-> r.uds]
  BY RequestsAssumption DEF Sent, NoRequest
<1>2. [r EXCEPT !.can_id = @ % CanWord] = [can_id |-> r.can_id % CanWord, uds |-> r.uds]
  BY <1>1
<1> QED
  BY <1>1, <1>2 DEF Parsed, Request

(***************************************************************************)
(* What is true of a list of exchanges that covers the lines up to to.     *)
(***************************************************************************)
IsPairing(lines, xs, to) ==
    /\ xs \in Seq(Entries)
    /\ \A e \in 1 .. Len(xs) : Follows(lines, xs[e]) /\ Stops(lines, xs[e]) /\ xs[e].line <= to
    /\ \A e, f \in 1 .. Len(xs) : e < f => xs[e].line < xs[f].line

(***************************************************************************)
(* Once the open exchange is collected, the list covers all lines before   *)
(* pos.                                                                    *)
(***************************************************************************)
LEMMA CollectedIs ==
    ASSUME ConverterInv, stage = "pair",
           current # NoOpen => Stops(log, current)
    PROVE  /\ IsPairing(log, Collected, pos - 1)
           /\ \A j \in 1 .. pos - 1 : log[j].dir = "tx" =>
                \E e \in 1 .. Len(Collected) : Collected[e].line = j
<1>1. /\ current \in Entries \cup {NoOpen} /\ exchanges \in Seq(Entries)
      /\ pos \in Nat \ {0} /\ PairedTo = pos - 1
  BY DEF ConverterInv, TypeOK, PairedTo
<1>2. IsPairing(log, exchanges, pos - 1)
  BY <1>1 DEF ConverterInv, ExchangesAreWhole, InLogOrder, IsPairing
<1>3. \A j \in 1 .. pos - 1 : log[j].dir = "tx" =>
         current.line = j \/ \E e \in 1 .. Len(exchanges) : exchanges[e].line = j
  BY <1>1 DEF ConverterInv, RequestsAreKept
<1>4. CASE current = NoOpen
  <2>1. Collected = exchanges /\ current.line = 0
    BY <1>4 DEF Collected, NoOpen
  <2> QED
    BY <1>1, <1>2, <1>3, <2>1
<1>5. CASE current # NoOpen
  <2> DEFINE xs == Append(exchanges, current)
             m == Len(exchanges)
  <2>1. Collected = xs
    BY <1>5 DEF Collected
  <2>2. /\ current \in Entries /\ Follows(log, current) /\ Stops(log, current)
        /\ LastLine(current) = pos - 1
        /\ \A e \in 1 .. Len(exchanges) : exchanges[e].line < current.line
    BY <1>1, <1>5 DEF ConverterInv, OpenReachesPos
  <2>3. current.line \in Nat /\ current.line <= pos - 1
    <3>1. current.line \in Nat /\ Len(current.rx) \in Nat
      BY <2>2 DEF Entries
    <3> QED
      BY <1>1, <2>2, <3>1 DEF LastLine
  <2>4. m \in Nat
    BY <1>1
  <2>5. IsLonger(Entries, xs, exchanges, current)
    BY <1>1, <2>2, AppendIs
  <2> HIDE DEF xs, m
  <2>6. /\ xs \in Seq(Entries) /\ Len(xs) = m + 1 /\ xs[m + 1] = current
        /\ \A i \in 1 .. m : xs[i] = exchanges[i]
    BY <2>5 DEF IsLonger, m
  <2>7. \A e \in 1 .. m + 1 : Follows(log, xs[e]) /\ Stops(log, xs[e]) /\ xs[e].line <= pos - 1
    <3> TAKE e \in 1 .. m + 1
    <3>1. e \in 1 .. m \/ e = m + 1
      BY <2>4
    <3> QED
      BY <1>2, <2>2, <2>3, <2>6, <3>1 DEF IsPairing, m
  <2>8. \A e, f \in 1 .. m + 1 : e < f => xs[e].line < xs[f].line
    <3> TAKE e, f \in 1 .. m + 1
    <3>1. SUFFICES ASSUME e < f PROVE xs[e].line < xs[f].line
      OBVIOUS
    <3>2. e \in 1 .. m /\ (f \in 1 .. m \/ f = m + 1)
      BY <2>4, <3>1
    <3> QED
      BY <1>2, <2>2, <2>6, <3>1, <3>2 DEF IsPairing, m
  <2>9. \A j \in 1 .. pos - 1 : log[j].dir = "tx" => \E e \in 1 .. m + 1 : xs[e].line = j
    <3> TAKE j \in 1 .. pos - 1
    <3>1. SUFFICES ASSUME log[j].dir = "tx" PROVE \E e \in 1 .. m + 1 : xs[e].line = j
      OBVIOUS
    <3>2. CASE current.line = j
      BY <2>4, <2>6, <3>2
    <3>3. CASE \E e \in 1 .. m : exchanges[e].line = j
      <4>1. PICK e \in 1 .. m : exchanges[e].line = j
        BY <3>3
      <4>2. e \in 1 .. m + 1 /\ xs[e].line = j
        BY <2>4, <2>6, <4>1
      <4> QED
        BY <4>2
    <3> QED
      BY <1>3, <3>1, <3>2, <3>3 DEF m
  <2> QED
    BY <2>1, <2>6, <2>7, <2>8, <2>9 DEF IsPairing
<1> QED
  BY <1>4, <1>5

(***************************************************************************)
(* An exchange is closed where it has to be.                               *)
(***************************************************************************)
LEMMA ClosedIsRight ==
    ASSUME ConverterInv, stage = "pair", current # NoOpen,
           pos <= Len(log) => log[pos].dir = "tx" \/ log[pos].ms - current.last > MaxGap
    PROVE  Stops(log, current)
<1>1. /\ Follows(log, current) /\ LastLine(current) = pos - 1 /\ pos \in Nat \ {0}
  BY DEF ConverterInv, OpenReachesPos, TypeOK
<1>2. current.last = log[pos - 1].ms /\ (pos - 1) + 1 = pos
  BY <1>1 DEF Follows
<1> QED
  BY <1>1, <1>2 DEF Stops

(***************************************************************************)
(* A line of the log.                                                      *)
(***************************************************************************)
LEMMA LinesAre ==
    ASSUME TypeOK, NEW i \in 1 .. Len(log)
    PROVE  log[i].ms \in Nat /\ log[i].dir \in {"tx", "rx"} /\ log[i].req \in Sent
<1>1. log[i] \in Lines
  BY DEF TypeOK
<1> QED
  BY <1>1 DEF Lines

(***************************************************************************)
(* The invariant holds at the start.                                       *)
(***************************************************************************)
LEMMA InitHolds == Init => ConverterInv
<1> SUFFICES ASSUME Init PROVE ConverterInv
  OBVIOUS
<1>1. TypeOK
  BY DEF Init, TypeOK
<1>2. StagesInOrder /\ LoaderReadsWhatWasWritten /\ OpenReachesPos
  BY DEF Init, StagesInOrder, LoaderReadsWhatWasWritten, OpenReachesPos
<1>3. ClockSteps /\ ExchangesAreWhole /\ InLogOrder
  BY DEF Init, ClockSteps, ExchangesAreWhole, InLogOrder
<1>4. PairedTo = 0 /\ IndexedTo = 0
  BY DEF Init, PairedTo, IndexedTo
<1>5. RequestsAreKept /\ IndexHasFirsts
  BY <1>4 DEF Init, RequestsAreKept, IndexHasFirsts
<1> QED
  BY <1>1, <1>2, <1>3, <1>5 DEF ConverterInv

(***************************************************************************)
(* The log grows: nothing has been made of it yet.                         *)
(***************************************************************************)
LEMMA WriteKeeps ==
    ASSUME ConverterInv, NEW dir \in {"tx", "rx"}, NEW req \in Sent, NEW step \in Steps,
           Write(dir, req, step)
    PROVE  ConverterInv'
<1> DEFINE l == [ms |-> LastMs + step, dir |-> dir, req |-> req]
           n == Len(log)
<1>1. /\ TypeOK /\ stage = "record" /\ stage' = "record" /\ log' = Append(log, l)
      /\ LastMs + step >= 0
      /\ pos' = pos /\ current' = current /\ exchanges' = exchanges
      /\ index' = index /\ table' = table
  BY DEF ConverterInv, Write
<1>2. /\ log \in Seq(Lines) /\ pos \in Nat \ {0} /\ n \in Nat
      /\ exchanges = << >> /\ index = << >> /\ current = NoOpen /\ table = << >> /\ pos = 1
  BY <1>1 DEF ConverterInv, StagesInOrder, TypeOK
<1>3. LastMs \in Nat /\ step \in Int
  <2>1. n # 0 => log[n].ms \in Nat
    BY <1>1, <1>2, LinesAre
  <2>2. log = << >> \/ n # 0
    BY <1>2
  <2> QED
    BY <2>1, <2>2, WordAssumption DEF LastMs
<1>4. l \in Lines
  BY <1>1, <1>3 DEF Lines
<1>5. l.ms = LastMs + step
  OBVIOUS
<1> HIDE DEF l, n
<1>6. /\ log' \in Seq(Lines) /\ Len(log') = n + 1 /\ log'[n + 1] = l
      /\ \A i \in 1 .. n : log'[i] = log[i]
  BY <1>1, <1>2, <1>4, AppendIs DEF IsLonger, n
<1>7. TypeOK'
  BY <1>1, <1>2, <1>6 DEF TypeOK
<1>8. StagesInOrder' /\ LoaderReadsWhatWasWritten' /\ OpenReachesPos'
  BY <1>1, <1>2 DEF StagesInOrder, LoaderReadsWhatWasWritten, OpenReachesPos
<1>9. ClockSteps'
  <2>1. ASSUME NEW i \in 2 .. n + 1 PROVE log'[i].ms - log'[i - 1].ms \in Steps
    <3>1. CASE i = n + 1
      <4>1. n \in 1 .. n /\ i - 1 = n /\ log # << >>
        BY <1>2, <3>1 DEF n
      <4>2. LastMs = log[n].ms
        BY <4>1 DEF LastMs, n
      <4>3. log'[i].ms - log'[i - 1].ms = (LastMs + step) - LastMs
        BY <1>5, <1>6, <3>1, <4>1, <4>2
      <4> QED
        BY <1>3, <4>3
    <3>2. CASE i # n + 1
      <4>1. i \in 2 .. n /\ i - 1 \in 1 .. n
        BY <1>2, <3>2
      <4>2. log[i].ms - log[i - 1].ms \in Steps
        BY <4>1 DEF ConverterInv, ClockSteps, n
      <4> QED
        BY <1>6, <4>1, <4>2
    <3> QED
      BY <3>1, <3>2
  <2> QED
    BY <1>6, <2>1 DEF ClockSteps
<1>10. ExchangesAreWhole' /\ InLogOrder'
  BY <1>1, <1>2 DEF ExchangesAreWhole, InLogOrder
<1>11. PairedTo' = 0 /\ IndexedTo' = 0
  BY <1>1 DEF PairedTo, IndexedTo
<1>12. RequestsAreKept' /\ IndexHasFirsts'
  BY <1>1, <1>2, <1>11 DEF RequestsAreKept, IndexHasFirsts
<1> QED
  BY <1>7, <1>8, <1>9, <1>10, <1>12 DEF ConverterInv

(***************************************************************************)
(* The first pass begins with nothing.                                     *)
(***************************************************************************)
LEMMA ConvertKeeps ==
    ASSUME ConverterInv, Convert
    PROVE  ConverterInv'
<1>1. /\ TypeOK /\ stage = "record" /\ stage' = "pair"
      /\ log' = log /\ pos' = pos /\ current' = current /\ exchanges' = exchanges
      /\ index' = index /\ table' = table
  BY DEF ConverterInv, Convert
<1>2. /\ log \in Seq(Lines) /\ exchanges = << >> /\ index = << >> /\ current = NoOpen
      /\ table = << >> /\ pos = 1
  BY <1>1 DEF ConverterInv, StagesInOrder, TypeOK
<1>3. TypeOK'
  BY <1>1 DEF TypeOK
<1>4. StagesInOrder' /\ LoaderReadsWhatWasWritten' /\ OpenReachesPos'
  BY <1>1, <1>2 DEF StagesInOrder, LoaderReadsWhatWasWritten, OpenReachesPos
<1>5. ClockSteps' /\ ExchangesAreWhole' /\ InLogOrder'
  BY <1>1, <1>2 DEF ConverterInv, ClockSteps, ExchangesAreWhole, InLogOrder
<1>6. PairedTo' = 0 /\ IndexedTo' = 0
  BY <1>1, <1>2 DEF PairedTo, IndexedTo
<1>7. RequestsAreKept' /\ IndexHasFirsts'
  BY <1>1, <1>2, <1>6 DEF RequestsAreKept, IndexHasFirsts
<1> QED
  BY <1>3, <1>4, <1>5, <1>7 DEF ConverterInv

(***************************************************************************)
(* What a turn of pair_exchanges finds and leaves alone.                   *)
(***************************************************************************)
LEMMA PairingTurn ==
    ASSUME ConverterInv, NEW dir, NextFrame(dir)
    PROVE  /\ TypeOK /\ stage = "pair" /\ stage' = "pair" /\ pos' = pos + 1
           /\ log' = log /\ index' = index /\ table' = table
           /\ pos \in 1 .. Len(log) /\ log[pos].dir = dir
           /\ index = << >> /\ table = << >>
           /\ PairedTo = pos - 1 /\ PairedTo' = pos /\ IndexedTo' = 0
           /\ ClockSteps' /\ StagesInOrder' /\ IndexHasFirsts' /\ LoaderReadsWhatWasWritten'
<1>1. /\ TypeOK /\ stage = "pair" /\ stage' = "pair" /\ pos' = pos + 1
      /\ log' = log /\ index' = index /\ table' = table /\ log[pos].dir = dir
  BY DEF ConverterInv, NextFrame, Frame
<1>2. /\ index = << >> /\ table = << >> /\ pos \in 1 .. Len(log) /\ Len(log) \in Nat
  BY <1>1 DEF ConverterInv, StagesInOrder, TypeOK, NextFrame
<1>3. PairedTo = pos - 1 /\ PairedTo' = pos /\ IndexedTo' = 0
  BY <1>1, <1>2 DEF PairedTo, IndexedTo
<1>4. ClockSteps'
  BY <1>1 DEF ConverterInv, ClockSteps
<1>5. StagesInOrder' /\ LoaderReadsWhatWasWritten'
  BY <1>1, <1>2 DEF StagesInOrder, LoaderReadsWhatWasWritten
<1>6. IndexHasFirsts'
  BY <1>1, <1>2, <1>3 DEF IndexHasFirsts
<1> QED
  BY <1>1, <1>2, <1>3, <1>4, <1>5, <1>6

(***************************************************************************)
(* A request: the open exchange stops here, and a new one opens.           *)
(***************************************************************************)
LEMMA PairTxKeeps ==
    ASSUME ConverterInv, PairTx
    PROVE  ConverterInv'
<1> DEFINE x == [line |-> pos, req |-> Parsed(log[pos].req), rx |-> << >>, last |-> log[pos].ms]
<1>1. NextFrame("tx") /\ exchanges' = Collected /\ current' = x
  BY DEF PairTx, Frame
<1>2. /\ TypeOK /\ stage = "pair" /\ stage' = "pair" /\ pos' = pos + 1
      /\ log' = log /\ index' = index /\ table' = table
      /\ pos \in 1 .. Len(log) /\ log[pos].dir = "tx"
      /\ index = << >> /\ table = << >>
      /\ PairedTo = pos - 1 /\ PairedTo' = pos /\ IndexedTo' = 0
      /\ ClockSteps' /\ StagesInOrder' /\ IndexHasFirsts' /\ LoaderReadsWhatWasWritten'
  BY <1>1, PairingTurn
<1>3. log[pos].ms \in Nat /\ log[pos].req \in Sent /\ Len(log) \in Nat
  BY <1>2, LinesAre DEF TypeOK
<1>4. x \in Entries
  <2>1. Parsed(log[pos].req) \in {Parsed(q) : q \in Sent}
    BY <1>3, ParsedIs
  <2> QED
    BY <1>2, <1>3, <2>1 DEF Entries
<1>5. /\ x.line = pos /\ x.req = Parsed(log[pos].req) /\ Len(x.rx) = 0
      /\ x.last = log[pos].ms /\ LastLine(x) = pos
  BY <1>2 DEF LastLine
<1> HIDE DEF x
<1>6. Follows(log, x)
  BY <1>2, <1>3, <1>5 DEF Follows
<1>7. current # NoOpen => Stops(log, current)
  BY <1>2, ClosedIsRight
<1>8. /\ IsPairing(log, Collected, pos - 1)
      /\ \A j \in 1 .. pos - 1 : log[j].dir = "tx" =>
           \E e \in 1 .. Len(Collected) : Collected[e].line = j
  BY <1>2, <1>7, CollectedIs
<1> DEFINE xs == Collected
<1>9. exchanges' = xs
  BY <1>1
<1> HIDE DEF xs
<1>10. /\ xs \in Seq(Entries)
       /\ \A e \in 1 .. Len(xs) : Follows(log, xs[e]) /\ Stops(log, xs[e]) /\ xs[e].line <= pos - 1
       /\ \A e, f \in 1 .. Len(xs) : e < f => xs[e].line < xs[f].line
       /\ \A j \in 1 .. pos - 1 : log[j].dir = "tx" => \E e \in 1 .. Len(xs) : xs[e].line = j
  BY <1>8 DEF IsPairing, xs
<1>11. \A e \in 1 .. Len(xs) : xs[e].line \in Nat
  <2>1. \A e \in 1 .. Len(xs) : xs[e] \in Entries
    BY <1>10
  <2> QED
    BY <2>1 DEF Entries
<1>12. TypeOK'
  BY <1>1, <1>2, <1>4, <1>9, <1>10 DEF TypeOK
<1>13. ExchangesAreWhole'
  BY <1>2, <1>9, <1>10, <1>11 DEF ExchangesAreWhole
<1>14. InLogOrder'
  BY <1>9, <1>10 DEF InLogOrder
<1>15. OpenReachesPos'
  <2>1. \A e \in 1 .. Len(xs) : xs[e].line < pos
    BY <1>2, <1>10, <1>11
  <2> QED
    BY <1>1, <1>2, <1>5, <1>6, <1>9, <2>1 DEF OpenReachesPos
<1>16. RequestsAreKept'
  <2>1. \A j \in 1 .. pos : j = pos \/ j \in 1 .. pos - 1
    BY <1>2
  <2> QED
    BY <1>1, <1>2, <1>5, <1>9, <1>10, <2>1 DEF RequestsAreKept
<1> QED
  BY <1>2, <1>12, <1>13, <1>14, <1>15, <1>16 DEF ConverterInv

(***************************************************************************)
(* A reply that belongs to no request: no exchange is open.                *)
(***************************************************************************)
LEMMA PairFloatingKeeps ==
    ASSUME ConverterInv, PairFloating
    PROVE  ConverterInv'
<1>1. NextFrame("rx") /\ current = NoOpen /\ current' = current /\ exchanges' = exchanges
  BY DEF PairFloating
<1>2. /\ TypeOK /\ stage = "pair" /\ stage' = "pair" /\ pos' = pos + 1
      /\ log' = log /\ index' = index /\ table' = table
      /\ pos \in 1 .. Len(log) /\ log[pos].dir = "rx"
      /\ PairedTo = pos - 1 /\ PairedTo' = pos
      /\ ClockSteps' /\ StagesInOrder' /\ IndexHasFirsts' /\ LoaderReadsWhatWasWritten'
  BY <1>1, PairingTurn
<1>3. TypeOK'
  BY <1>1, <1>2 DEF TypeOK
<1>4. \A e \in 1 .. Len(exchanges) : exchanges[e].line \in Nat
  <2>1. \A e \in 1 .. Len(exchanges) : exchanges[e] \in Entries
    BY <1>2 DEF TypeOK
  <2> QED
    BY <2>1 DEF Entries
<1>5. ExchangesAreWhole'
  BY <1>1, <1>2, <1>4 DEF ConverterInv, ExchangesAreWhole
<1>6. InLogOrder' /\ OpenReachesPos'
  BY <1>1, <1>2 DEF ConverterInv, InLogOrder, OpenReachesPos
<1>7. RequestsAreKept'
  <2>1. \A j \in 1 .. pos : j = pos \/ j \in 1 .. pos - 1
    BY <1>2
  <2> QED
    BY <1>1, <1>2, <2>1 DEF ConverterInv, RequestsAreKept
<1> QED
  BY <1>2, <1>3, <1>5, <1>6, <1>7 DEF ConverterInv

(***************************************************************************)
(* A reply after a gap: the open exchange stops here.                      *)
(***************************************************************************)
LEMMA PairAfterGapKeeps ==
    ASSUME ConverterInv, PairAfterGap
    PROVE  ConverterInv'
<1>1. /\ NextFrame("rx") /\ current # NoOpen /\ exchanges' = Collected /\ current' = NoOpen
      /\ log[pos].ms - current.last > MaxGap
  BY DEF PairAfterGap, TooLate, Gap, Frame
<1>2. /\ TypeOK /\ stage = "pair" /\ stage' = "pair" /\ pos' = pos + 1
      /\ log' = log /\ index' = index /\ table' = table
      /\ pos \in 1 .. Len(log) /\ log[pos].dir = "rx"
      /\ PairedTo = pos - 1 /\ PairedTo' = pos
      /\ ClockSteps' /\ StagesInOrder' /\ IndexHasFirsts' /\ LoaderReadsWhatWasWritten'
  BY <1>1, PairingTurn
<1>3. Stops(log, current)
  BY <1>1, <1>2, ClosedIsRight
<1>4. /\ IsPairing(log, Collected, pos - 1)
      /\ \A j \in 1 .. pos - 1 : log[j].dir = "tx" =>
           \E e \in 1 .. Len(Collected) : Collected[e].line = j
  BY <1>2, <1>3, CollectedIs
<1> DEFINE xs == Collected
<1>5. exchanges' = xs
  BY <1>1
<1> HIDE DEF xs
<1>6. /\ xs \in Seq(Entries)
      /\ \A e \in 1 .. Len(xs) : Follows(log, xs[e]) /\ Stops(log, xs[e]) /\ xs[e].line <= pos - 1
      /\ \A e, f \in 1 .. Len(xs) : e < f => xs[e].line < xs[f].line
      /\ \A j \in 1 .. pos - 1 : log[j].dir = "tx" => \E e \in 1 .. Len(xs) : xs[e].line = j
  BY <1>4 DEF IsPairing, xs
<1>7. \A e \in 1 .. Len(xs) : xs[e].line \in Nat
  <2>1. \A e \in 1 .. Len(xs) : xs[e] \in Entries
    BY <1>6
  <2> QED
    BY <2>1 DEF Entries
<1>8. TypeOK'
  BY <1>1, <1>2, <1>5, <1>6 DEF TypeOK
<1>9. ExchangesAreWhole'
  BY <1>2, <1>5, <1>6, <1>7 DEF ExchangesAreWhole
<1>10. InLogOrder' /\ OpenReachesPos'
  BY <1>1, <1>5, <1>6 DEF InLogOrder, OpenReachesPos
<1>11. RequestsAreKept'
  <2>1. \A j \in 1 .. pos : j = pos \/ j \in 1 .. pos - 1
    BY <1>2
  <2> QED
    BY <1>2, <1>5, <1>6, <2>1 DEF RequestsAreKept
<1> QED
  BY <1>2, <1>8, <1>9, <1>10, <1>11 DEF ConverterInv

Extension(c, y, t) == [c EXCEPT !.rx = y, !.last = t]

(***************************************************************************)
(* An exchange with other replies.                                         *)
(***************************************************************************)
LEMMA ExtendedIs ==
    ASSUME NEW c \in Entries, NEW y \in Seq([line : Nat, delay : Int]), NEW t \in Int
    PROVE  Extension(c, y, t) = [line |-> c.line, req |-> c.req, rx |-> y, last |-> t]
<1> DEFINE A == Nat \ {0}
           B == {Parsed(q) : q \in Sent}
           C == Seq([line : Nat, delay : Int])
           x == [c EXCEPT !.rx = y, !.last = t]
<1>1. c \in [line : A, req : B, rx : C, last : Int] /\ y \in C
  BY DEF Entries
<1> HIDE DEF A, B, C
<1>2. x \in [line : A, req : B, rx : C, last : Int]
  BY <1>1
<1>3. x.rx = y /\ x.last = t /\ x.line = c.line /\ x.req = c.req
  BY <1>1
<1> HIDE DEF x
<1>4. x = [line |-> x.line, req |-> x.req, rx |-> x.rx, last |-> x.last]
  BY <1>2
<1> QED
  BY <1>3, <1>4 DEF x, Extension

(***************************************************************************)
(* A reply is taken: the open exchange reaches one line further.           *)
(***************************************************************************)
LEMMA PairRxKeeps ==
    ASSUME ConverterInv, PairRx
    PROVE  ConverterInv'
<1> DEFINE d == log[pos].ms - current.last
           r == [line |-> pos, delay |-> d]
           y == Append(current.rx, r)
           x == [current EXCEPT !.rx = y, !.last = log[pos].ms]
           n == Len(current.rx)
<1>1. /\ NextFrame("rx") /\ current # NoOpen /\ exchanges' = exchanges
      /\ current' = x /\ ~ (d > MaxGap)
  BY DEF PairRx, Extended, TooLate, Gap, Frame
<1>2. /\ TypeOK /\ stage = "pair" /\ stage' = "pair" /\ pos' = pos + 1
      /\ log' = log /\ index' = index /\ table' = table
      /\ pos \in 1 .. Len(log) /\ log[pos].dir = "rx"
      /\ PairedTo = pos - 1 /\ PairedTo' = pos
      /\ ClockSteps' /\ StagesInOrder' /\ IndexHasFirsts' /\ LoaderReadsWhatWasWritten'
  BY <1>1, PairingTurn
<1>3. /\ current \in Entries
      /\ Follows(log, current) /\ LastLine(current) = pos - 1
      /\ \A e \in 1 .. Len(exchanges) : exchanges[e].line < current.line
  BY <1>1, <1>2 DEF ConverterInv, OpenReachesPos, TypeOK
<1>4. /\ current = [line |-> current.line, req |-> current.req, rx |-> current.rx, last |-> current.last]
      /\ current.line \in Nat \ {0} /\ current.last \in Int
      /\ current.rx \in Seq([line : Nat, delay : Int])
      /\ current.req \in {Parsed(q) : q \in Sent}
  BY <1>3 DEF Entries
<1>5. n \in Nat /\ current.line + n = pos - 1 /\ log[pos].ms \in Nat /\ d \in Int /\ d <= MaxGap
  <2>1. MaxGap \in Nat
    BY WordAssumption, DelayWordAssumption
  <2>2. log[pos].ms \in Nat /\ n \in Nat
    BY <1>2, <1>4, LinesAre
  <2> QED
    BY <1>1, <1>3, <1>4, <2>1, <2>2 DEF LastLine
<1>6. r \in [line : Nat, delay : Int]
  BY <1>2, <1>5
<1>7. IsLonger([line : Nat, delay : Int], y, current.rx, r)
  BY <1>4, <1>6, AppendIs
<1> HIDE DEF y, r
<1>8. /\ y \in Seq([line : Nat, delay : Int]) /\ Len(y) = n + 1 /\ y[n + 1] = r
      /\ \A i \in 1 .. n : y[i] = current.rx[i]
  BY <1>7 DEF IsLonger
<1>9. x = [line |-> current.line, req |-> current.req, rx |-> y, last |-> log[pos].ms]
  <2>1. x = Extension(current, y, log[pos].ms)
    BY DEF Extension
  <2>2. y \in Seq([line : Nat, delay : Int]) /\ log[pos].ms \in Int
    BY <1>5, <1>8
  <2> QED
    BY <1>3, <2>1, <2>2, ExtendedIs
<1>10. /\ x.line = current.line /\ x.req = current.req /\ x.rx = y /\ x.last = log[pos].ms
       /\ x \in Entries
  BY <1>4, <1>5, <1>8, <1>9 DEF Entries
<1> HIDE DEF x, n, d
<1>11. LastLine(x) = pos /\ x # NoOpen
  <2>1. LastLine(x) = current.line + (n + 1)
    BY <1>8, <1>10 DEF LastLine
  <2>2. current.line + (n + 1) = pos
    BY <1>2, <1>4, <1>5
  <2> QED
    BY <1>4, <1>10, <2>1, <2>2 DEF NoOpen
<1>12. Follows(log, x)
  <2>1. /\ log[current.line].dir = "tx" /\ current.req = Parsed(log[current.line].req)
        /\ \A m \in 1 .. n : IsReply(log, current.line + m, current.rx[m])
        /\ current.last = log[LastLine(current)].ms
    BY <1>3 DEF Follows, n
  <2>2. IsReply(log, pos, r)
    <3>1. d = log[pos].ms - log[pos - 1].ms
      BY <1>3, <2>1 DEF d
    <3> QED
      BY <1>2, <1>5, <3>1 DEF IsReply, r
  <2>3. ASSUME NEW m \in 1 .. n + 1
        PROVE  IsReply(log, current.line + m, y[m])
    <3>1. CASE m = n + 1
      <4>1. current.line + m = pos
        BY <1>2, <1>4, <1>5, <3>1
      <4> QED
        BY <1>8, <2>2, <3>1, <4>1
    <3>2. CASE m # n + 1
      <4>1. m \in 1 .. n
        BY <1>5, <3>2
      <4> QED
        BY <1>8, <2>1, <4>1
    <3> QED
      BY <3>1, <3>2
  <2>4. Len(x.rx) = n + 1
    BY <1>8, <1>10
  <2>5. LastLine(x) <= Len(log)
    BY <1>2, <1>11
  <2>6. \A m \in 1 .. Len(x.rx) : IsReply(log, x.line + m, x.rx[m])
    BY <1>10, <2>3, <2>4
  <2>7. /\ log[x.line].dir = "tx" /\ x.req = Parsed(log[x.line].req)
        /\ x.last = log[LastLine(x)].ms
    BY <1>10, <1>11, <2>1
  <2> QED
    BY <2>5, <2>6, <2>7 DEF Follows
<1>13. TypeOK'
  BY <1>1, <1>2, <1>10 DEF TypeOK
<1>14. \A e \in 1 .. Len(exchanges) : exchanges[e].line \in Nat
  <2>1. \A e \in 1 .. Len(exchanges) : exchanges[e] \in Entries
    BY <1>2 DEF TypeOK
  <2> QED
    BY <2>1 DEF Entries
<1>15. ExchangesAreWhole'
  BY <1>1, <1>2, <1>14 DEF ConverterInv, ExchangesAreWhole
<1>16. InLogOrder'
  BY <1>1 DEF ConverterInv, InLogOrder
<1>17. OpenReachesPos'
  <2>1. LastLine(x) = (pos + 1) - 1
    BY <1>2, <1>11
  <2> QED
    BY <1>1, <1>2, <1>3, <1>10, <1>12, <2>1 DEF OpenReachesPos
<1>18. RequestsAreKept'
  <2>1. \A j \in 1 .. pos : j = pos \/ j \in 1 .. pos - 1
    BY <1>2
  <2> QED
    BY <1>1, <1>2, <1>10, <2>1 DEF ConverterInv, RequestsAreKept
<1> QED
  BY <1>2, <1>13, <1>15, <1>16, <1>17, <1>18 DEF ConverterInv

(***************************************************************************)
(* The end of the log stops the open exchange, and the index begins empty. *)
(***************************************************************************)
LEMMA EndPairingKeeps ==
    ASSUME ConverterInv, EndPairing
    PROVE  ConverterInv'
<1>1. /\ TypeOK /\ stage = "pair" /\ stage' = "index" /\ pos > Len(log) /\ pos' = 1
      /\ exchanges' = Collected /\ current' = NoOpen
      /\ log' = log /\ index' = index /\ table' = table
  BY DEF ConverterInv, EndPairing
<1>2. /\ pos = Len(log) + 1 /\ Len(log) \in Nat /\ index = << >> /\ table = << >>
  BY <1>1 DEF ConverterInv, StagesInOrder, TypeOK
<1>3. current # NoOpen => Stops(log, current)
  BY <1>1, <1>2, ClosedIsRight
<1>4. /\ IsPairing(log, Collected, pos - 1)
      /\ \A j \in 1 .. pos - 1 : log[j].dir = "tx" =>
           \E e \in 1 .. Len(Collected) : Collected[e].line = j
  BY <1>1, <1>3, CollectedIs
<1> DEFINE xs == Collected
<1>5. exchanges' = xs
  BY <1>1
<1> HIDE DEF xs
<1>6. /\ xs \in Seq(Entries)
      /\ \A e \in 1 .. Len(xs) : Follows(log, xs[e]) /\ Stops(log, xs[e]) /\ xs[e].line <= Len(log)
      /\ \A e, f \in 1 .. Len(xs) : e < f => xs[e].line < xs[f].line
      /\ \A j \in 1 .. Len(log) : log[j].dir = "tx" => \E e \in 1 .. Len(xs) : xs[e].line = j
  <2>1. pos - 1 = Len(log)
    BY <1>2
  <2> QED
    BY <1>4, <2>1 DEF IsPairing, xs
<1>7. PairedTo' = Len(log) /\ IndexedTo' = 0
  BY <1>1 DEF PairedTo, IndexedTo
<1>8. TypeOK'
  BY <1>1, <1>5, <1>6 DEF TypeOK
<1>9. StagesInOrder' /\ LoaderReadsWhatWasWritten' /\ OpenReachesPos'
  <2>1. Len(xs) \in Nat
    BY <1>6
  <2> QED
    BY <1>1, <1>2, <1>5, <2>1 DEF StagesInOrder, LoaderReadsWhatWasWritten, OpenReachesPos
<1>10. ClockSteps'
  BY <1>1 DEF ConverterInv, ClockSteps
<1>11. ExchangesAreWhole' /\ InLogOrder' /\ RequestsAreKept'
  BY <1>1, <1>5, <1>6, <1>7 DEF ExchangesAreWhole, InLogOrder, RequestsAreKept
<1>12. IndexHasFirsts'
  BY <1>1, <1>2, <1>7 DEF IndexHasFirsts
<1> QED
  BY <1>8, <1>9, <1>10, <1>11, <1>12 DEF ConverterInv

(***************************************************************************)
(* What the passes after pairing leave alone.                              *)
(***************************************************************************)
LEMMA AfterPairing ==
    ASSUME ConverterInv, stage \in {"index", "write"}, stage' \in {"index", "write", "done"},
           log' = log, current' = current, exchanges' = exchanges
    PROVE  /\ PairedTo' = PairedTo /\ current = NoOpen
           /\ ClockSteps' /\ ExchangesAreWhole' /\ InLogOrder' /\ OpenReachesPos'
           /\ RequestsAreKept'
<1>1. PairedTo' = PairedTo
  BY DEF PairedTo
<1>2. current = NoOpen
  BY DEF ConverterInv, StagesInOrder
<1>3. ClockSteps' /\ ExchangesAreWhole' /\ InLogOrder' /\ OpenReachesPos' /\ RequestsAreKept'
  BY <1>1, <1>2
     DEF ConverterInv, ClockSteps, ExchangesAreWhole, InLogOrder, OpenReachesPos, RequestsAreKept
<1> QED
  BY <1>1, <1>2, <1>3

(***************************************************************************)
(* ix has the first of xs[1 .. to] for every request, once.                *)
(***************************************************************************)
HasFirsts(ix, xs, to) ==
    /\ \A k \in 1 .. Len(ix) : \E e \in 1 .. to :
          /\ ix[k] = xs[e]
          /\ \A f \in 1 .. e - 1 : xs[f].req # xs[e].req
    /\ \A e \in 1 .. to : \E k \in 1 .. Len(ix) : ix[k].req = xs[e].req
    /\ \A k, m \in 1 .. Len(ix) : ix[k].req = ix[m].req => k = m

(***************************************************************************)
(* The index takes an exchange when it has none of that request.           *)
(***************************************************************************)
LEMMA KeepFirstKeeps ==
    ASSUME ConverterInv, KeepFirst
    PROVE  ConverterInv'
<1> DEFINE x == exchanges[pos]
           m == Len(index)
<1>1. /\ TypeOK /\ stage = "index" /\ stage' = "index" /\ pos' = pos + 1
      /\ index' = Kept(x) /\ log' = log /\ current' = current
      /\ exchanges' = exchanges /\ table' = table
  BY DEF ConverterInv, KeepFirst
<1>2. /\ pos \in 1 .. Len(exchanges) /\ Len(exchanges) \in Nat
      /\ exchanges \in Seq(Entries) /\ index \in Seq(Entries) /\ x \in Entries
      /\ m \in Nat /\ current = NoOpen /\ table = << >>
      /\ IndexedTo = pos - 1 /\ IndexedTo' = pos
  <2>1. pos \in 1 .. Len(exchanges) /\ exchanges \in Seq(Entries) /\ index \in Seq(Entries)
        /\ Len(exchanges) \in Nat
    BY DEF ConverterInv, KeepFirst, TypeOK
  <2>2. IndexedTo = pos - 1 /\ IndexedTo' = pos
    BY <1>1, <2>1 DEF IndexedTo
  <2> QED
    BY <1>1, <2>1, <2>2 DEF ConverterInv, StagesInOrder
<1>3. /\ ClockSteps' /\ ExchangesAreWhole' /\ InLogOrder' /\ OpenReachesPos' /\ RequestsAreKept'
  BY <1>1, AfterPairing
<1>4. /\ \A k \in 1 .. m : \E e \in 1 .. pos - 1 :
           /\ index[k] = exchanges[e]
           /\ \A f \in 1 .. e - 1 : exchanges[f].req # exchanges[e].req
      /\ \A e \in 1 .. pos - 1 : \E k \in 1 .. m : index[k].req = exchanges[e].req
      /\ \A k, l \in 1 .. m : index[k].req = index[l].req => k = l
  BY <1>2 DEF ConverterInv, IndexHasFirsts
<1>5. StagesInOrder' /\ LoaderReadsWhatWasWritten'
  BY <1>1, <1>2 DEF StagesInOrder, LoaderReadsWhatWasWritten
<1>6. index' \in Seq(Entries)
  BY <1>1, <1>2 DEF Kept
<1>7. TypeOK'
  BY <1>1, <1>2, <1>6 DEF TypeOK
<1>8. \A e \in 1 .. pos : e = pos \/ e \in 1 .. pos - 1
  BY <1>2
<1>9. CASE \E k \in DOMAIN index : index[k].req = x.req
  <2>1. index' = index /\ \E k \in 1 .. m : index[k].req = x.req
    BY <1>1, <1>2, <1>9 DEF Kept
  <2>2. \A k \in 1 .. m : \E e \in 1 .. pos :
           /\ index[k] = exchanges[e]
           /\ \A f \in 1 .. e - 1 : exchanges[f].req # exchanges[e].req
    <3> TAKE k \in 1 .. m
    <3>1. PICK e \in 1 .. pos - 1 :
            /\ index[k] = exchanges[e]
            /\ \A f \in 1 .. e - 1 : exchanges[f].req # exchanges[e].req
      BY <1>4
    <3>2. e \in 1 .. pos
      BY <1>2
    <3> QED
      BY <3>1, <3>2
  <2>3. \A e \in 1 .. pos : \E k \in 1 .. m : index[k].req = exchanges[e].req
    BY <1>4, <1>8, <2>1
  <2>4. HasFirsts(index, exchanges, pos)
    BY <1>4, <2>2, <2>3 DEF HasFirsts
  <2>5. IndexHasFirsts'
    BY <1>1, <1>2, <2>1, <2>4 DEF HasFirsts, IndexHasFirsts
  <2> QED
    BY <1>3, <1>5, <1>7, <2>5 DEF ConverterInv
<1>10. CASE ~ \E k \in DOMAIN index : index[k].req = x.req
  <2> DEFINE y == Append(index, x)
  <2>1. index' = y /\ \A k \in 1 .. m : index[k].req # x.req
    BY <1>1, <1>2, <1>10 DEF Kept
  <2>2. IsLonger(Entries, y, index, x)
    BY <1>2, AppendIs
  <2> HIDE DEF y
  <2>3. Len(y) = m + 1 /\ y[m + 1] = x /\ \A k \in 1 .. m : y[k] = index[k]
    BY <2>2 DEF IsLonger
  <2> HIDE DEF m
  <2>4. \A k \in 1 .. m + 1 : k = m + 1 \/ k \in 1 .. m
    BY <1>2
  <2>5. \A k \in 1 .. m + 1 : \E e \in 1 .. pos :
           /\ y[k] = exchanges[e]
           /\ \A f \in 1 .. e - 1 : exchanges[f].req # exchanges[e].req
    <3> TAKE k \in 1 .. m + 1
    <3>1. CASE k = m + 1
      <4>1. \A f \in 1 .. pos - 1 : exchanges[f].req # exchanges[pos].req
        BY <1>4, <2>1
      <4>2. pos \in 1 .. pos /\ y[k] = exchanges[pos]
        BY <1>2, <2>3, <3>1
      <4> QED
        BY <4>1, <4>2
    <3>2. CASE k \in 1 .. m
      <4>1. PICK e \in 1 .. pos - 1 :
              /\ index[k] = exchanges[e]
              /\ \A f \in 1 .. e - 1 : exchanges[f].req # exchanges[e].req
        BY <1>4, <3>2
      <4>2. e \in 1 .. pos /\ y[k] = exchanges[e]
        BY <1>2, <2>3, <3>2, <4>1
      <4> QED
        BY <4>1, <4>2
    <3> QED
      BY <2>4, <3>1, <3>2
  <2>6. \A e \in 1 .. pos : \E k \in 1 .. m + 1 : y[k].req = exchanges[e].req
    <3> TAKE e \in 1 .. pos
    <3>1. CASE e = pos
      <4>1. m + 1 \in 1 .. m + 1 /\ y[m + 1].req = exchanges[e].req
        BY <1>2, <2>3, <3>1
      <4> QED
        BY <4>1
    <3>2. CASE e \in 1 .. pos - 1
      <4>1. PICK k \in 1 .. m : index[k].req = exchanges[e].req
        BY <1>4, <3>2
      <4>2. k \in 1 .. m + 1 /\ y[k].req = exchanges[e].req
        BY <1>2, <2>3, <4>1
      <4> QED
        BY <4>2
    <3> QED
      BY <1>8, <3>1, <3>2
  <2>7. \A k, l \in 1 .. m + 1 : y[k].req = y[l].req => k = l
    BY <1>4, <2>1, <2>3, <2>4
  <2>8. HasFirsts(y, exchanges, pos)
    BY <2>3, <2>5, <2>6, <2>7 DEF HasFirsts
  <2>9. IndexHasFirsts'
    BY <1>1, <1>2, <2>1, <2>8 DEF HasFirsts, IndexHasFirsts
  <2> QED
    BY <1>3, <1>5, <1>7, <2>9 DEF ConverterInv
<1> QED
  BY <1>9, <1>10

(***************************************************************************)
(* The index is complete.                                                  *)
(***************************************************************************)
LEMMA EndIndexingKeeps ==
    ASSUME ConverterInv, EndIndexing
    PROVE  ConverterInv'
<1>1. /\ TypeOK /\ stage = "index" /\ stage' = "write" /\ pos > Len(exchanges)
      /\ UNCHANGED <<log, pos, current, exchanges, index, table>>
  BY DEF ConverterInv, EndIndexing
<1>2. pos = Len(exchanges) + 1 /\ Len(exchanges) \in Nat /\ current = NoOpen /\ table = << >>
  BY <1>1 DEF ConverterInv, StagesInOrder, TypeOK
<1>3. /\ ClockSteps' /\ ExchangesAreWhole' /\ InLogOrder' /\ OpenReachesPos' /\ RequestsAreKept'
  BY <1>1, AfterPairing
<1>4. TypeOK' /\ StagesInOrder' /\ LoaderReadsWhatWasWritten'
  BY <1>1, <1>2 DEF TypeOK, StagesInOrder, LoaderReadsWhatWasWritten
<1>5. IndexedTo' = IndexedTo
  BY <1>1, <1>2 DEF IndexedTo
<1>6. IndexHasFirsts'
  BY <1>1, <1>5 DEF ConverterInv, IndexHasFirsts
<1> QED
  BY <1>3, <1>4, <1>6 DEF ConverterInv

(***************************************************************************)
(* The texts of every document the converter can write.                    *)
(***************************************************************************)
Texts ==
    {"note", "can_id", "uds", "delay_ms", "tx", "rx", "exchanges", "recording_id",
     "captured_at", "vehicle_profile", "source_log"}
    \cup {NoText, NoBytes} \cup Int \cup {<<i>> : i \in Nat} \cup {r.uds : r \in Sent}

(***************************************************************************)
(* What the converter writes is a document of these texts.                 *)
(***************************************************************************)
LEMMA EntriesAreExchanges ==
    ASSUME NEW xs \in Seq(Entries)
    PROVE  HasWords(Texts) /\ HasExchanges(Texts, xs)
<1>1. HasWords(Texts)
  BY DEF HasWords, Texts
<1>2. ASSUME NEW x \in Entries PROVE HasExchange(Texts, x)
  <2>1. /\ x.rx \in Seq([line : Nat, delay : Int])
        /\ x.req \in {Parsed(q) : q \in Sent}
    BY DEF Entries
  <2>2. PICK q \in Sent : x.req = Parsed(q)
    BY <2>1
  <2>3. q.can_id % CanWord \in Int
    BY ParsedIs, WordAssumption
  <2>4. /\ x.req = Request(q.can_id % CanWord, q.uds)
        /\ x.req.can_id = q.can_id % CanWord /\ x.req.uds = q.uds
    BY <2>2, ParsedIs DEF Request
  <2>5. x.req.can_id \in Texts /\ x.req.uds \in Texts
    BY <2>3, <2>4 DEF Texts
  <2>6. HasReplies(Texts, x.rx)
    <3>1. Len(x.rx) \in Nat /\ DOMAIN x.rx = 1 .. Len(x.rx)
      BY <2>1
    <3>2. \A n \in 1 .. Len(x.rx) : x.rx[n].line \in Nat /\ x.rx[n].delay \in Int
      <4> DEFINE R == [line : Nat, delay : Int]
                 rx == x.rx
      <4>1. rx \in Seq(R)
        BY <2>1
      <4> HIDE DEF R, rx
      <4>2. \A n \in 1 .. Len(rx) : rx[n] \in R
        BY <4>1
      <4> USE DEF R, rx
      <4> QED
        BY <4>2
    <3>3. \A n \in 1 .. Len(x.rx) : <<x.rx[n].line>> \in Texts /\ x.rx[n].delay \in Texts
      BY <3>2 DEF Texts
    <3> QED
      BY <3>1, <3>3 DEF HasReplies
  <2> QED
    BY <2>4, <2>5, <2>6 DEF HasExchange
<1>3. Len(xs) \in Nat /\ DOMAIN xs = 1 .. Len(xs) /\ \A k \in 1 .. Len(xs) : xs[k] \in Entries
  OBVIOUS
<1> QED
  BY <1>1, <1>2, <1>3 DEF HasExchanges

(***************************************************************************)
(* The loader reads the document.                                          *)
(***************************************************************************)
LEMMA LoadRecordingKeeps ==
    ASSUME ConverterInv, LoadRecording
    PROVE  ConverterInv'
<1>1. /\ TypeOK /\ stage = "write" /\ stage' = "done"
      /\ UNCHANGED <<log, pos, current, exchanges, index>>
  BY DEF ConverterInv, LoadRecording
<1>2. PICK strays : table' = Load(Document(index, strays))
  BY DEF LoadRecording
<1>3. table' = LoadedTable(index)
  <2>1. index \in Seq(Entries)
    BY <1>1 DEF TypeOK
  <2>2. HasWords(Texts) /\ HasExchanges(Texts, index)
    BY <2>1, EntriesAreExchanges
  <2> QED
    BY <1>2, <2>2, LoadIs
<1>4. LoaderReadsWhatWasWritten'
  BY <1>1, <1>3 DEF LoaderReadsWhatWasWritten, LoadedTable
<1>5. /\ ClockSteps' /\ ExchangesAreWhole' /\ InLogOrder' /\ OpenReachesPos' /\ RequestsAreKept'
  BY <1>1, AfterPairing
<1>6. TypeOK' /\ StagesInOrder'
  BY <1>1 DEF ConverterInv, TypeOK, StagesInOrder
<1>7. IndexedTo' = IndexedTo
  BY <1>1 DEF IndexedTo
<1>8. IndexHasFirsts'
  BY <1>1, <1>7 DEF ConverterInv, IndexHasFirsts
<1> QED
  BY <1>4, <1>5, <1>6, <1>8 DEF ConverterInv

(***************************************************************************)
(* Every step keeps the invariant.                                         *)
(***************************************************************************)
LEMMA StepKeeps == ConverterInv /\ [Next]_vars => ConverterInv'
<1> SUFFICES ASSUME ConverterInv, [Next]_vars PROVE ConverterInv'
  OBVIOUS
<1>1. ASSUME NEW req \in Requests, NEW step \in Steps, Write("tx", req, step)
      PROVE  ConverterInv'
  BY <1>1, WriteKeeps DEF Sent
<1>2. ASSUME NEW step \in Steps, Write("rx", NoRequest, step) PROVE ConverterInv'
  BY <1>2, WriteKeeps DEF Sent
<1>3. CASE Convert
  BY <1>3, ConvertKeeps
<1>4. CASE PairTx
  BY <1>4, PairTxKeeps
<1>5. CASE PairFloating
  BY <1>5, PairFloatingKeeps
<1>6. CASE PairAfterGap
  BY <1>6, PairAfterGapKeeps
<1>7. CASE PairRx
  BY <1>7, PairRxKeeps
<1>8. CASE EndPairing
  BY <1>8, EndPairingKeeps
<1>9. CASE KeepFirst
  BY <1>9, KeepFirstKeeps
<1>10. CASE EndIndexing
  BY <1>10, EndIndexingKeeps
<1>11. CASE LoadRecording
  BY <1>11, LoadRecordingKeeps
<1>12. CASE UNCHANGED vars
  <2>1. /\ log' = log /\ stage' = stage /\ pos' = pos /\ current' = current
        /\ exchanges' = exchanges /\ index' = index /\ table' = table
    BY <1>12 DEF vars
  <2>2. PairedTo' = PairedTo /\ IndexedTo' = IndexedTo
    BY <2>1 DEF PairedTo, IndexedTo
  <2>3. TypeOK' /\ StagesInOrder' /\ LoaderReadsWhatWasWritten' /\ ClockSteps'
    BY <2>1 DEF ConverterInv, TypeOK, StagesInOrder, LoaderReadsWhatWasWritten, ClockSteps
  <2>4. ExchangesAreWhole' /\ InLogOrder' /\ OpenReachesPos'
    BY <2>1, <2>2 DEF ConverterInv, ExchangesAreWhole, InLogOrder, OpenReachesPos
  <2>5. RequestsAreKept' /\ IndexHasFirsts'
    BY <2>1, <2>2 DEF ConverterInv, RequestsAreKept, IndexHasFirsts
  <2> QED
    BY <2>3, <2>4, <2>5 DEF ConverterInv
<1> QED
  BY <1>1, <1>2, <1>3, <1>4, <1>5, <1>6, <1>7, <1>8, <1>9, <1>10, <1>11, <1>12 DEF Next

-----------------------------------------------------------------------------
(* Theorems                                                                *)

(***************************************************************************)
(* The invariant of the conversion holds in every reachable state, for     *)
(* logs of every length and documents with any unknown members.            *)
(***************************************************************************)
THEOREM ConversionInvariance == Spec => []ConverterInv
<1> QED
  BY InitHolds, StepKeeps, PTL DEF Spec

(***************************************************************************)
(* recording_load finds the exchanges the converter wrote, with all their  *)
(* replies in order, wherever members it does not know were added to the   *)
(* document (recording.c:122-206).                                         *)
(***************************************************************************)
THEOREM LoaderIsRight == Spec => []LoaderReadsWhatWasWritten
<1>1. ConverterInv => LoaderReadsWhatWasWritten
  BY DEF ConverterInv
<1> QED
  BY <1>1, ConversionInvariance, PTL

(***************************************************************************)
(* The fields of a reply.                                                  *)
(***************************************************************************)
LEMMA ReplyIs ==
    ASSUME NEW lines, NEW i, NEW r, IsReply(lines, i, r)
    PROVE  /\ r.line = i /\ r.delay = lines[i].ms - lines[i - 1].ms /\ r.delay <= MaxGap
           /\ lines[i].dir = "rx"
<1> DEFINE d == lines[i].ms - lines[i - 1].ms
<1>1. r = [line |-> i, delay |-> d] /\ d <= MaxGap /\ lines[i].dir = "rx"
  BY DEF IsReply
<1> HIDE DEF d
<1>2. r.line = i /\ r.delay = d
  BY <1>1
<1> QED
  BY <1>1, <1>2 DEF d

(***************************************************************************)
(* A number below the modulus is its own remainder.                        *)
(***************************************************************************)
LEMMA ModIs ==
    ASSUME NEW a \in Nat, NEW b \in Nat, a < b
    PROVE  a % b = a
OBVIOUS

(***************************************************************************)
(* An exchange and its replies, in integers.                               *)
(***************************************************************************)
LEMMA EntryIs ==
    ASSUME NEW x \in Entries, Follows(log, x)
    PROVE  /\ x.line \in Nat \ {0} /\ Len(x.rx) \in Nat /\ LastLine(x) = x.line + Len(x.rx)
           /\ DOMAIN x.rx = 1 .. Len(x.rx)
           /\ LastLine(x) <= Len(log)
           /\ log[x.line].dir = "tx" /\ x.req = Parsed(log[x.line].req)
           /\ \A n \in 1 .. Len(x.rx) :
                 /\ x.rx[n].line = x.line + n
                 /\ x.rx[n].delay = log[x.line + n].ms - log[x.line + n - 1].ms
                 /\ x.rx[n].delay <= MaxGap
                 /\ log[x.line + n].dir = "rx"
<1>1. x.line \in Nat \ {0} /\ x.rx \in Seq([line : Nat, delay : Int])
  BY DEF Entries
<1>2. Len(x.rx) \in Nat /\ DOMAIN x.rx = 1 .. Len(x.rx)
  BY <1>1
<1>3. \A n \in 1 .. Len(x.rx) : IsReply(log, x.line + n, x.rx[n])
  BY DEF Follows
<1>4. ASSUME NEW n \in 1 .. Len(x.rx)
      PROVE  /\ x.rx[n].line = x.line + n
             /\ x.rx[n].delay = log[x.line + n].ms - log[x.line + n - 1].ms
             /\ x.rx[n].delay <= MaxGap
             /\ log[x.line + n].dir = "rx"
  <2> DEFINE i == x.line + n
             r == x.rx[n]
  <2>1. IsReply(log, i, r)
    BY <1>3
  <2> HIDE DEF i, r
  <2>2. /\ r.line = i /\ r.delay = log[i].ms - log[i - 1].ms /\ r.delay <= MaxGap
        /\ log[i].dir = "rx"
    BY <2>1, ReplyIs
  <2>3. i - 1 = x.line + n - 1
    BY <1>1, <1>2 DEF i
  <2> QED
    BY <2>2, <2>3 DEF i, r
<1> QED
  BY <1>1, <1>2, <1>4 DEF Follows, LastLine

(***************************************************************************)
(* The replies of an exchange are those that follow its request: none is   *)
(* missing, since an exchange stops only where it has to.                  *)
(***************************************************************************)
LEMMA PairingIsRight == ConverterInv => RepliesFollowTheirRequest
<1> SUFFICES ASSUME ConverterInv, stage \in {"index", "write", "done"}
             PROVE  /\ \A j \in DOMAIN log : log[j].dir = "tx" =>
                          \E e \in DOMAIN exchanges : exchanges[e].line = j
                    /\ \A e \in DOMAIN exchanges : \A i \in DOMAIN log :
                          HasReply(exchanges[e], i) <=> BelongsTo(i, exchanges[e].line)
  BY DEF RepliesFollowTheirRequest
<1>1. /\ TypeOK /\ PairedTo = Len(log) /\ current.line = 0 /\ Len(log) \in Nat
      /\ DOMAIN log = 1 .. Len(log) /\ DOMAIN exchanges = 1 .. Len(exchanges)
  BY DEF ConverterInv, StagesInOrder, TypeOK, PairedTo, NoOpen
<1>2. \A j \in DOMAIN log : log[j].dir = "tx" =>
         \E e \in DOMAIN exchanges : exchanges[e].line = j
  BY <1>1 DEF ConverterInv, RequestsAreKept
<1>3. ASSUME NEW e \in DOMAIN exchanges, NEW i \in DOMAIN log
      PROVE  HasReply(exchanges[e], i) <=> BelongsTo(i, exchanges[e].line)
  <2> DEFINE x == exchanges[e]
             l == x.line
             m == Len(x.rx)
  <2>1. x \in Entries /\ Follows(log, x) /\ Stops(log, x)
    BY <1>1 DEF ConverterInv, ExchangesAreWhole, TypeOK
  <2> HIDE DEF x
  <2>2. /\ l \in Nat \ {0} /\ m \in Nat /\ LastLine(x) = l + m /\ DOMAIN x.rx = 1 .. m
        /\ LastLine(x) <= Len(log) /\ log[l].dir = "tx"
        /\ \A n \in 1 .. m :
              /\ x.rx[n].line = l + n
              /\ x.rx[n].delay = log[l + n].ms - log[l + n - 1].ms
              /\ x.rx[n].delay <= MaxGap
              /\ log[l + n].dir = "rx"
    BY <2>1, EntryIs
  <2> HIDE DEF l, m
  <2>3. ASSUME HasReply(x, i) PROVE BelongsTo(i, l)
    <3>1. PICK n \in 1 .. m : x.rx[n].line = i
      BY <2>2, <2>3 DEF HasReply
    <3>2. i = l + n /\ log[i].dir = "rx" /\ l \in 1 .. i - 1
      BY <2>2, <3>1
    <3>3. ASSUME NEW k \in l + 1 .. i
          PROVE  log[k].dir = "rx" /\ log[k].ms - log[k - 1].ms <= MaxGap
      <4>1. k - l \in 1 .. m /\ l + (k - l) = k /\ l + (k - l) - 1 = k - 1
        BY <2>2, <3>1, <3>2
      <4> HIDE DEF TypeOK
      <4>2. /\ log[l + (k - l)].dir = "rx"
            /\ log[l + (k - l)].ms - log[l + (k - l) - 1].ms <= MaxGap
        BY <2>2, <4>1
      <4> QED
        BY <4>1, <4>2
    <3> QED
      BY <2>2, <3>2, <3>3 DEF BelongsTo
  <2>4. ASSUME BelongsTo(i, l) PROVE HasReply(x, i)
    <3>1. l \in 1 .. i - 1 /\ i \in 1 .. Len(log)
      BY <1>1, <2>4 DEF BelongsTo
    <3>2. \A k \in l + 1 .. i : log[k].dir = "rx" /\ log[k].ms - log[k - 1].ms <= MaxGap
      BY <2>4 DEF BelongsTo
    <3>3. CASE i <= l + m
      <4>1. i - l \in 1 .. m /\ l + (i - l) = i
        BY <2>2, <3>1, <3>3
      <4>2. x.rx[i - l].line = i
        BY <2>2, <4>1
      <4> QED
        BY <2>2, <4>1, <4>2 DEF HasReply
    <3>4. CASE i > l + m
      <4> DEFINE k == l + m + 1
      <4>1. k \in l + 1 .. i /\ k = LastLine(x) + 1 /\ k \in 1 .. Len(log) /\ k - 1 \in 1 .. Len(log)
        BY <1>1, <2>2, <3>1, <3>4
      <4> HIDE DEF k
      <4>2. log[k].dir = "tx" \/ log[k].ms - log[k - 1].ms > MaxGap
        BY <2>1, <4>1 DEF Stops
      <4>3. log[k].dir = "rx" /\ log[k].ms - log[k - 1].ms <= MaxGap
        BY <3>2, <4>1
      <4>4. log[k].ms \in Nat /\ log[k - 1].ms \in Nat /\ MaxGap \in Int
        BY <1>1, <4>1, LinesAre, WordAssumption, DelayWordAssumption
      <4> QED
        BY <4>2, <4>3, <4>4
    <3> QED
      BY <2>2, <3>1, <3>3, <3>4
  <2> QED
    BY <2>3, <2>4 DEF x, l
<1> QED
  BY <1>2, <1>3

(***************************************************************************)
(* One pass over the lines gives every request of the log an exchange, and *)
(* every exchange exactly the replies that belong to it                    *)
(* (build_recording.py:74-112).                                            *)
(***************************************************************************)
THEOREM PairingIsExact == Spec => []RepliesFollowTheirRequest
<1> QED
  BY PairingIsRight, ConversionInvariance, PTL

(***************************************************************************)
(* The wall clock the log takes its times from is never set back while it  *)
(* is written.                                                             *)
(***************************************************************************)
ClockNeverBack == Steps \subseteq Nat

(***************************************************************************)
(* An entry of the table is an exchange that follows the log.              *)
(***************************************************************************)
LEMMA TableIs ==
    ASSUME ConverterInv, NEW k \in DOMAIN table
    PROVE  /\ stage = "done" /\ k \in 1 .. Len(index)
           /\ index[k] \in Entries /\ Follows(log, index[k])
           /\ table[k].tx = index[k].req
           /\ DOMAIN table[k].rx = DOMAIN index[k].rx
           /\ \A n \in DOMAIN index[k].rx :
                 table[k].rx[n].delay_ms = LoadDelay(index[k].rx[n].delay)
<1>1. stage = "done"
  BY DEF ConverterInv, StagesInOrder
<1>2. table = [e \in DOMAIN index |-> LoadedExchange(index[e])]
  BY <1>1 DEF ConverterInv, LoaderReadsWhatWasWritten
<1>3. index \in Seq(Entries)
  BY DEF ConverterInv, TypeOK
<1>4. k \in 1 .. Len(index) /\ index[k] \in Entries
  BY <1>2, <1>3
<1>5. Follows(log, index[k])
  <2>1. IndexedTo = Len(exchanges)
    BY <1>1 DEF IndexedTo
  <2>2. PICK e \in 1 .. Len(exchanges) : index[k] = exchanges[e]
    BY <1>4, <2>1 DEF ConverterInv, IndexHasFirsts
  <2> QED
    BY <2>2 DEF ConverterInv, ExchangesAreWhole
<1>6. table[k] = LoadedExchange(index[k])
  BY <1>2
<1> QED
  BY <1>1, <1>4, <1>5, <1>6 DEF LoadedExchange, LoadedReply

(***************************************************************************)
(* The delay of a reply is a step of the clock, short enough to fit the 32 *)
(* bits of the loader.                                                     *)
(***************************************************************************)
LEMMA DelayIs ==
    ASSUME ConverterInv, ClockNeverBack, NEW k \in DOMAIN table, NEW n \in DOMAIN table[k].rx
    PROVE  /\ n \in 1 .. Len(index[k].rx)
           /\ table[k].rx[n].delay_ms
                = log[index[k].line + n].ms - log[index[k].line + n - 1].ms
           /\ table[k].rx[n].delay_ms \in 0 .. MaxGap
<1> DEFINE x == index[k]
           d == x.rx[n].delay
           i == x.line + n
<1>1. /\ x \in Entries /\ Follows(log, x) /\ n \in DOMAIN x.rx
      /\ table[k].rx[n].delay_ms = LoadDelay(d)
  BY TableIs
<1> HIDE DEF x
<1>2. /\ x.line \in Nat \ {0} /\ Len(x.rx) \in Nat /\ x.line + Len(x.rx) <= Len(log)
      /\ n \in 1 .. Len(x.rx)
      /\ d = log[i].ms - log[i - 1].ms /\ d <= MaxGap
  <2>1. /\ x.line \in Nat \ {0} /\ Len(x.rx) \in Nat /\ LastLine(x) = x.line + Len(x.rx)
        /\ DOMAIN x.rx = 1 .. Len(x.rx) /\ LastLine(x) <= Len(log)
        /\ \A m \in 1 .. Len(x.rx) :
              /\ x.rx[m].delay = log[x.line + m].ms - log[x.line + m - 1].ms
              /\ x.rx[m].delay <= MaxGap
    BY <1>1, EntryIs
  <2>2. n \in 1 .. Len(x.rx)
    BY <1>1, <2>1
  <2>3. /\ x.rx[n].delay = log[x.line + n].ms - log[x.line + n - 1].ms
        /\ x.rx[n].delay <= MaxGap
    BY <2>1, <2>2
  <2> QED
    BY <2>1, <2>2, <2>3
<1> HIDE DEF d
<1>3. i \in 2 .. Len(log)
  <2>1. Len(log) \in Nat
    BY DEF ConverterInv, TypeOK
  <2> QED
    BY <1>2, <2>1
<1> HIDE DEF i
<1>4. d \in Nat
  BY <1>2, <1>3 DEF ConverterInv, ClockSteps, ClockNeverBack
<1>5. MaxGap \in Nat /\ DelayWord \in Nat \ {0} /\ MaxGap < DelayWord
  BY WordAssumption, DelayWordAssumption
<1>6. d % DelayWord = d
  <2>1. d < DelayWord
    BY <1>2, <1>4, <1>5
  <2> QED
    BY <1>4, <1>5, <2>1, ModIs
<1>7. table[k].rx[n].delay_ms = d
  BY <1>1, <1>6 DEF LoadDelay
<1>8. d \in 0 .. MaxGap
  BY <1>2, <1>4, <1>5
<1> QED
  BY <1>2, <1>7, <1>8 DEF i, x

(***************************************************************************)
(* No delay is longer than the gap.                                        *)
(***************************************************************************)
LEMMA GapsAreRight == ConverterInv /\ ClockNeverBack => GapsAreBounded
<1> SUFFICES ASSUME ConverterInv, ClockNeverBack, NEW k \in DOMAIN table, NEW n \in DOMAIN table[k].rx
             PROVE  table[k].rx[n].delay_ms <= MaxGap
  BY DEF GapsAreBounded
<1>1. table[k].rx[n].delay_ms \in 0 .. MaxGap
  BY DelayIs
<1> QED
  BY <1>1

(***************************************************************************)
(* No reply of a recording waits longer than the gap for its turn, unless  *)
(* the clock was set back (build_recording.py:98).                         *)
(***************************************************************************)
THEOREM GapsStayBounded == ASSUME ClockNeverBack PROVE Spec => []GapsAreBounded
<1>1. ConverterInv => GapsAreBounded
  BY GapsAreRight
<1> QED
  BY <1>1, ConversionInvariance, PTL

(***************************************************************************)
(* The sum of the delays up to a reply is the time from the request to it. *)
(***************************************************************************)
LEMMA SumIs ==
    ASSUME ConverterInv, ClockNeverBack, NEW k \in DOMAIN table, NEW n \in DOMAIN table[k].rx
    PROVE  ElapsedAt(table[k], n) = log[index[k].line + n].ms - log[index[k].line].ms
<1> DEFINE l == index[k].line
           y == table[k].rx
           ms(i) == log[i].ms
           IsRun(f) == f = [j \in 0 .. n |-> IF j = 0 THEN 0 ELSE f[j - 1] + y[j].delay_ms]
           g == [j \in 0 .. n |-> ms(l + j) - ms(l)]
           c == CHOOSE f : IsRun(f)
<1>1. /\ TypeOK /\ Len(log) \in Nat /\ l \in Nat \ {0}
      /\ Len(index[k].rx) \in Nat /\ DOMAIN y = 1 .. Len(index[k].rx)
      /\ l + Len(index[k].rx) <= Len(log)
  <2>1. index[k] \in Entries /\ Follows(log, index[k]) /\ DOMAIN y = DOMAIN index[k].rx
    BY TableIs
  <2>2. TypeOK /\ Len(log) \in Nat
    BY DEF ConverterInv, TypeOK
  <2> QED
    BY <2>1, <2>2, EntryIs
<1>2. n \in 1 .. Len(index[k].rx)
  BY <1>1
<1>3. \A j \in 1 .. n : y[j].delay_ms = ms(l + j) - ms(l + (j - 1))
  <2> TAKE j \in 1 .. n
  <2>1. j \in DOMAIN y /\ l + j - 1 = l + (j - 1)
    BY <1>1, <1>2
  <2> QED
    BY <2>1, DelayIs
<1>4. \A j \in 0 .. n : ms(l + j) \in Nat
  <2> TAKE j \in 0 .. n
  <2>1. l + j \in 1 .. Len(log)
    BY <1>1, <1>2
  <2> QED
    BY <1>1, <2>1, LinesAre
<1> HIDE DEF l, y, ms
<1>5. IsRun(g)
  <2>1. ASSUME NEW j \in 0 .. n
        PROVE  g[j] = IF j = 0 THEN 0 ELSE g[j - 1] + y[j].delay_ms
    <3>1. ms(l + 0) = ms(l) /\ ms(l) \in Nat
      <4>1. l + 0 = l /\ 0 \in 0 .. n
        BY <1>1, <1>2
      <4> QED
        BY <1>4, <4>1
    <3>2. CASE j = 0
      BY <3>1, <3>2
    <3>3. CASE j # 0
      <4>1. j \in 1 .. n /\ j - 1 \in 0 .. n
        BY <1>2, <3>3
      <4>2. ms(l + j) \in Nat /\ ms(l + (j - 1)) \in Nat
        BY <1>4, <4>1
      <4>3. g[j] = ms(l + j) - ms(l) /\ g[j - 1] = ms(l + (j - 1)) - ms(l)
        BY <4>1
      <4>4. y[j].delay_ms = ms(l + j) - ms(l + (j - 1))
        BY <1>3, <4>1
      <4> HIDE DEF g
      <4> QED
        BY <3>1, <3>3, <4>2, <4>3, <4>4
    <3> QED
      BY <3>2, <3>3
  <2> QED
    BY <2>1
<1>6. IsRun(c)
  <2> HIDE DEF IsRun, g
  <2> QED
    BY <1>5
<1>7. ElapsedAt(table[k], n) = c[n]
  BY DEF ElapsedAt, y
<1>8. c[n] = g[n]
  <2> HIDE DEF c, g
  <2>1. Alike(c, g, n) /\ n \in Nat
    BY <1>2, <1>5, <1>6 DEF Alike
  <2> QED
    BY <2>1, SameRuns
<1> QED
  BY <1>2, <1>7, <1>8 DEF ms, l

(***************************************************************************)
(* The sum of the delays is the time in the log.                           *)
(***************************************************************************)
LEMMA SumsAreRight == ConverterInv /\ ClockNeverBack => DelaysAddUp
<1> SUFFICES ASSUME ConverterInv, ClockNeverBack, NEW k \in DOMAIN table, NEW n \in DOMAIN table[k].rx
             PROVE  ElapsedAt(table[k], n)
                      = log[index[k].rx[n].line].ms - log[index[k].line].ms
  BY DEF DelaysAddUp
<1>1. ElapsedAt(table[k], n) = log[index[k].line + n].ms - log[index[k].line].ms
  BY SumIs
<1>2. index[k].rx[n].line = index[k].line + n
  <2> DEFINE x == index[k]
  <2>1. x \in Entries /\ Follows(log, x) /\ n \in DOMAIN x.rx
    BY TableIs
  <2> HIDE DEF x
  <2> QED
    BY <2>1, EntryIs DEF x
<1> QED
  BY <1>1, <1>2

(***************************************************************************)
(* Playback answers after the time the car took when it was recorded: the  *)
(* sum of the delays up to a reply is the time between its line and that   *)
(* of the request, unless the clock was set back (build_recording.py:98,   *)
(* fremsoft.c:237).                                                        *)
(***************************************************************************)
THEOREM TimesAreKept == ASSUME ClockNeverBack PROVE Spec => []DelaysAddUp
<1>1. ConverterInv => DelaysAddUp
  BY SumsAreRight
<1> QED
  BY <1>1, ConversionInvariance, PTL

(***************************************************************************)
(* No CAN id is longer than the two bytes parse_log keeps of it.           *)
(***************************************************************************)
ShortIds == \A r \in Requests : r.can_id < CanWord

(***************************************************************************)
(* Parsing loses nothing of a short CAN id.                                *)
(***************************************************************************)
LEMMA ParsedIsWhole ==
    ASSUME ShortIds, NEW r \in Sent
    PROVE  Parsed(r) = r
<1>1. /\ r.can_id \in Nat /\ r = Request(r.can_id, r.uds)
      /\ Parsed(r) = Request(r.can_id % CanWord, r.uds)
  BY ParsedIs
<1>2. CanWord \in Nat /\ r.can_id < CanWord
  BY WordAssumption DEF ShortIds, Sent, NoRequest
<1>3. r.can_id % CanWord = r.can_id
  BY <1>1, <1>2, ModIs
<1> QED
  BY <1>1, <1>3

(***************************************************************************)
(* A lookup stops at the first recording: the index has it once, and an    *)
(* earlier one would stand earlier in the list of exchanges.               *)
(***************************************************************************)
LEMMA FirstsAreRight == ConverterInv /\ ShortIds => FirstRecordingAnswers
<1> SUFFICES ASSUME ConverterInv, ShortIds, stage = "done",
                    NEW i \in DOMAIN log, log[i].dir = "tx"
             PROVE  \E k \in DOMAIN table :
                       /\ LookupStopsAt(table, log[i].req, k)
                       /\ log[index[k].line].req = log[i].req
                       /\ \A j \in 1 .. index[k].line - 1 :
                             log[j].dir = "tx" => log[j].req # log[i].req
  BY DEF FirstRecordingAnswers
<1>1. /\ TypeOK /\ PairedTo = Len(log) /\ IndexedTo = Len(exchanges) /\ current.line = 0
      /\ Len(log) \in Nat /\ DOMAIN log = 1 .. Len(log) /\ Len(exchanges) \in Nat
  BY DEF ConverterInv, StagesInOrder, TypeOK, PairedTo, IndexedTo, NoOpen
<1>2. /\ table = [k \in DOMAIN index |-> LoadedExchange(index[k])]
      /\ DOMAIN index = 1 .. Len(index)
  BY <1>1 DEF ConverterInv, LoaderReadsWhatWasWritten, TypeOK
<1>3. DOMAIN table = 1 .. Len(index) /\ \A k \in 1 .. Len(index) : table[k].tx = index[k].req
  BY <1>2 DEF LoadedExchange
<1>4. \A e \in 1 .. Len(exchanges) :
         /\ exchanges[e].line \in 1 .. Len(log)
         /\ exchanges[e].req = log[exchanges[e].line].req
  <2> TAKE e \in 1 .. Len(exchanges)
  <2> DEFINE x == exchanges[e]
  <2>1. x \in Entries /\ Follows(log, x)
    BY <1>1 DEF ConverterInv, ExchangesAreWhole, TypeOK
  <2> HIDE DEF x
  <2>2. /\ x.line \in Nat \ {0} /\ Len(x.rx) \in Nat /\ LastLine(x) = x.line + Len(x.rx)
        /\ LastLine(x) <= Len(log) /\ x.req = Parsed(log[x.line].req)
    BY <2>1, EntryIs
  <2>3. x.line \in 1 .. Len(log)
    BY <1>1, <2>2
  <2>4. x.req = log[x.line].req
    BY <1>1, <2>2, <2>3, LinesAre, ParsedIsWhole
  <2> QED
    BY <2>3, <2>4 DEF x
<1>5. \A j \in 1 .. Len(log) : log[j].dir = "tx" =>
         \E e \in 1 .. Len(exchanges) : exchanges[e].line = j /\ exchanges[e].req = log[j].req
  <2>1. \A j \in 1 .. Len(log) : log[j].dir = "tx" =>
           \E e \in 1 .. Len(exchanges) : exchanges[e].line = j
    BY <1>1 DEF ConverterInv, RequestsAreKept
  <2> QED
    BY <1>4, <2>1
<1>6. PICK h \in 1 .. Len(exchanges) : exchanges[h].req = log[i].req
  BY <1>1, <1>5
<1>7. PICK k \in 1 .. Len(index) : index[k].req = exchanges[h].req
  BY <1>1 DEF ConverterInv, IndexHasFirsts
<1>8. PICK e \in 1 .. Len(exchanges) :
         index[k] = exchanges[e] /\ \A f \in 1 .. e - 1 : exchanges[f].req # exchanges[e].req
  BY <1>1 DEF ConverterInv, IndexHasFirsts
<1>9. LookupStopsAt(table, log[i].req, k)
  <2>1. \A m \in 1 .. Len(index) : index[k].req = index[m].req => k = m
    BY DEF ConverterInv, IndexHasFirsts
  <2>2. \A m \in 1 .. Len(index) : m < k => index[m].req # index[k].req
    BY <2>1
  <2> QED
    BY <1>3, <1>6, <1>7, <2>2 DEF LookupStopsAt
<1>10. log[index[k].line].req = log[i].req
  BY <1>4, <1>6, <1>7, <1>8
<1>11. ASSUME NEW j \in 1 .. index[k].line - 1, log[j].dir = "tx", log[j].req = log[i].req
       PROVE  FALSE
  <2>1. exchanges[e].line \in 1 .. Len(log) /\ index[k].line = exchanges[e].line
    BY <1>4, <1>8
  <2>2. j \in 1 .. Len(log) /\ j < exchanges[e].line
    BY <1>1, <2>1
  <2>3. PICK f \in 1 .. Len(exchanges) : exchanges[f].line = j /\ exchanges[f].req = log[j].req
    BY <1>5, <1>11, <2>2
  <2>4. ~ (e < f) /\ e # f
    BY <2>1, <2>2, <2>3 DEF ConverterInv, InLogOrder
  <2>5. f \in 1 .. e - 1
    BY <1>1, <2>4
  <2> QED
    BY <1>6, <1>7, <1>8, <1>11, <2>3, <2>5
<1> QED
  BY <1>3, <1>9, <1>10, <1>11

(***************************************************************************)
(* A request that was recorded is found again, and answered with its first *)
(* recording (build_recording.py:16, recording.c:228), unless two bytes    *)
(* are not enough for a CAN id.                                            *)
(***************************************************************************)
THEOREM FirstsAnswer == ASSUME ShortIds PROVE Spec => []FirstRecordingAnswers
<1>1. ConverterInv => FirstRecordingAnswers
  BY FirstsAreRight
<1> QED
  BY <1>1, ConversionInvariance, PTL

=============================================================================
