--------------------------- MODULE ConsoleProofs ---------------------------
(***************************************************************************)
(* The console, for any transmit FIFO of two bytes or more, any line and   *)
(* any number of bytes typed: the byte that Uart::put writes after it saw  *)
(* LSR_THR_EMPTY always finds room, the line of S-mode code is printed     *)
(* whole, and the echo is what the bytes read show.                        *)
(*                                                                         *)
(* That the room is there takes three facts: one put at most is between    *)
(* its test and its write, whatever the handler writes in between found    *)
(* the FIFO empty, and Uart::init made it deeper than one byte.            *)
(*                                                                         *)
(* The echo is the decoder, which sees one byte and its state, against     *)
(* Shown, which sees the whole input: the state is what the part read so   *)
(* far leaves (StateFrom), and one byte more adds to Shown what the arm of *)
(* that state prints (ShownAppend, by induction from the end).             *)
(***************************************************************************)
EXTENDS Console, SequenceTheorems, WellFoundedInduction, TLAPS

-----------------------------------------------------------------------------
(* Functions defined from the end of a sequence *)

Downward(m, T) ==
  /\ m \in Nat /\ T \in SUBSET (1 .. m)
  /\ \A i \in 1 .. m : (\A j \in i + 1 .. m : j \in T) => i \in T

(* Induction from the end: i may use every position after it. *)
LEMMA DownInduction ==
  ASSUME NEW m, NEW T, Downward(m, T)
  PROVE  T = 1 .. m
<1> USE DEF Downward
<1> SUFFICES ASSUME (1 .. m) \ T # {} PROVE FALSE
  BY Zenon
<1> DEFINE N == {m - i : i \in (1 .. m) \ T}
<1>1. N \in SUBSET Nat /\ N # {}
  OBVIOUS
<1>2. PICK R : R = OpToRel(<, Nat) /\ IsWellFoundedOn(R, Nat)
  BY NatLessThanWellFounded, Zenon
<1>3. PICK x \in N : \A y \in N : ~(<<y, x>> \in R)
  BY <1>1, <1>2, WFMin, Zenon
<1>4. \A a \in Nat, b \in Nat : a < b => <<a, b>> \in R
  BY <1>2, Zenon DEF OpToRel
<1>5. \A y \in N : ~(y < x)
  BY <1>1, <1>3, <1>4, Zenon
<1>6. PICK i \in (1 .. m) \ T : x = m - i
  BY Zenon
<1>7. \A j \in i + 1 .. m : j \in T
  <2> SUFFICES ASSUME NEW j \in i + 1 .. m, j \notin T PROVE FALSE
    OBVIOUS
  <2>1. j \in (1 .. m) \ T
    OBVIOUS
  <2>2. m - j \in N
    BY <2>1, Zenon
  <2>3. m - j < m - i
    OBVIOUS
  <2> QED
    BY <1>5, <1>6, <2>2, <2>3, Zenon
<1> QED
  BY <1>7

(* A function on 1 .. m whose value at i is given by its value at nxt[i],  *)
(* further on, or is base after n.                                         *)
Winds(m, n, S, base, nxt, step) ==
  /\ m \in Nat /\ n \in 0 .. m - 1
  /\ base \in S /\ step \in [1 .. n -> [S -> S]]
  /\ nxt \in [1 .. n -> 1 .. m] /\ \A i \in 1 .. n : nxt[i] > i

Unwinds(m, n, S, base, nxt, step) ==
  \E f \in [1 .. m -> S] :
    \A i \in 1 .. m : f[i] = IF i > n THEN base ELSE step[i][f[nxt[i]]]

(* Such a function exists. *)
LEMMA Unwound ==
  ASSUME NEW m, NEW n, NEW S, NEW base, NEW nxt, NEW step,
         Winds(m, n, S, base, nxt, step)
  PROVE  Unwinds(m, n, S, base, nxt, step)
<1> USE DEF Winds
<1> DEFINE Solves(f, i) ==
             /\ f \in [i .. m -> S]
             /\ \A j \in i .. m : f[j] = IF j > n THEN base ELSE step[j][f[nxt[j]]]
           T == {i \in 1 .. m : \E f : Solves(f, i)}
<1>1. ASSUME NEW i \in 1 .. m, \A j \in i + 1 .. m : j \in T
      PROVE  i \in T
  <2>1. CASE i = m
    <3>1. Solves([j \in i .. m |-> base], i)
      BY <2>1
    <3> QED
      BY <3>1, Zenon
  <2>2. CASE i # m
    <3>1. i + 1 \in i + 1 .. m
      BY <2>2
    <3>2. PICK g : Solves(g, i + 1)
      BY <1>1, <3>1, Zenon
    <3> DEFINE v == IF i > n THEN base ELSE step[i][g[nxt[i]]]
               f == [j \in i .. m |-> IF j = i THEN v ELSE g[j]]
    <3>3. v \in S
      BY <3>2
    <3>4. f \in [i .. m -> S]
      <4>0. m \in Nat
        OBVIOUS
      <4> HIDE DEF v, f, Solves, T, Winds
      <4>1. ASSUME NEW j \in i .. m, j # i PROVE j \in i + 1 .. m
        BY <4>0, <4>1
      <4>2. g \in [i + 1 .. m -> S]
        BY <3>2, Zenon DEF Solves
      <4>3. ASSUME NEW j \in i .. m PROVE (IF j = i THEN v ELSE g[j]) \in S
        BY <3>3, <4>1, <4>2, Zenon
      <4> QED
        BY <4>3, Zenon DEF f
    <3>5. ASSUME NEW j \in i .. m
          PROVE  f[j] = IF j > n THEN base ELSE step[j][f[nxt[j]]]
      <4>1. j <= n => nxt[j] \in i + 1 .. m /\ f[nxt[j]] = g[nxt[j]]
        OBVIOUS
      <4>2. CASE j = i
        BY <4>1, <4>2
      <4>3. CASE j # i
        <5>1. j \in i + 1 .. m /\ f[j] = g[j]
          BY <4>3
        <5> QED
          BY <3>2, <4>1, <5>1
      <4> QED
        BY <4>2, <4>3
    <3>6. Solves(f, i)
      BY <3>4, <3>5, Zenon
    <3> QED
      BY <3>6, Zenon
  <2> QED
    BY <2>1, <2>2, Zenon
<1>2. T = 1 .. m
  <2>1. T \in SUBSET (1 .. m)
    OBVIOUS
  <2> HIDE DEF T
  <2> QED
    BY <1>1, <2>1, DownInduction, Zenon DEF Downward
<1>3. 1 \in T
  <2>1. 1 \in 1 .. m
    OBVIOUS
  <2> HIDE DEF T
  <2> QED
    BY <1>2, <2>1, Zenon
<1>4. PICK f : Solves(f, 1)
  BY <1>3, Zenon
<1> QED
  BY <1>4 DEF Unwinds

Regroups(a, b, c) == (a \o b) \o c = a \o (b \o c)

(* Concatenation is associative. *)
LEMMA Assoc ==
  ASSUME NEW X, NEW a \in Seq(X), NEW b \in Seq(X), NEW c \in Seq(X)
  PROVE  Regroups(a, b, c)
  BY ConcatAssociative DEF Regroups

(* Only, as its equation. *)
OnlyFrom(s, S) ==
  CHOOSE from : from = [i \in 1 .. Len(s) + 1 |->
    IF i > Len(s) THEN <<>> ELSE (IF s[i] \in S THEN <<s[i]>> ELSE <<>>) \o from[i + 1]]

OnlyStep(s, S, X, f) ==
  \A i \in 1 .. Len(s) + 1 :
    /\ f[i] \in Seq(X)
    /\ f[i] = IF i > Len(s) THEN <<>>
              ELSE (IF s[i] \in S THEN <<s[i]>> ELSE <<>>) \o f[i + 1]

(* Only(s, S) is the first value of a function that satisfies its equation. *)
LEMMA OnlyEquation ==
  ASSUME NEW X, NEW s \in Seq(X), NEW S
  PROVE  Only(s, S) = OnlyFrom(s, S)[1] /\ OnlyStep(s, S, X, OnlyFrom(s, S))
<1> DEFINE n == Len(s)
           m == n + 1
           H(i) == IF s[i] \in S THEN <<s[i]>> ELSE <<>>
           Round(w) == [i \in 1 .. m |-> IF i > n THEN <<>> ELSE H(i) \o w[i + 1]]
           F == OnlyFrom(s, S)
<1>1. n \in Nat /\ m \in Nat /\ n \in 0 .. m - 1
  OBVIOUS
<1>2. \A i \in 1 .. n : H(i) \in Seq(X)
  OBVIOUS
<1>3. Only(s, S) = F[1] /\ F = CHOOSE w : w = Round(w)
  BY Zenon DEF Only, OnlyFrom
<1> HIDE DEF n, m, H, F
<1>4. \E w : w = Round(w)
  <2> DEFINE nxt == [i \in 1 .. n |-> i + 1]
             step == [i \in 1 .. n |-> [v \in Seq(X) |-> H(i) \o v]]
  <2>1. nxt \in [1 .. n -> 1 .. m] /\ \A i \in 1 .. n : nxt[i] > i
    BY <1>1 DEF m
  <2>2. step \in [1 .. n -> [Seq(X) -> Seq(X)]]
    BY <1>2
  <2> DEFINE Sq == Seq(X)
             nil == <<>>
  <2>3. nil \in Sq /\ step \in [1 .. n -> [Sq -> Sq]]
    BY <2>2
  <2>4. \A i \in 1 .. n : nxt[i] = i + 1 /\ \A v \in Seq(X) : step[i][v] = H(i) \o v
    OBVIOUS
  <2> HIDE DEF nxt, step, Sq, nil
  <2>5. PICK f \in [1 .. m -> Sq] :
          \A i \in 1 .. m : f[i] = IF i > n THEN nil ELSE step[i][f[nxt[i]]]
    <3>1. Winds(m, n, Sq, nil, nxt, step)
      BY <1>1, <2>1, <2>3, Zenon DEF Winds
    <3>2. Unwinds(m, n, Sq, nil, nxt, step)
      BY <3>1, Unwound, Zenon
    <3> QED
      BY <3>2, Zenon DEF Unwinds
  <2>6. ASSUME NEW i \in 1 .. m PROVE f[i] = IF i > n THEN <<>> ELSE H(i) \o f[i + 1]
    <3>1. CASE i > n
      BY <2>5, <3>1 DEF nil
    <3>2. CASE ~(i > n)
      <4>1. i \in 1 .. n /\ i + 1 \in 1 .. m
        BY <1>1, <3>2 DEF m
      <4>2. f[i] = step[i][f[i + 1]] /\ f[i + 1] \in Sq
        BY <2>4, <2>5, <3>2, <4>1, Zenon
      <4> QED
        BY <2>4, <3>2, <4>1, <4>2, Zenon DEF Sq
    <3> QED
      BY <3>1, <3>2
  <2> QED
    BY <2>6, Zenon
<1>5. F = Round(F)
  BY <1>3, <1>4, Zenon
<1>6. \A i \in 1 .. m : F[i] = IF i > n THEN <<>> ELSE H(i) \o F[i + 1]
  BY <1>5, Zenon
<1>7. \A i \in 1 .. m : F[i] \in Seq(X)
  <2> DEFINE T == {i \in 1 .. m : F[i] \in Seq(X)}
  <2>1. ASSUME NEW i \in 1 .. m, \A j \in i + 1 .. m : j \in T PROVE i \in T
    <3>1. CASE i > n
      <4>1. F[i] = <<>>
        BY <1>6, <3>1, Zenon
      <4>2. <<>> \in Seq(X)
        OBVIOUS
      <4> QED
        BY <4>1, <4>2, Zenon
    <3>2. CASE ~(i > n)
      <4>1. i \in 1 .. n /\ i + 1 \in i + 1 .. m
        BY <1>1, <3>2 DEF m
      <4>2. F[i + 1] \in Seq(X) /\ H(i) \in Seq(X)
        BY <1>2, <2>1, <4>1
      <4>3. F[i] = H(i) \o F[i + 1]
        BY <1>6, <3>2, Zenon
      <4>4. H(i) \o F[i + 1] \in Seq(X)
        BY <4>2, ConcatProperties
      <4> QED
        BY <4>3, <4>4, Zenon
    <3> QED
      BY <3>1, <3>2
  <2>2. T \in SUBSET (1 .. m)
    OBVIOUS
  <2>3. T = 1 .. m
    <3> HIDE DEF T
    <3> QED
      BY <1>1, <2>1, <2>2, DownInduction, Zenon DEF Downward
  <2> QED
    BY <2>3, Zenon
<1> QED
  BY <1>3, <1>6, <1>7, Zenon DEF n, m, H, F, OnlyStep

(* What one more element adds. *)
LEMMA OnlyAppend ==
  ASSUME NEW X, NEW s \in Seq(X), NEW x \in X, NEW S
  PROVE  /\ Only(s, S) \in Seq(X)
         /\ Only(Append(s, x), S) = Only(s, S) \o (IF x \in S THEN <<x>> ELSE <<>>)
<1> DEFINE n == Len(s)
           t == Append(s, x)
           F == OnlyFrom(s, S)
           G == OnlyFrom(t, S)
           e == IF x \in S THEN <<x>> ELSE <<>>
           H(i) == IF s[i] \in S THEN <<s[i]>> ELSE <<>>
<1>1. /\ n \in Nat /\ t \in Seq(X) /\ Len(t) = n + 1 /\ t[n + 1] = x
      /\ \A i \in 1 .. n : t[i] = s[i]
  OBVIOUS
<1>2. e \in Seq(X) /\ \A i \in 1 .. n : H(i) \in Seq(X)
  OBVIOUS
<1>3. /\ Only(s, S) = F[1] /\ OnlyStep(s, S, X, F)
      /\ Only(t, S) = G[1] /\ OnlyStep(t, S, X, G)
  BY <1>1, OnlyEquation, Zenon
<1>4. \A i \in 1 .. n + 1 : F[i] \in Seq(X) /\ F[i] = IF i > n THEN <<>> ELSE H(i) \o F[i + 1]
  BY <1>3, Zenon DEF OnlyStep
<1>5. \A i \in 1 .. n + 2 : G[i] = IF i > n + 1 THEN <<>>
                              ELSE (IF t[i] \in S THEN <<t[i]>> ELSE <<>>) \o G[i + 1]
  <2>1. Len(t) + 1 = n + 2
    BY <1>1
  <2> QED
    BY <1>1, <1>3, <2>1, Zenon DEF OnlyStep
<1>6. G[n + 2] = <<>> /\ G[n + 1] = e \o G[n + 2]
      /\ \A i \in 1 .. n : G[i] = H(i) \o G[i + 1]
  <2> HIDE DEF n, F, G, t
  <2>1. /\ n + 2 \in 1 .. n + 2 /\ n + 1 \in 1 .. n + 2 /\ (n + 1) + 1 = n + 2
        /\ n + 2 > n + 1 /\ ~(n + 1 > n + 1)
        /\ \A i \in 1 .. n : i \in 1 .. n + 2 /\ ~(i > n + 1)
    BY <1>1
  <2>2. G[n + 2] = <<>>
    BY <1>5, <2>1, Zenon
  <2>3. G[n + 1] = (IF t[n + 1] \in S THEN <<t[n + 1]>> ELSE <<>>) \o G[(n + 1) + 1]
    BY <1>5, <2>1, Zenon
  <2>4. ASSUME NEW i \in 1 .. n PROVE G[i] = H(i) \o G[i + 1]
    BY <1>1, <1>5, <2>1, Zenon
  <2> QED
    BY <1>1, <2>1, <2>2, <2>3, <2>4, Zenon
<1> HIDE DEF n, t, F, G, e, H
<1> DEFINE T == {i \in 1 .. n + 1 : G[i] = F[i] \o e}
<1>7. ASSUME NEW i \in 1 .. n + 1, \A j \in i + 1 .. n + 1 : j \in T PROVE i \in T
  <2>1. CASE i = n + 1
    <3>1. i > n /\ i + 1 = n + 2
      BY <1>1, <2>1
    <3>2. F[i] = <<>> /\ G[i] = e \o <<>>
      BY <1>4, <1>6, <2>1, <3>1, Zenon
    <3>3. e \o <<>> = e /\ <<>> \o e = e
      BY <1>2, ConcatEmptySeq, Zenon
    <3> QED
      BY <3>2, <3>3, Zenon
  <2>2. CASE i # n + 1
    <3>1. i \in 1 .. n /\ i + 1 \in i + 1 .. n + 1 /\ i + 1 \in 1 .. n + 1 /\ ~(i > n)
      BY <1>1, <2>2
    <3>2. G[i + 1] = F[i + 1] \o e
      BY <1>7, <3>1, Zenon
    <3>3. F[i] = H(i) \o F[i + 1] /\ G[i] = H(i) \o G[i + 1]
      BY <1>4, <1>6, <3>1, Zenon
    <3>4. Regroups(H(i), F[i + 1], e)
      BY <1>2, <1>4, <3>1, Assoc, Zenon
    <3> QED
      BY <3>2, <3>3, <3>4, Zenon DEF Regroups
  <2> QED
    BY <2>1, <2>2, Zenon
<1>8. T = 1 .. n + 1
  <2>1. T \in SUBSET (1 .. n + 1) /\ n + 1 \in Nat
    BY <1>1
  <2> HIDE DEF T
  <2> QED
    BY <1>7, <2>1, DownInduction, Zenon DEF Downward
<1>9. 1 \in 1 .. n + 1
  BY <1>1
<1>10. G[1] = F[1] \o e /\ F[1] \in Seq(X)
  BY <1>4, <1>8, <1>9, Zenon
<1> QED
  BY <1>3, <1>10, Zenon DEF t, e

-----------------------------------------------------------------------------
(* The keys of an input *)

(* Short sequences. *)
LEMMA ShortSeqs ==
  ASSUME NEW S, NEW a \in S, NEW b \in S, NEW c \in S
  PROVE  <<a>> \in Seq(S) /\ <<a, b>> \in Seq(S) /\ <<a, b, c>> \in Seq(S)
         /\ <<a>> \o <<b, c>> \in Seq(S)
  OBVIOUS

(* A byte outside an escape sequence, and an arrow key, show bytes. *)
LEMMA GlyphType ==
  ASSUME NEW c \in Bytes
  PROVE  /\ Glyph(c) \in Seq(Echoes)
         /\ c \in DOMAIN Arrow => <<Arrow[c]>> \o CRLF \in Seq(Echoes)
<1>1. /\ "BS" \in Echoes /\ " " \in Echoes /\ "CR" \in Echoes /\ "LF" \in Echoes
      /\ c \in Echoes
  BY Zenon DEF Echoes
<1>2. CRLF \in Seq(Echoes)
  BY <1>1, ShortSeqs, Zenon DEF CRLF
<1>3. <<"BS", " ", "BS">> \in Seq(Echoes) /\ <<c>> \in Seq(Echoes)
  BY <1>1, ShortSeqs, Zenon
<1>4. Glyph(c) \in Seq(Echoes)
  BY <1>2, <1>3, Zenon DEF Glyph
<1>5. ASSUME c \in DOMAIN Arrow PROVE <<Arrow[c]>> \o CRLF \in Seq(Echoes)
  <2>1. Arrow[c] \in Range(Arrow)
    BY <1>5, Zenon DEF Range
  <2>2. Arrow[c] \in Echoes
    BY <2>1, Zenon DEF Echoes
  <2> QED
    BY <1>1, <2>2, ShortSeqs, Zenon DEF CRLF
<1> QED
  BY <1>4, <1>5

(* What echo_uart prints for a byte. *)
LEMMA PrintedType ==
  ASSUME NEW esc, NEW c \in Bytes
  PROVE  Printed(esc, c) \in Seq(Echoes)
  BY GlyphType DEF Printed

(* A key has one to three bytes; the last may be cut short by the end. *)
LEMMA KeyType ==
  ASSUME NEW s \in Seq(Bytes), NEW i \in 1 .. Len(s)
  PROVE  KeyLen(s, i) \in 1 .. 3 /\ KeyShows(s, i) \in Seq(Echoes)
<1>1. KeyLen(s, i) \in 1 .. 3
  BY DEF KeyLen
<1>2. s[i] \in Bytes /\ (i + 2 <= Len(s) => s[i + 2] \in Bytes)
  OBVIOUS
<1>3. Glyph(s[i]) \in Seq(Echoes) /\ <<>> \in Seq(Echoes)
  BY <1>2, GlyphType
<1>4. i + 2 <= Len(s) /\ s[i + 2] \in DOMAIN Arrow => <<Arrow[s[i + 2]]>> \o CRLF \in Seq(Echoes)
  BY <1>2, GlyphType, Zenon
<1>5. KeyShows(s, i) \in Seq(Echoes)
  BY <1>3, <1>4, Zenon DEF KeyShows
<1> QED
  BY <1>1, <1>5

(* Shown, as its equation. *)
ShownFrom(s) ==
  CHOOSE from : from = [i \in 1 .. Len(s) + 3 |->
    IF i > Len(s) THEN <<>> ELSE KeyShows(s, i) \o from[i + KeyLen(s, i)]]

ShownStep(s, f) ==
  \A i \in 1 .. Len(s) + 3 :
    /\ f[i] \in Seq(Echoes)
    /\ f[i] = IF i > Len(s) THEN <<>> ELSE KeyShows(s, i) \o f[i + KeyLen(s, i)]

(* Shown(s) is the first value of a function that satisfies its equation. *)
LEMMA ShownEquation ==
  ASSUME NEW s \in Seq(Bytes)
  PROVE  Shown(s) = ShownFrom(s)[1] /\ ShownStep(s, ShownFrom(s))
<1> DEFINE n == Len(s)
           m == n + 3
           K(i) == KeyLen(s, i)
           H(i) == KeyShows(s, i)
           Round(w) == [i \in 1 .. m |-> IF i > n THEN <<>> ELSE H(i) \o w[i + K(i)]]
           F == ShownFrom(s)
<1>1. n \in Nat /\ m \in Nat /\ n \in 0 .. m - 1
  OBVIOUS
<1>2. \A i \in 1 .. n : K(i) \in 1 .. 3 /\ H(i) \in Seq(Echoes)
  BY KeyType, Zenon
<1>3. Shown(s) = F[1] /\ F = CHOOSE w : w = Round(w)
  BY Zenon DEF Shown, ShownFrom
<1> HIDE DEF n, K, H, F
<1>4. \A i \in 1 .. n : i + K(i) \in 1 .. m /\ i + K(i) > i /\ i + K(i) \in i + 1 .. m
  <2> SUFFICES ASSUME NEW i \in 1 .. n
               PROVE  i + K(i) \in 1 .. m /\ i + K(i) > i /\ i + K(i) \in i + 1 .. m
    BY Zenon
  <2>1. K(i) \in 1 .. 3
    BY <1>2, Zenon
  <2> HIDE DEF Round
  <2> QED
    BY <1>1, <2>1
<1> HIDE DEF m
<1>5. \E w : w = Round(w)
  <2> DEFINE Sq == Seq(Echoes)
             nil == <<>>
             nxt == [i \in 1 .. n |-> i + K(i)]
             step == [i \in 1 .. n |-> [v \in Sq |-> H(i) \o v]]
  <2>1. nxt \in [1 .. n -> 1 .. m] /\ \A i \in 1 .. n : nxt[i] > i
    BY <1>4
  <2>2. nil \in Sq /\ step \in [1 .. n -> [Sq -> Sq]]
    BY <1>2
  <2>3. \A i \in 1 .. n : nxt[i] = i + K(i) /\ \A v \in Sq : step[i][v] = H(i) \o v
    BY Zenon
  <2> HIDE DEF nxt, step, Sq, nil
  <2>4. Winds(m, n, Sq, nil, nxt, step)
    BY <1>1, <2>1, <2>2, Zenon DEF Winds
  <2>5. Unwinds(m, n, Sq, nil, nxt, step)
    BY <2>4, Unwound, Zenon
  <2>6. PICK f \in [1 .. m -> Sq] :
          \A i \in 1 .. m : f[i] = IF i > n THEN nil ELSE step[i][f[nxt[i]]]
    BY <2>5, Zenon DEF Unwinds
  <2>7. ASSUME NEW i \in 1 .. m PROVE f[i] = IF i > n THEN <<>> ELSE H(i) \o f[i + K(i)]
    <3>1. CASE i > n
      BY <2>6, <3>1, Zenon DEF nil
    <3>2. CASE ~(i > n)
      <4>1. i \in 1 .. n
        BY <1>1, <3>2 DEF m
      <4>2. i + K(i) \in 1 .. m /\ f[i + K(i)] \in Sq
        BY <1>4, <4>1, Zenon
      <4>3. f[i] = step[i][f[i + K(i)]]
        BY <2>3, <2>6, <3>2, <4>1, Zenon
      <4> QED
        BY <2>3, <3>2, <4>1, <4>2, <4>3, Zenon
    <3> QED
      BY <3>1, <3>2, Zenon
  <2> QED
    BY <2>7, Zenon
<1>6. F = Round(F)
  BY <1>3, <1>5, Zenon
<1>7. \A i \in 1 .. m : F[i] = IF i > n THEN <<>> ELSE H(i) \o F[i + K(i)]
  BY <1>6, Zenon
<1>8. \A i \in 1 .. m : F[i] \in Seq(Echoes)
  <2> DEFINE T == {i \in 1 .. m : F[i] \in Seq(Echoes)}
  <2>1. ASSUME NEW i \in 1 .. m, \A j \in i + 1 .. m : j \in T PROVE i \in T
    <3>1. CASE i > n
      <4>1. F[i] = <<>>
        BY <1>7, <3>1, Zenon
      <4>2. <<>> \in Seq(Echoes)
        OBVIOUS
      <4> QED
        BY <4>1, <4>2, Zenon
    <3>2. CASE ~(i > n)
      <4>1. i \in 1 .. n
        BY <1>1, <3>2 DEF m
      <4>2. F[i + K(i)] \in Seq(Echoes) /\ H(i) \in Seq(Echoes)
        BY <1>2, <1>4, <2>1, <4>1, Zenon
      <4>3. F[i] = H(i) \o F[i + K(i)]
        BY <1>7, <3>2, Zenon
      <4>4. H(i) \o F[i + K(i)] \in Seq(Echoes)
        BY <4>2, ConcatProperties
      <4> QED
        BY <4>3, <4>4, Zenon
    <3> QED
      BY <3>1, <3>2
  <2>2. T \in SUBSET (1 .. m)
    OBVIOUS
  <2>3. T = 1 .. m
    <3> HIDE DEF T
    <3> QED
      BY <1>1, <2>1, <2>2, DownInduction, Zenon DEF Downward
  <2> QED
    BY <2>3, Zenon
<1> QED
  BY <1>3, <1>7, <1>8, Zenon DEF n, m, K, H, F, ShownStep

(* The state that an input, read from byte i on, leaves ESC_STATE in. *)
StateStep(s, st) ==
  \A i \in 1 .. Len(s) + 3 :
    st[i] = IF i > Len(s) THEN "Idle"
            ELSE IF s[i] = "ESC" /\ i = Len(s) THEN "EscSeen"
            ELSE IF KeyLen(s, i) = 3 /\ i + 1 = Len(s) THEN "CsiOpen"
            ELSE st[i + KeyLen(s, i)]

StateFrom(s) == CHOOSE st : StateStep(s, st)

(* StateFrom(s) satisfies its equation. *)
LEMMA StateEquation ==
  ASSUME NEW s \in Seq(Bytes)
  PROVE  StateStep(s, StateFrom(s))
<1> DEFINE n == Len(s)
           m == n + 3
           K(i) == KeyLen(s, i)
           E == {"Idle", "EscSeen", "CsiOpen"}
           C(i, v) == IF s[i] = "ESC" /\ i = n THEN "EscSeen"
                      ELSE IF K(i) = 3 /\ i + 1 = n THEN "CsiOpen" ELSE v
           nxt == [i \in 1 .. n |-> i + K(i)]
           step == [i \in 1 .. n |-> [v \in E |-> C(i, v)]]
<1>1. n \in Nat /\ m \in Nat /\ n \in 0 .. m - 1
  OBVIOUS
<1>2. \A i \in 1 .. n : K(i) \in 1 .. 3
  BY KeyType, Zenon
<1>3. \A i \in 1 .. n, v \in E : C(i, v) \in E
  BY Zenon
<1> HIDE DEF n, K
<1>4. \A i \in 1 .. n : i + K(i) \in 1 .. m /\ i + K(i) > i
  BY <1>1, <1>2
<1> HIDE DEF C, m
<1>5. nxt \in [1 .. n -> 1 .. m] /\ \A i \in 1 .. n : nxt[i] > i
  BY <1>4
<1>6. "Idle" \in E /\ step \in [1 .. n -> [E -> E]]
  BY <1>3
<1>7. \A i \in 1 .. n : nxt[i] = i + K(i) /\ \A v \in E : step[i][v] = C(i, v)
  BY Zenon
<1> HIDE DEF nxt, step, E
<1>8. Winds(m, n, E, "Idle", nxt, step)
  BY <1>1, <1>5, <1>6, Zenon DEF Winds
<1>9. Unwinds(m, n, E, "Idle", nxt, step)
  BY <1>8, Unwound, Zenon
<1>10. PICK f \in [1 .. m -> E] :
         \A i \in 1 .. m : f[i] = IF i > n THEN "Idle" ELSE step[i][f[nxt[i]]]
  BY <1>9, Zenon DEF Unwinds
<1>11. ASSUME NEW i \in 1 .. m PROVE f[i] = IF i > n THEN "Idle" ELSE C(i, f[i + K(i)])
  <2>1. CASE i > n
    BY <1>10, <2>1, Zenon
  <2>2. CASE ~(i > n)
    <3>1. i \in 1 .. n
      BY <1>1, <2>2 DEF m
    <3>2. f[i + K(i)] \in E
      BY <1>4, <3>1, Zenon
    <3>3. f[i] = step[i][f[i + K(i)]]
      BY <1>7, <1>10, <2>2, <3>1, Zenon
    <3> QED
      BY <1>7, <2>2, <3>1, <3>2, <3>3, Zenon
  <2> QED
    BY <2>1, <2>2, Zenon
<1>12. StateStep(s, f)
  BY <1>11, Zenon DEF n, m, K, C, StateStep
<1> QED
  BY <1>12, Zenon DEF StateFrom

(* The keys of an input with one byte more: a key that was complete stays, *)
(* and the last one, cut short after ESC or after ESC [, takes the byte.   *)
KeyStays(r, t, i) ==
  /\ KeyLen(r, i) \in 1 .. 3 /\ i + KeyLen(r, i) <= Len(r) + 1
  /\ KeyLen(t, i) = KeyLen(r, i) /\ KeyShows(t, i) = KeyShows(r, i)
  /\ ~(r[i] = "ESC" /\ i = Len(r)) /\ ~(KeyLen(r, i) = 3 /\ i + 1 = Len(r))
  /\ ~(t[i] = "ESC" /\ i = Len(t)) /\ ~(KeyLen(t, i) = 3 /\ i + 1 = Len(t))

KeyAfterEsc(r, t, i, c) ==
  /\ r[i] = "ESC" /\ i = Len(r)
  /\ KeyLen(r, i) = 1 /\ KeyShows(r, i) = <<>>
  /\ KeyLen(t, i) = (IF c = "[" THEN 3 ELSE 2) /\ KeyShows(t, i) = <<>>

KeyAfterCsi(r, t, i, c) ==
  /\ r[i] = "ESC" /\ i + 1 = Len(r)
  /\ KeyLen(r, i) = 3 /\ KeyShows(r, i) = <<>>
  /\ KeyLen(t, i) = 3
  /\ KeyShows(t, i) = IF c \in DOMAIN Arrow THEN <<Arrow[c]>> \o CRLF ELSE <<>>

(* These are the only cases. *)
LEMMA AppendKey ==
  ASSUME NEW r \in Seq(Bytes), NEW c \in Bytes, NEW i \in 1 .. Len(r)
  PROVE  \/ KeyStays(r, Append(r, c), i)
         \/ KeyAfterEsc(r, Append(r, c), i, c)
         \/ KeyAfterCsi(r, Append(r, c), i, c)
<1> DEFINE n == Len(r)
           t == Append(r, c)
<1>1. n \in Nat /\ Len(t) = n + 1 /\ t[n + 1] = c /\ \A j \in 1 .. n : t[j] = r[j]
  OBVIOUS
<1>2. i \in 1 .. n /\ t[i] = r[i]
  BY <1>1
<1> HIDE DEF t
<1>3. CASE r[i] # "ESC"
  <2>1. KeyLen(r, i) = 1 /\ KeyLen(t, i) = 1
    BY <1>2, <1>3 DEF KeyLen
  <2>2. KeyShows(r, i) = Glyph(r[i]) /\ KeyShows(t, i) = Glyph(r[i])
    BY <1>2, <1>3, Zenon DEF KeyShows
  <2>3. KeyStays(r, t, i)
    BY <1>1, <1>2, <1>3, <2>1, <2>2 DEF KeyStays
  <2> QED
    BY <2>3 DEF t
<1>4. CASE r[i] = "ESC" /\ i = n
  <2>1. i # Len(t) /\ i + 1 = n + 1 /\ ~(i + 2 <= Len(t)) /\ ~(i + 2 <= Len(r)) /\ 1 # 3
    BY <1>1, <1>4
  <2>2. KeyLen(r, i) = 1 /\ KeyLen(t, i) = (IF c = "[" THEN 3 ELSE 2)
    BY <1>1, <1>2, <1>4, <2>1, Zenon DEF KeyLen
  <2>3. KeyShows(r, i) = <<>> /\ KeyShows(t, i) = <<>>
    BY <1>2, <1>4, <2>1, Zenon DEF KeyShows
  <2>4. KeyAfterEsc(r, t, i, c)
    BY <1>4, <2>2, <2>3, Zenon DEF KeyAfterEsc
  <2> QED
    BY <2>4 DEF t
<1>5. CASE r[i] = "ESC" /\ i # n /\ r[i + 1] # "["
  <2>1. i # Len(t) /\ i # Len(r) /\ i + 1 \in 1 .. n /\ i + 2 <= n + 1 /\ 2 # 3
    BY <1>1, <1>2, <1>5
  <2>2. KeyLen(r, i) = 2 /\ KeyLen(t, i) = 2
    BY <1>1, <1>2, <1>5, <2>1, Zenon DEF KeyLen
  <2>3. KeyShows(r, i) = <<>> /\ KeyShows(t, i) = <<>>
    BY <1>2, <1>5, <2>1, <2>2, Zenon DEF KeyShows
  <2>4. KeyStays(r, t, i)
    BY <1>1, <1>2, <1>5, <2>1, <2>2, <2>3 DEF KeyStays
  <2> QED
    BY <2>4 DEF t
<1>6. CASE r[i] = "ESC" /\ i # n /\ r[i + 1] = "["
  <2>1. i # Len(t) /\ i # Len(r) /\ i + 1 \in 1 .. n
    BY <1>1, <1>2, <1>6
  <2>2. KeyLen(r, i) = 3 /\ KeyLen(t, i) = 3
    BY <1>1, <1>2, <1>6, <2>1, Zenon DEF KeyLen
  <2>3. CASE i + 1 = n
    <3>1. ~(i + 2 <= Len(r)) /\ i + 2 <= Len(t) /\ i + 2 = n + 1
      BY <1>1, <2>3
    <3>2. KeyShows(r, i) = <<>>
      BY <1>6, <3>1, Zenon DEF KeyShows
    <3>3. KeyShows(t, i) = IF c \in DOMAIN Arrow THEN <<Arrow[c]>> \o CRLF ELSE <<>>
      BY <1>1, <1>2, <1>6, <2>2, <3>1, Zenon DEF KeyShows
    <3>4. KeyAfterCsi(r, t, i, c)
      BY <1>6, <2>2, <2>3, <3>2, <3>3, Zenon DEF KeyAfterCsi
    <3> QED
      BY <3>4 DEF t
  <2>4. CASE i + 1 # n
    <3>1. i + 2 <= Len(r) /\ i + 2 <= Len(t) /\ i + 2 \in 1 .. n
      BY <1>1, <2>1, <2>4
    <3>2. t[i + 2] = r[i + 2]
      BY <1>1, <3>1, Zenon
    <3>3. KeyShows(t, i) = KeyShows(r, i)
      BY <1>2, <1>6, <2>2, <3>1, <3>2, Zenon DEF KeyShows
    <3>4. KeyStays(r, t, i)
      BY <1>1, <1>2, <2>1, <2>2, <2>4, <3>1, <3>3 DEF KeyStays
    <3> QED
      BY <3>4 DEF t
  <2> QED
    BY <2>3, <2>4
<1> QED
  BY <1>3, <1>4, <1>5, <1>6

(* The arms of echo_uart, state by state. *)
LEMMA Arms ==
  ASSUME NEW c
  PROVE  /\ Printed("Idle", c) = IF c # "ESC" THEN Glyph(c) ELSE <<>>
         /\ Printed("EscSeen", c) = <<>>
         /\ Printed("CsiOpen", c) = IF c \in DOMAIN Arrow THEN <<Arrow[c]>> \o CRLF ELSE <<>>
         /\ NextEsc("Idle", c) = IF c = "ESC" THEN "EscSeen" ELSE "Idle"
         /\ NextEsc("EscSeen", c) = IF c = "[" THEN "CsiOpen" ELSE "Idle"
         /\ NextEsc("CsiOpen", c) = "Idle"
  BY DEF Printed, NextEsc

(* The decoder of echo_uart reads one byte and keeps one of three states,  *)
(* and shows what reading the whole input key by key shows.                *)
LEMMA ShownAppend ==
  ASSUME NEW r \in Seq(Bytes), NEW c \in Bytes
  PROVE  /\ Shown(r) \in Seq(Echoes)
         /\ Shown(Append(r, c)) = Shown(r) \o Printed(StateFrom(r)[1], c)
         /\ StateFrom(Append(r, c))[1] = NextEsc(StateFrom(r)[1], c)
<1> DEFINE n == Len(r)
           t == Append(r, c)
           F == ShownFrom(r)
           G == ShownFrom(t)
           S == StateFrom(r)
           V == StateFrom(t)
           P(q) == Printed(q, c)
           N(q) == NextEsc(q, c)
<1>1. n \in Nat /\ t \in Seq(Bytes) /\ Len(t) = n + 1 /\ t[n + 1] = c
  OBVIOUS
<1>2. /\ Shown(r) = F[1] /\ ShownStep(r, F) /\ StateStep(r, S)
      /\ Shown(t) = G[1] /\ ShownStep(t, G) /\ StateStep(t, V)
  BY <1>1, ShownEquation, StateEquation, Zenon
<1>3. \A q : P(q) \in Seq(Echoes)
  BY PrintedType, Zenon
<1>4. \A i \in 1 .. n : \/ KeyStays(r, t, i) \/ KeyAfterEsc(r, t, i, c)
                        \/ KeyAfterCsi(r, t, i, c)
  BY AppendKey, Zenon
<1> HIDE DEF n, t, F, G, S, V
<1>5. /\ \A i \in 1 .. n + 3 :
           /\ F[i] \in Seq(Echoes)
           /\ F[i] = IF i > n THEN <<>> ELSE KeyShows(r, i) \o F[i + KeyLen(r, i)]
           /\ S[i] = IF i > n THEN "Idle"
                     ELSE IF r[i] = "ESC" /\ i = n THEN "EscSeen"
                     ELSE IF KeyLen(r, i) = 3 /\ i + 1 = n THEN "CsiOpen"
                     ELSE S[i + KeyLen(r, i)]
  BY <1>2, Zenon DEF n, ShownStep, StateStep
<1>6. /\ \A i \in 1 .. n + 4 :
           /\ G[i] = IF i > Len(t) THEN <<>> ELSE KeyShows(t, i) \o G[i + KeyLen(t, i)]
           /\ V[i] = IF i > Len(t) THEN "Idle"
                     ELSE IF t[i] = "ESC" /\ i = Len(t) THEN "EscSeen"
                     ELSE IF KeyLen(t, i) = 3 /\ i + 1 = Len(t) THEN "CsiOpen"
                     ELSE V[i + KeyLen(t, i)]
  <2>1. Len(t) + 3 = n + 4
    BY <1>1
  <2> QED
    BY <1>2, <2>1, Zenon DEF ShownStep, StateStep
<1>7. \A i \in n + 2 .. n + 4 : G[i] = <<>> /\ V[i] = "Idle"
  <2>1. \A i \in n + 2 .. n + 4 : i \in 1 .. n + 4 /\ i > Len(t)
    BY <1>1
  <2> QED
    BY <1>6, <2>1, Zenon
<1> DEFINE T == {i \in 1 .. n + 1 : G[i] = F[i] \o P(S[i]) /\ V[i] = N(S[i])}
<1>8. ASSUME NEW i \in 1 .. n + 1, \A j \in i + 1 .. n + 1 : j \in T
      PROVE  i \in T
  <2>1. CASE i = n + 1
    <3>1. /\ i \in 1 .. n + 3 /\ i > n
          /\ i \in 1 .. n + 4 /\ ~(i > Len(t)) /\ i = Len(t)
          /\ i + 1 \in n + 2 .. n + 4 /\ 1 # 3
      BY <1>1, <2>1
    <3>2. F[i] = <<>> /\ S[i] = "Idle"
      BY <1>5, <3>1, Zenon
    <3>3. KeyLen(t, i) = 1
      BY <3>1, Zenon DEF KeyLen
    <3>4. KeyShows(t, i) = P("Idle")
      <4>1. t[i] = c /\ KeyLen(t, i) # 3
        BY <1>1, <2>1, <3>1, <3>3, Zenon
      <4>2. KeyShows(t, i) = IF c # "ESC" THEN Glyph(c) ELSE <<>>
        BY <4>1, Zenon DEF KeyShows
      <4>3. P("Idle") = IF c # "ESC" THEN Glyph(c) ELSE <<>>
        BY Arms, Zenon
      <4> QED
        BY <4>2, <4>3
    <3>5. G[i] = P("Idle") \o <<>>
      BY <1>6, <1>7, <3>1, <3>3, <3>4, Zenon
    <3>6. V[i] = IF c = "ESC" THEN "EscSeen" ELSE "Idle"
      BY <1>1, <1>6, <1>7, <2>1, <3>1, <3>3, Zenon
    <3>7. V[i] = N(S[i])
      BY <3>2, <3>6, Arms, Zenon
    <3>8. P("Idle") \o <<>> = <<>> \o P("Idle")
      BY <1>3, ConcatEmptySeq, Zenon
    <3>9. G[i] = F[i] \o P(S[i])
      BY <3>2, <3>5, <3>8, Zenon
    <3> QED
      BY <3>7, <3>9, Zenon
  <2>2. CASE i # n + 1
    <3>1. /\ i \in 1 .. n /\ ~(i > n) /\ ~(i > Len(t)) /\ i # Len(t)
          /\ i \in 1 .. n + 3 /\ i \in 1 .. n + 4
      BY <1>1, <2>2
    <3>2. CASE KeyStays(r, t, i)
      <4> DEFINE k == i + KeyLen(r, i)
                 h == KeyShows(r, i)
                 f == F[k]
                 g == P(S[k])
      <4>1. k \in i + 1 .. n + 1 /\ k \in 1 .. n + 3
        BY <1>1, <3>1, <3>2 DEF KeyStays, n
      <4>2. F[i] = h \o f /\ S[i] = S[k]
        BY <1>5, <3>1, <3>2, Zenon DEF KeyStays, n
      <4>3. G[i] = h \o G[k] /\ V[i] = V[k]
        BY <1>6, <3>1, <3>2, Zenon DEF KeyStays
      <4>4. G[k] = f \o g /\ V[k] = N(S[k])
        BY <1>8, <4>1, Zenon
      <4>5. h \in Seq(Echoes) /\ f \in Seq(Echoes) /\ g \in Seq(Echoes)
        BY <1>3, <1>5, <3>1, <4>1, KeyType, Zenon DEF n
      <4> HIDE DEF h, f, g
      <4>6. Regroups(h, f, g)
        BY <4>5, Assoc, Zenon
      <4>7. G[i] = F[i] \o P(S[i]) /\ V[i] = N(S[i])
        BY <4>2, <4>3, <4>4, <4>6, Zenon DEF g, Regroups
      <4> QED
        BY <4>7, Zenon
    <3>3. CASE KeyAfterEsc(r, t, i, c)
      <4>1. i + 1 > n /\ i + 1 \in 1 .. n + 3 /\ i + 2 \in n + 2 .. n + 4 /\ i + 3 \in n + 2 .. n + 4
            /\ i + 1 = Len(t) /\ 2 # 3
        BY <1>1, <3>3 DEF KeyAfterEsc, n
      <4>2. S[i] = "EscSeen" /\ F[i] = <<>> \o F[i + 1] /\ F[i + 1] = <<>>
        BY <1>5, <3>1, <3>3, <4>1, Zenon DEF KeyAfterEsc, n
      <4>3. KeyLen(t, i) \in {2, 3} /\ i + KeyLen(t, i) \in n + 2 .. n + 4
        BY <3>3, <4>1, Zenon DEF KeyAfterEsc
      <4>4. G[i] = <<>> \o <<>>
        BY <1>6, <1>7, <3>1, <3>3, <4>3, Zenon DEF KeyAfterEsc
      <4>5. V[i] = IF c = "[" THEN "CsiOpen" ELSE "Idle"
        BY <1>6, <1>7, <3>1, <3>3, <4>1, <4>3, Zenon DEF KeyAfterEsc
      <4>8. P("EscSeen") = <<>> /\ N("EscSeen") = IF c = "[" THEN "CsiOpen" ELSE "Idle"
        BY Arms, Zenon
      <4>6. P(S[i]) = <<>> /\ N(S[i]) = V[i]
        BY <4>2, <4>5, <4>8
      <4>7. <<>> \o <<>> = <<>>
        OBVIOUS
      <4> QED
        BY <4>2, <4>4, <4>6, <4>7, Zenon
    <3>4. CASE KeyAfterCsi(r, t, i, c)
      <4>1. i + 3 > n /\ i + 3 \in 1 .. n + 3 /\ i + 3 \in n + 2 .. n + 4
            /\ i + 1 # Len(t) /\ i # n
        BY <1>1, <3>1, <3>4 DEF KeyAfterCsi, n
      <4>2. S[i] = "CsiOpen" /\ F[i] = <<>> \o F[i + 3] /\ F[i + 3] = <<>>
        BY <1>5, <3>1, <3>4, <4>1, Zenon DEF KeyAfterCsi, n
      <4>3. V[i] = "Idle"
        BY <1>6, <1>7, <3>1, <3>4, <4>1, Zenon DEF KeyAfterCsi
      <4>4. KeyShows(t, i) = P("CsiOpen") /\ N("CsiOpen") = "Idle"
        BY <3>4, Arms, Zenon DEF KeyAfterCsi
      <4>5. G[i] = P("CsiOpen") \o <<>>
        BY <1>6, <1>7, <3>1, <3>4, <4>1, <4>4, Zenon DEF KeyAfterCsi
      <4>6. P("CsiOpen") \o <<>> = <<>> \o P("CsiOpen")
        BY <1>3, ConcatEmptySeq, Zenon
      <4>7. <<>> \o <<>> = <<>>
        OBVIOUS
      <4> QED
        BY <4>2, <4>3, <4>4, <4>5, <4>6, <4>7, Zenon
    <3> QED
      BY <1>4, <3>1, <3>2, <3>3, <3>4, Zenon
  <2> QED
    BY <2>1, <2>2, Zenon
<1>9. T = 1 .. n + 1
  <2>1. n + 1 \in Nat
    BY <1>1
  <2>2. T \in SUBSET (1 .. n + 1)
    BY Zenon
  <2> HIDE DEF T
  <2>3. \A i \in 1 .. n + 1 : (\A j \in i + 1 .. n + 1 : j \in T) => i \in T
    BY <1>8, Zenon
  <2> QED
    BY <2>1, <2>2, <2>3, DownInduction, Zenon DEF Downward
<1>10. 1 \in 1 .. n + 1 /\ 1 \in 1 .. n + 3
  BY <1>1
<1>11. G[1] = F[1] \o P(S[1]) /\ V[1] = N(S[1])
  BY <1>9, <1>10, Zenon
<1>12. F[1] \in Seq(Echoes)
  BY <1>5, <1>10, Zenon
<1> QED
  BY <1>2, <1>11, <1>12, Zenon DEF t, S, V

-----------------------------------------------------------------------------
(* Types, and room in the transmitter *)

(* The bytes of the line are not bytes of the echo. *)
LEMMA LetterSets ==
  /\ Bytes \subseteq Echoes /\ Echoes \subseteq Letters /\ Range(KernelLine) \subseteq Letters
  /\ \A x \in Range(KernelLine) : x \notin Echoes
  /\ \A x \in Echoes : x \notin Range(KernelLine)
  BY EchoAssumption, Zenon DEF Echoes, Letters

(* The write that is under way finds one byte at most in the transmitter. *)
Writers ==
  /\ tested \in BOOLEAN
  /\ tested => left # <<>> /\ Len(tx) <= 1
  /\ Len(tx) <= 2
  /\ depth = TxSize

CInv == TypeOK /\ Writers

(* Uart::init has run and nothing has been typed. *)
LEMMA CInvInit == Init => CInv
<1> SUFFICES ASSUME Init PROVE CInv
  OBVIOUS
<1>2. /\ typed \in Seq(Bytes) /\ fifo \in Seq(Bytes) /\ Len(fifo) = 0
      /\ out \in Seq(Echoes) /\ tx \in Seq(Letters) /\ Len(tx) = 0
      /\ screen \in Seq(Letters)
  BY DEF Init
<1>3. TypeOK
  <2>1. Len(fifo) <= FifoSize /\ Len(tx) <= 2
    BY <1>2, ConsoleAssumption
  <2>2. inflight \in 0 .. MaxInflight
    BY ConsoleAssumption DEF Init
  <2>5. diskLine \in BOOLEAN /\ pending \subseteq Sources /\ id \in Sources
    BY Zenon DEF Init, Sources
  <2>3. claimed = IF handler = "off" THEN {} ELSE {id}
    BY DEF Init
  <2>4. handler = "print" <=> out # <<>>
    BY DEF Init
  <2> QED
    BY <1>2, <2>1, <2>2, <2>5, <2>3, <2>4, ConsoleAssumption DEF Init, TypeOK
<1>4. Writers
  <2>1. Len(tx) <= 2 /\ Len(tx) <= 1
    BY <1>2
  <2>2. depth = TxSize
    BY DEF Init, init
  <2>3. tested = FALSE
    BY DEF Init
  <2> QED
    BY <1>2, <2>1, <2>2, <2>3, Zenon DEF Writers
<1> QED
  BY <1>3, <1>4 DEF CInv

(* A write of THR that finds room appends its byte. *)
LEMMA PutRoom ==
  ASSUME TypeOK, NEW c \in Letters, Len(tx) < depth, Put(c)
  PROVE  tx' = Append(tx, c) /\ tx' \in Seq(Letters) /\ Len(tx') = Len(tx) + 1
  BY DEF TypeOK, Put

(* Every step keeps the types and the room. *)
LEMMA CInvNext == CInv /\ [Next]_vars => CInv'
<1> SUFFICES ASSUME CInv, [Next]_vars PROVE CInv'
  OBVIOUS
<1> USE ConsoleAssumption DEF CInv
<1>1. ASSUME NEW c \in Bytes, Type(c) PROVE CInv'
  <2>1. typed' \in Seq(Bytes) /\ fifo' \in Seq(Bytes) /\ Len(fifo') <= FifoSize
    BY <1>1 DEF Type, TypeOK
  <2> QED
    BY <1>1, <2>1 DEF Type, output, TypeOK, Writers, Sources
<1>2. CASE DiskDone
  BY <1>2 DEF DiskDone, output, TypeOK, Writers, Sources
<1>3. ASSUME NEW s \in Sources, Claim(s) PROVE CInv'
  <2>1. claimed' = {s} /\ handler = "off"
    BY <1>3 DEF Claim, TypeOK
  <2> QED
    BY <1>3, <2>1 DEF Claim, output, TypeOK, Writers
<1>4. CASE Syscall
  BY <1>4 DEF Syscall, Supervisor, output, plic, TypeOK, Writers
<1>5. CASE SyscallReturn
  BY <1>5 DEF SyscallReturn, output, plic, TypeOK, Writers
<1>6. CASE PollThr
  BY <1>6 DEF PollThr, plic, TypeOK, Writers
<1>7. CASE WriteThr
  <2>4. Head(left) \in Range(KernelLine) /\ Tail(left) \in Seq(Range(KernelLine))
    BY <1>7 DEF WriteThr, TypeOK, Writers
  <2>1. Head(left) \in Letters /\ Len(tx) < depth
    BY <1>7, <2>4, LetterSets DEF WriteThr, TypeOK, Writers
  <2>2. tx' \in Seq(Letters) /\ Len(tx') = Len(tx) + 1 /\ Len(tx) \in Nat /\ Len(tx) <= 1
    BY <1>7, <2>1, PutRoom DEF WriteThr, TypeOK, Writers
  <2>3. Len(tx') <= 2 /\ tested' = FALSE
    BY <1>7, <2>2 DEF WriteThr
  <2> QED
    BY <1>7, <2>4, <2>2, <2>3, Zenon DEF WriteThr, plic, TypeOK, Writers
<1>8. CASE ServeDisk
  BY <1>8, Zenon DEF ServeDisk, plic, output, TypeOK, Writers
<1>9. CASE echo_uart
  <2>1. CASE fifo = <<>>
    <3>1. out = <<>>
      BY <1>9 DEF echo_uart, TypeOK
    <3> QED
      BY <1>9, <2>1, <3>1 DEF echo_uart, plic, TypeOK, Writers
  <2>2. CASE fifo # <<>>
    <3>1. Head(fifo) \in Bytes /\ Tail(fifo) \in Seq(Bytes) /\ Len(Tail(fifo)) <= FifoSize
      BY <2>2 DEF TypeOK
    <3>2. out' \in Seq(Echoes)
      BY <1>9, <2>2, <3>1, PrintedType DEF echo_uart
    <3>3. ESC_STATE' \in {"Idle", "EscSeen", "CsiOpen"}
      BY <1>9, <2>2 DEF echo_uart, NextEsc
    <3> QED
      BY <1>9, <2>2, <3>1, <3>2, <3>3, Zenon DEF echo_uart, plic, TypeOK, Writers
  <2> QED
    BY <2>1, <2>2
<1>10. CASE HandlerPut
  <2>3. Head(out) \in Echoes /\ Tail(out) \in Seq(Echoes) /\ Len(tx) = 0
    BY <1>10 DEF HandlerPut, TypeOK, Writers
  <2>1. Head(out) \in Letters
    BY <2>3, LetterSets, Zenon
  <2>2. tx' \in Seq(Letters) /\ Len(tx') = 1
    BY <1>10, <2>1, <2>3, PutRoom DEF HandlerPut, Writers
  <2> QED
    BY <1>10, <2>2, <2>3 DEF HandlerPut, plic, TypeOK, Writers
<1>11. CASE Complete
  <2>1. claimed' = {}
    BY <1>11 DEF Complete, TypeOK
  <2> QED
    BY <1>11, <2>1 DEF Complete, output, TypeOK, Writers
<1>12. CASE Transmit
  <2>1. /\ tx' \in Seq(Letters) /\ Len(tx') <= 2 /\ (tested => Len(tx') <= 1)
        /\ screen' \in Seq(Letters)
    BY <1>12 DEF Transmit, TypeOK, Writers
  <2> QED
    BY <1>12, <2>1, Zenon DEF Transmit, plic, TypeOK, Writers
<1>13. CASE UNCHANGED vars
  BY <1>13 DEF vars, output, TypeOK, Writers
<1> QED
  BY <1>1, <1>2, <1>3, <1>4, <1>5, <1>6, <1>7, <1>8, <1>9, <1>10, <1>11, <1>12, <1>13
  DEF Next, Serve, Parked, Spurious

(* Exactly the source that handle_external serves is masked, and at most   *)
(* two bytes wait in the transmitter.                                      *)
THEOREM ConsoleTypes == Spec => []TypeOK
<1>1. CInv => TypeOK
  BY DEF CInv
<1> QED
  BY <1>1, CInvInit, CInvNext, PTL DEF Spec

(* Uart::put never writes THR at a full transmitter, wherever between its  *)
(* test and its write the echo handler prints.                             *)
THEOREM ThrNeverFull == Spec => []ThrHasRoom
<1>1. CInv => ThrHasRoom
  BY ConsoleAssumption DEF CInv, Writers, ThrHasRoom
<1> QED
  BY <1>1, CInvInit, CInvNext, PTL DEF Spec

-----------------------------------------------------------------------------
(* What has been printed *)

(* Rules for sequences. *)
LEMMA Joining ==
  ASSUME NEW S, NEW a \in Seq(S), NEW b \in Seq(S), NEW c \in S
  PROVE  /\ a \o b \in Seq(S)
         /\ a \o Append(b, c) = Append(a \o b, c)
         /\ a \o <<>> = a /\ <<>> \o a = a
<1>1. a \o b \in Seq(S)
  OBVIOUS
<1>2. a \o Append(b, c) = Append(a \o b, c)
  OBVIOUS
<1>3. a \o <<>> = a /\ <<>> \o a = a
  BY ConcatEmptySeq
<1> QED
  BY <1>1, <1>2, <1>3

(* The head of one sequence may be the last of the other. *)
LEMMA Moving ==
  ASSUME NEW S, NEW a \in Seq(S), NEW b \in Seq(S), b # <<>>
  PROVE  /\ Append(a, Head(b)) \o Tail(b) = a \o b
         /\ (a \o <<Head(b)>>) \o Tail(b) = a \o b
<1>1. Append(a, Head(b)) \o Tail(b) = a \o b
  OBVIOUS
<1>2. a \o <<Head(b)>> = Append(a, Head(b))
  OBVIOUS
<1> QED
  BY <1>1, <1>2

(* The two parts of a concatenation. *)
LEMMA Splitting ==
  ASSUME NEW S, NEW a \in Seq(S), NEW b \in Seq(S)
  PROVE  /\ b = SubSeq(a \o b, Len(a \o b) - Len(b) + 1, Len(a \o b))
         /\ a = SubSeq(a \o b, 1, Len(a \o b) - Len(b))
  OBVIOUS

(* S-mode code has put the part of its line that is not left; the handler  *)
(* has put, but for out, what the bytes it has read show, and ESC_STATE is *)
(* what they leave.                                                        *)
EchoTold(w, r) ==
  /\ r \in Seq(Bytes) /\ typed = r \o fifo
  /\ OfEcho(w) \o out = Shown(r)
  /\ ESC_STATE = StateFrom(r)[1]

Told ==
  /\ OfKernel(screen \o tx) \o left = KernelLine
  /\ \E r : EchoTold(screen \o tx, r)

(* Before anything is printed. *)
LEMMA ToldInit == Init => Told
<1> SUFFICES ASSUME Init PROVE Told
  OBVIOUS
<1> DEFINE e == <<>>
<1>1. e \in Seq(Letters) /\ e \in Seq(Bytes) /\ Len(e) = 0 /\ e \o e = e /\ 1 \in 1 .. Len(e) + 1
      /\ 1 \in 1 .. Len(e) + 3 /\ 1 > Len(e)
  OBVIOUS
<1>2. KernelLine = <<>> \o KernelLine
  BY ConsoleAssumption, ConcatEmptySeq
<1>3. /\ typed = e /\ fifo = e /\ out = e /\ left = KernelLine /\ ESC_STATE = "Idle"
      /\ tx = e /\ screen = e
  BY DEF Init
<1> HIDE DEF e
<1>4. ASSUME NEW S PROVE Only(e, S) = <<>>
  <2>1. Only(e, S) = OnlyFrom(e, S)[1] /\ OnlyStep(e, S, Letters, OnlyFrom(e, S))
    BY <1>1, OnlyEquation, Zenon
  <2>2. OnlyFrom(e, S)[1] = <<>>
    BY <1>1, <2>1, Zenon DEF OnlyStep
  <2> QED
    BY <2>1, <2>2, Zenon
<1>5. Shown(e) = <<>> /\ StateFrom(e)[1] = "Idle"
  BY <1>1, ShownEquation, StateEquation, Zenon DEF ShownStep, StateStep
<1>6. OfKernel(screen \o tx) = <<>> /\ OfEcho(screen \o tx) = <<>>
  BY <1>1, <1>3, <1>4, Zenon DEF OfKernel, OfEcho
<1>7. EchoTold(screen \o tx, e)
  BY <1>1, <1>3, <1>5, <1>6, Zenon DEF EchoTold, e
<1> QED
  BY <1>2, <1>3, <1>6, <1>7, Zenon DEF Told

(* A write of THR that finds room: whose byte it is, is seen from the byte. *)
LEMMA PutTold ==
  ASSUME TypeOK, NEW c \in Letters, tx' = Append(tx, c), screen' = screen
  PROVE  /\ OfKernel(screen \o tx) \in Seq(Letters) /\ OfEcho(screen \o tx) \in Seq(Letters)
         /\ OfKernel((screen \o tx)') =
              OfKernel(screen \o tx) \o (IF c \in Range(KernelLine) THEN <<c>> ELSE <<>>)
         /\ OfEcho((screen \o tx)') =
              OfEcho(screen \o tx) \o (IF c \in Echoes THEN <<c>> ELSE <<>>)
<1> DEFINE w == screen \o tx
<1>1. screen \in Seq(Letters) /\ tx \in Seq(Letters)
  BY DEF TypeOK
<1>2. w \in Seq(Letters) /\ w' = Append(w, c)
  BY <1>1, Joining
<1> HIDE DEF w
<1>3. \A S : /\ Only(w, S) \in Seq(Letters)
             /\ Only(Append(w, c), S) = Only(w, S) \o (IF c \in S THEN <<c>> ELSE <<>>)
  BY <1>2, OnlyAppend, Zenon
<1>4. /\ OfKernel(w) \in Seq(Letters) /\ OfEcho(w) \in Seq(Letters)
      /\ OfKernel(w') = OfKernel(w) \o (IF c \in Range(KernelLine) THEN <<c>> ELSE <<>>)
      /\ OfEcho(w') = OfEcho(w) \o (IF c \in Echoes THEN <<c>> ELSE <<>>)
  BY <1>2, <1>3, Zenon DEF OfKernel, OfEcho
<1> QED
  BY <1>4 DEF w

(* A put moves a byte out of left or out, the transmitter moves it to the  *)
(* screen, and the decoder reads one byte.                                 *)
LEMMA ToldNext == CInv /\ Told /\ [Next]_vars => Told'
<1> SUFFICES ASSUME CInv, Told, [Next]_vars PROVE Told'
  OBVIOUS
<1> DEFINE w == screen \o tx
<1>1. /\ OfKernel(w) \o left = KernelLine
      /\ \E r : EchoTold(w, r)
  BY Zenon DEF Told
<1>2. PICK r : EchoTold(w, r)
  BY <1>1
<1>3. /\ screen \in Seq(Letters) /\ tx \in Seq(Letters)
      /\ out \in Seq(Echoes) /\ left \in Seq(Range(KernelLine))
      /\ out \in Seq(Letters) /\ left \in Seq(Letters)
      /\ r \in Seq(Bytes) /\ fifo \in Seq(Bytes)
  <2>1. /\ screen \in Seq(Letters) /\ tx \in Seq(Letters)
        /\ out \in Seq(Echoes) /\ left \in Seq(Range(KernelLine))
        /\ r \in Seq(Bytes) /\ fifo \in Seq(Bytes)
    BY <1>2 DEF CInv, TypeOK, EchoTold
  <2>2. out \in Seq(Letters) /\ left \in Seq(Letters)
    BY <2>1, LetterSets
  <2> QED
    BY <2>1, <2>2
<1> HIDE DEF w
<1>4. ASSUME w' = w, left' = left, NEW q, EchoTold(w, q)' PROVE Told'
  BY <1>1, <1>4, Zenon DEF w, Told
<1>5. ASSUME UNCHANGED <<typed, fifo, ESC_STATE, output>> PROVE Told'
  <2>1. w' = w /\ left' = left
    BY <1>5 DEF w, output
  <2>2. EchoTold(w, r)'
    BY <1>2, <1>5, <2>1 DEF EchoTold, output, OfEcho
  <2> QED
    BY <1>4, <2>1, <2>2, Zenon
<1>6. ASSUME NEW c \in Bytes, Type(c) PROVE Told'
  <2>1. UNCHANGED <<ESC_STATE, output>> /\ typed' = Append(typed, c) /\ fifo' = Append(fifo, c)
    BY <1>6 DEF Type
  <2>2. w' = w /\ left' = left /\ out' = out
    BY <2>1 DEF w, output
  <2>3. r \o Append(fifo, c) = Append(r \o fifo, c)
    BY <1>3, Joining
  <2>4. EchoTold(w, r)'
    BY <1>2, <2>1, <2>2, <2>3 DEF EchoTold, OfEcho
  <2> QED
    BY <1>4, <2>2, <2>4, Zenon
<1>7. CASE WriteThr
  <2> DEFINE c == Head(left)
  <2>1. c \in Range(KernelLine) /\ left # <<>>
    BY <1>3, <1>7 DEF WriteThr, CInv, Writers
  <2>2. c \in Letters /\ c \notin Echoes
    BY <2>1, LetterSets, Zenon
  <2>3. Len(tx) < depth /\ Put(c) /\ screen' = screen
    BY <1>3, <1>7, ConsoleAssumption DEF WriteThr, CInv, Writers
  <2>4. tx' = Append(tx, c)
    BY <2>2, <2>3, PutRoom, Zenon DEF CInv
  <2>5. /\ OfKernel(w) \in Seq(Letters) /\ OfEcho(w) \in Seq(Letters)
        /\ OfKernel(w') = OfKernel(w) \o <<c>> /\ OfEcho(w') = OfEcho(w) \o <<>>
    BY <2>1, <2>2, <2>3, <2>4, PutTold, Zenon DEF CInv, w
  <2>6. (OfKernel(w) \o <<c>>) \o Tail(left) = OfKernel(w) \o left
    BY <1>3, <2>1, <2>5, Moving, Zenon
  <2>7. OfEcho(w) \o <<>> = OfEcho(w)
    BY <2>5, ConcatEmptySeq, Zenon
  <2>8. UNCHANGED <<typed, fifo, ESC_STATE, out>> /\ left' = Tail(left)
    BY <1>7 DEF WriteThr
  <2>9. EchoTold(w, r)'
    BY <1>2, <2>5, <2>7, <2>8, Zenon DEF EchoTold
  <2>10. (OfKernel(w) \o left)' = KernelLine
    BY <1>1, <2>5, <2>6, <2>8, Zenon
  <2> QED
    BY <2>9, <2>10, Zenon DEF Told, w
<1>8. CASE HandlerPut
  <2> DEFINE c == Head(out)
  <2>1. c \in Echoes /\ out # <<>> /\ tx = <<>>
    BY <1>3, <1>8 DEF HandlerPut, CInv, TypeOK
  <2>2. c \in Letters /\ c \notin Range(KernelLine)
    BY <2>1, LetterSets, Zenon
  <2>3. Len(tx) < depth /\ Put(c) /\ screen' = screen
    BY <1>8, <2>1, ConsoleAssumption DEF HandlerPut, CInv, Writers
  <2>4. tx' = Append(tx, c)
    BY <2>2, <2>3, PutRoom, Zenon DEF CInv
  <2>5. /\ OfKernel(w) \in Seq(Letters) /\ OfEcho(w) \in Seq(Letters)
        /\ OfKernel(w') = OfKernel(w) \o <<>> /\ OfEcho(w') = OfEcho(w) \o <<c>>
    BY <2>1, <2>2, <2>3, <2>4, PutTold, Zenon DEF CInv, w
  <2>6. (OfEcho(w) \o <<c>>) \o Tail(out) = OfEcho(w) \o out
    BY <1>3, <2>1, <2>5, Moving, Zenon
  <2>7. OfKernel(w) \o <<>> = OfKernel(w)
    BY <2>5, ConcatEmptySeq, Zenon
  <2>8. UNCHANGED <<typed, fifo, ESC_STATE, left>> /\ out' = Tail(out)
    BY <1>8 DEF HandlerPut
  <2>9. EchoTold(w, r)'
    BY <1>2, <2>5, <2>6, <2>8, Zenon DEF EchoTold
  <2>10. (OfKernel(w) \o left)' = KernelLine
    BY <1>1, <2>5, <2>7, <2>8, Zenon
  <2> QED
    BY <2>9, <2>10, Zenon DEF Told, w
<1>9. CASE Transmit
  <2>1. tx # <<>> /\ tx' = Tail(tx) /\ screen' = Append(screen, Head(tx))
        /\ UNCHANGED <<typed, fifo, ESC_STATE, out, left>>
    BY <1>9 DEF Transmit
  <2>4. Append(screen, Head(tx)) \o Tail(tx) = screen \o tx
    BY <1>3, <2>1, Moving, Zenon
  <2>2. w' = w
    BY <2>1, <2>4, Zenon DEF w
  <2>3. EchoTold(w, r)'
    BY <1>2, <2>1, <2>2, Zenon DEF EchoTold
  <2> QED
    BY <1>4, <2>1, <2>2, <2>3, Zenon
<1>10. CASE echo_uart
  <2>1. handler = "serve" /\ UNCHANGED <<typed, left, tx, screen>>
    BY <1>10 DEF echo_uart
  <2>2. w' = w /\ left' = left
    BY <2>1 DEF w
  <2>3. CASE fifo = <<>>
    <3>1. UNCHANGED <<fifo, ESC_STATE, out>>
      BY <1>10, <2>3 DEF echo_uart
    <3>2. EchoTold(w, r)'
      BY <1>2, <2>1, <2>2, <3>1, Zenon DEF EchoTold
    <3> QED
      BY <1>4, <2>2, <3>2, Zenon
  <2>4. CASE fifo # <<>>
    <3>0. PICK c : c = Head(fifo)
      OBVIOUS
    <3> DEFINE q == Append(r, c)
    <3>1. c \in Bytes /\ q \in Seq(Bytes) /\ out = <<>>
      BY <1>3, <2>1, <2>4, <3>0 DEF CInv, TypeOK
    <3>2. /\ out' = Printed(ESC_STATE, c) /\ ESC_STATE' = NextEsc(ESC_STATE, c)
          /\ fifo' = Tail(fifo)
      BY <1>10, <2>4, <3>0 DEF echo_uart
    <3>3. q \o Tail(fifo) = r \o fifo
      BY <1>3, <2>4, <3>0, Moving, Zenon
    <3>4. OfEcho(w) \in Seq(Letters)
      <4>1. c \in Letters /\ w \in Seq(Letters)
        <5>1. c \in Letters
          BY <3>1, LetterSets, Zenon
        <5> QED
          BY <1>3, <5>1, Joining DEF w
      <4> QED
        BY <4>1, OnlyAppend, Zenon DEF OfEcho
    <3>5. OfEcho(w) = Shown(r)
      BY <1>2, <3>1, <3>4, ConcatEmptySeq, Zenon DEF EchoTold
    <3>6. /\ Shown(q) = Shown(r) \o Printed(ESC_STATE, c)
          /\ StateFrom(q)[1] = NextEsc(ESC_STATE, c)
      BY <1>2, <1>3, <3>1, ShownAppend, Zenon DEF EchoTold
    <3> HIDE DEF q
    <3>7. EchoTold(w, q)'
      BY <1>2, <2>1, <2>2, <3>1, <3>2, <3>3, <3>5, <3>6, Zenon DEF EchoTold
    <3> QED
      BY <1>4, <2>2, <3>7, Zenon
  <2> QED
    BY <2>3, <2>4
<1>11. CASE DiskDone \/ (\E s \in Sources : Claim(s)) \/ Syscall \/ SyscallReturn \/ Parked
            \/ Spurious \/ ServeDisk \/ Complete \/ UNCHANGED vars
  BY <1>5, <1>11
  DEF DiskDone, Claim, Syscall, SyscallReturn, Parked, Spurious, ServeDisk, Complete, vars
<1>12. CASE PollThr
  <2>1. UNCHANGED <<typed, fifo, ESC_STATE, out, left, tx, screen>>
    BY <1>12 DEF PollThr
  <2>2. w' = w
    BY <2>1 DEF w
  <2>3. EchoTold(w, r)'
    BY <1>2, <2>1, <2>2, Zenon DEF EchoTold
  <2> QED
    BY <1>4, <2>1, <2>2, <2>3, Zenon
<1> QED
  BY <1>6, <1>7, <1>8, <1>9, <1>10, <1>11, <1>12 DEF Next, Serve

(* The two invariants together. *)
LEMMA CInvToldNext == CInv /\ Told /\ [Next]_vars => CInv' /\ Told'
  BY CInvNext, ToldNext

(* The line that S-mode code prints with Uart::write_str loses no byte and *)
(* keeps its order, whatever the handler prints inside it.                 *)
THEOREM LineKept == Spec => []LineWhole
<1>1. Told => LineWhole
  BY Zenon DEF Told, LineWhole
<1> QED
  BY <1>1, CInvInit, ToldInit, CInvToldNext, PTL DEF Spec

(* Whatever is typed, and however the interrupts fall, echo_uart shows     *)
(* exactly what the bytes read so far show key by key, and the others      *)
(* still wait in the FIFO in their order.                                  *)
THEOREM EchoKept == Spec => []EchoExact
<1>1. CInv /\ Told => EchoExact
  <2> SUFFICES ASSUME CInv, Told PROVE EchoExact
    OBVIOUS
  <2>1. PICK r : EchoTold(screen \o tx, r)
    BY Zenon DEF Told
  <2>2. /\ r \in Seq(Bytes) /\ fifo \in Seq(Bytes) /\ typed = r \o fifo
        /\ OfEcho(screen \o tx) \o out = Shown(r)
    BY <2>1, Zenon DEF EchoTold, CInv, TypeOK
  <2>3. /\ fifo = SubSeq(typed, Len(typed) - Len(fifo) + 1, Len(typed))
        /\ r = SubSeq(typed, 1, Len(typed) - Len(fifo))
    BY <2>2, Splitting
  <2> QED
    BY <2>2, <2>3, Zenon DEF EchoExact
<1> QED
  BY <1>1, CInvInit, ToldInit, CInvToldNext, PTL DEF Spec
=============================================================================
