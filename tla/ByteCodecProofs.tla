--------------------------- MODULE ByteCodecProofs ---------------------------
(***************************************************************************)
(* Proofs about ByteCodec for any messages, sizes and limits, and however  *)
(* the bytes are cut into chunks.                                          *)
(***************************************************************************)
EXTENDS ByteCodec, SequenceTheorems, WellFoundedInduction, TLAPS

-----------------------------------------------------------------------------
(***************************************************************************)
(* Induction and recursion over the natural numbers.                       *)
(***************************************************************************)

LEMMA LeastNat ==
    ASSUME NEW T \in SUBSET Nat, T # {}
    PROVE  \E x \in T : \A y \in T : x <= y
<1>. DEFINE R == OpToRel(<, Nat)
<1>1. R = {ss \in Nat \X Nat : ss[1] < ss[2]}
  BY DEF OpToRel
<1>2. IsWellFoundedOn(R, Nat)
  BY Zenon, NatLessThanWellFounded
<1>. HIDE DEF R
<1>3. PICK x \in T : \A y \in T : ~(<<y, x>> \in R)
  BY Zenon, <1>2, WFMin
<1>4. \A y \in T : ~(y < x)
  BY Zenon, <1>1, <1>3
<1>. QED  BY <1>4

\* A set that has 0, and with a number below n its successor, has all up to n.
LEMMA UpTo ==
    ASSUME NEW n \in Nat, NEW T, 0 \in T, \A i \in 0 .. n - 1 : i \in T => i + 1 \in T
    PROVE  0 .. n \subseteq T
<1>. SUFFICES ASSUME (0 .. n) \ T # {} PROVE FALSE
  OBVIOUS
<1>. DEFINE U == (0 .. n) \ T
<1>1. PICK x \in U : \A y \in U : x <= y
  <2>1. U \in SUBSET Nat /\ U # {}
    OBVIOUS
  <2>. QED  BY Zenon, <2>1, LeastNat
<1>2. x - 1 \in 0 .. n - 1 /\ x - 1 \in 0 .. n /\ (x - 1) + 1 = x /\ ~(x <= x - 1)
  BY <1>1
<1>. QED  BY Zenon, <1>1, <1>2

\* The values of g from 0 to n are given by the first one, and each by the one
\* before it.
Recurs(g, n, X, x, G) ==
    g \in [0 .. n -> X] /\ g[0] = x /\ \A i \in 1 .. n : g[i] = G[i][g[i - 1]]

\* A function on 0 .. n may be given by its first value and by each value in
\* terms of the one before it.
LEMMA Recursion ==
    ASSUME NEW X, NEW x \in X, NEW n \in Nat, NEW G \in [1 .. n -> [X -> X]]
    PROVE  \E g : Recurs(g, n, X, x, G)
<1>. DEFINE Good(k, g) == g[0] = x /\ \A i \in 1 .. k : g[i] = G[i][g[i - 1]]
            T == {k \in 0 .. n : \E g \in [0 .. k -> X] : Good(k, g)}
<1>1. 0 \in T
  <2>1. [i \in 0 .. 0 |-> x] \in [0 .. 0 -> X] /\ Good(0, [i \in 0 .. 0 |-> x])
    OBVIOUS
  <2>2. 0 \in 0 .. n
    OBVIOUS
  <2>. QED  BY Zenon, <2>1, <2>2
<1>2. ASSUME NEW k \in 0 .. n - 1, k \in T PROVE k + 1 \in T
  <2>1. PICK g \in [0 .. k -> X] : Good(k, g)
    BY Zenon, <1>2
  <2>. DEFINE h == [i \in 0 .. k + 1 |-> IF i = k + 1 THEN G[k + 1][g[k]] ELSE g[i]]
  <2>2. h \in [0 .. k + 1 -> X]
    <3>1. G[k + 1][g[k]] \in X
      OBVIOUS
    <3>. QED  BY <3>1
  <2>3. h[0] = g[0] /\ h[k + 1] = G[k + 1][g[k]] /\ \A i \in 0 .. k : h[i] = g[i]
    OBVIOUS
  <2>. HIDE DEF h
  <2>4. Good(k + 1, h)
    <3>1. \A i \in 1 .. k + 1 : i = k + 1 \/ i \in 1 .. k
      OBVIOUS
    <3>2. \A i \in 1 .. k : i \in 0 .. k /\ i - 1 \in 0 .. k
      OBVIOUS
    <3>3. (k + 1) - 1 = k /\ k \in 0 .. k
      OBVIOUS
    <3>4. h[0] = x /\ h[k + 1] = G[k + 1][h[k]]
      BY Zenon, <2>1, <2>3, <3>3
    <3>5. \A i \in 1 .. k : h[i] = G[i][h[i - 1]]
      BY Zenon, <2>1, <2>3, <3>2
    <3>6. \A i \in 1 .. k + 1 : h[i] = G[i][h[i - 1]]
      BY Zenon, <3>1, <3>3, <3>4, <3>5
    <3>. QED  BY Zenon, <3>4, <3>6
  <2>5. k + 1 \in 0 .. n
    OBVIOUS
  <2>. QED  BY Zenon, <2>2, <2>4, <2>5
<1>3. n \in T
  <2>1. 0 .. n \subseteq T
    BY Zenon, <1>1, <1>2, UpTo
  <2>. QED  BY <2>1
<1>. QED  BY Zenon, <1>3 DEF Recurs

-----------------------------------------------------------------------------
(***************************************************************************)
(* Sequences, and the sequence that FlattenSeq makes of several.           *)
(***************************************************************************)

Grouped(a, b, c) == (a \o b) \o c = a \o (b \o c)

LEMMA Regroup ==
    ASSUME NEW B, NEW a \in Seq(B), NEW b \in Seq(B), NEW c \in Seq(B)
    PROVE  Grouped(a, b, c)
BY ConcatAssociative DEF Grouped

\* Two sequences that go on from the same first part, or from first parts of
\* the same length.
LEMMA SameLength ==
    ASSUME NEW B, NEW a \in Seq(B), NEW b \in Seq(B), NEW c \in Seq(B), NEW d \in Seq(B),
           a \o b = c \o d, Len(a) = Len(c)
    PROVE  a = c /\ b = d
<1>1. /\ Len(a) \in Nat /\ Len(b) \in Nat /\ Len(d) \in Nat
      /\ \A i \in 1 .. Len(a) + Len(b) : (a \o b)[i] = IF i <= Len(a) THEN a[i] ELSE b[i - Len(a)]
      /\ \A i \in 1 .. Len(c) + Len(d) : (c \o d)[i] = IF i <= Len(c) THEN c[i] ELSE d[i - Len(c)]
  BY Zenon, ConcatProperties, LenProperties
<1>. DEFINE ab == a \o b
            k == Len(a)
<1>2. \A i \in 1 .. k : i \in 1 .. k + Len(b) /\ i \in 1 .. k + Len(d) /\ i <= k
  BY <1>1
<1>3. \A i \in 1 .. k : a[i] = c[i]
  BY Zenon, <1>1, <1>2
<1>4. a = c
  BY Zenon, <1>3, SeqEqual
<1>5. \A u, v, w \in Seq(B) : u \o v = u \o w => v = w
  BY Zenon, ConcatSimplifications
<1>. QED  BY Zenon, <1>4, <1>5

CutOff(a, k, b, c, d, B) ==
    /\ SubSeq(a, 1, k) = c
    /\ SubSeq(a, k + 1, Len(a)) \in Seq(B)
    /\ SubSeq(a, k + 1, Len(a)) \o b = d

\* Two ways to cut a sequence, the first not before the second.
LEMMA Cut ==
    ASSUME NEW B, NEW a \in Seq(B), NEW b \in Seq(B), NEW c \in Seq(B), NEW d \in Seq(B),
           a \o b = c \o d, Len(c) <= Len(a)
    PROVE  CutOff(a, Len(c), b, c, d, B)
<1>. DEFINE x == SubSeq(a, 1, Len(c))
            y == SubSeq(a, Len(c) + 1, Len(a))
<1>1. x \in Seq(B) /\ y \in Seq(B) /\ Len(x) = Len(c)
  OBVIOUS
<1>2. a = x \o y
  <2>1. 1 \in 1 .. Len(a) + 1 /\ Len(c) \in 1 - 1 .. Len(a) /\ Len(a) \in Len(c) .. Len(a)
    OBVIOUS
  <2>2. x \o y = SubSeq(a, 1, Len(a))
    BY Zenon, <2>1, ConcatAdjacentSubSeq
  <2>. QED  BY Zenon, <2>2, SubSeqFull
<1>. HIDE DEF x, y
<1>3. x \o (y \o b) = c \o d
  <2>1. (x \o y) \o b = x \o (y \o b)
    <3>1. Grouped(x, y, b)
      BY Zenon, <1>1, Regroup
    <3>. QED  BY Zenon, <3>1 DEF Grouped
  <2>. QED  BY Zenon, <1>2, <2>1
<1>4. y \o b \in Seq(B)
  BY Zenon, <1>1, ConcatProperties
<1>5. x = c /\ y \o b = d
  BY Zenon, <1>1, <1>3, <1>4, SameLength
<1>. QED  BY Zenon, <1>1, <1>5 DEF x, y, CutOff

\* f lists what FlattenSeq makes of the first 0, 1, 2, ... sequences of ss.
Flattens(f, ss, B) ==
    /\ f \in [0 .. Len(ss) -> Seq(B)] /\ f[0] = <<>>
    /\ \A i \in 1 .. Len(ss) : f[i] = f[i - 1] \o ss[i]

LEMMA FlattenIs ==
    ASSUME NEW B, NEW ss \in Seq(Seq(B))
    PROVE  \E f : Flattens(f, ss, B) /\ FlattenSeq(ss) = f[Len(ss)]
<1>. DEFINE n == Len(ss)
            G == [i \in 1 .. n |-> [q \in Seq(B) |-> q \o ss[i]]]
<1>1. n \in Nat /\ \A i \in 1 .. n : ss[i] \in Seq(B)
  OBVIOUS
<1>2. /\ G \in [1 .. n -> [Seq(B) -> Seq(B)]]
      /\ \A i \in 1 .. n, q \in Seq(B) : G[i][q] = q \o ss[i]
  <2>1. \A i \in 1 .. n, q \in Seq(B) : q \o ss[i] \in Seq(B)
    BY Zenon, <1>1, ConcatProperties
  <2>. QED  BY Zenon, <2>1
<1>. HIDE DEF G
<1>3. PICK g \in [0 .. n -> Seq(B)] : g[0] = <<>> /\ \A i \in 1 .. n : g[i] = G[i][g[i - 1]]
  <2>1. <<>> \in Seq(B)
    OBVIOUS
  <2>2. \E g : Recurs(g, n, Seq(B), <<>>, G)
    BY Zenon, <1>1, <1>2, <2>1, Recursion
  <2>. QED  BY Zenon, <2>2 DEF Recurs
<1>4. \A i \in 1 .. n : g[i] = g[i - 1] \o ss[i] /\ i - 1 \in 0 .. n
  <2>1. \A i \in 1 .. n : i \in 0 .. n /\ i - 1 \in 0 .. n
    BY <1>1
  <2>. HIDE DEF G, n
  <2>. QED  BY Zenon, <1>2, <1>3, <2>1
<1>5. CASE n = 0
  BY <1>3, <1>4, <1>5 DEF Flattens, FlattenSeq
<1>6. CASE n # 0
  <2>. DEFINE Is(u) == u = [i \in 1 .. n |-> IF i = 1 THEN ss[i] ELSE u[i - 1] \o ss[i]]
              h == [i \in 1 .. n |-> g[i]]
              e == CHOOSE u : Is(u)
              T == {i \in 0 .. n : i = 0 \/ e[i] = g[i]}
  <2>1. Is(h)
    <3>1. \A i \in 1 .. n : i # 1 => i - 1 \in 1 .. n
      BY <1>1
    <3>2. g[1] = ss[1]
      <4>1. 1 \in 1 .. n /\ 1 - 1 = 0
        BY <1>1, <1>6
      <4>2. g[1] = <<>> \o ss[1]
        BY Zenon, <1>3, <1>4, <4>1
      <4>. QED  BY Zenon, <1>1, <4>1, <4>2, ConcatEmptySeq
    <3>3. \A i \in 1 .. n : h[i] = IF i = 1 THEN ss[i] ELSE h[i - 1] \o ss[i]
      <4>. HIDE DEF n
      <4>. QED  BY Zenon, <1>4, <3>1, <3>2
    <3>. QED  BY Zenon, <3>3
  <2>2. Is(e)
    BY Zenon, <2>1
  <2>3. FlattenSeq(ss) = e[n]
    BY Zenon, <1>6 DEF FlattenSeq
  <2>. HIDE DEF e, n, G
  <2>4. \A i \in 1 .. n : e[i] = IF i = 1 THEN ss[i] ELSE e[i - 1] \o ss[i]
    BY Zenon, <2>2
  <2>5. ASSUME NEW i \in 0 .. n - 1, i \in T PROVE i + 1 \in T
    <3>1. i + 1 \in 1 .. n /\ (i + 1) - 1 = i
      BY <1>1
    <3>4. g[1] = ss[1]
      <4>1. 1 \in 1 .. n /\ 1 - 1 = 0
        BY <1>1, <1>6
      <4>2. g[1] = <<>> \o ss[1]
        BY Zenon, <1>3, <1>4, <4>1
      <4>. QED  BY Zenon, <1>1, <4>1, <4>2, ConcatEmptySeq
    <3>2. CASE i = 0
      BY SMTT(30), <1>1, <2>4, <3>1, <3>2, <3>4
    <3>3. CASE i # 0
      <4>1. i + 1 # 1
        BY <3>3
      <4>2. e[i + 1] = e[i] \o ss[i + 1] /\ g[i + 1] = g[i] \o ss[i + 1] /\ e[i] = g[i]
        BY Zenon, <1>4, <2>4, <2>5, <3>1, <3>3, <4>1
      <4>3. i + 1 \in 0 .. n
        BY <1>1
      <4>. QED  BY Zenon, <4>2, <4>3
    <3>. QED  BY <3>2, <3>3
  <2>6. n \in T
    <3>1. 0 \in T
      BY <1>1
    <3>2. 0 .. n \subseteq T
      <4>. HIDE DEF T
      <4>. QED  BY Zenon, <1>1, <2>5, <3>1, UpTo
    <3>3. n \in 0 .. n
      BY <1>1
    <3>. QED  BY <3>2, <3>3
  <2>7. FlattenSeq(ss) = g[n]
    BY <1>6, <2>3, <2>6
  <2>. QED  BY Zenon, <1>3, <1>4, <2>7 DEF Flattens, n
<1>. QED  BY Zenon, <1>5, <1>6

SameAt(f, g, n) == f[n] = g[n]

\* What is made of the first n sequences depends on these only.
LEMMA FlattensSame ==
    ASSUME NEW B, NEW ss \in Seq(Seq(B)), NEW tt \in Seq(Seq(B)), NEW f, NEW g, NEW n \in Nat,
           Flattens(f, ss, B), Flattens(g, tt, B), Len(ss) = n, Len(tt) \in Nat, n <= Len(tt),
           \A i \in 1 .. n : ss[i] = tt[i]
    PROVE  SameAt(f, g, n)
<1>. DEFINE T == {i \in 0 .. n : f[i] = g[i]}
<1>1. 0 \in T
  BY DEF Flattens
<1>2. ASSUME NEW i \in 0 .. n - 1, i \in T PROVE i + 1 \in T
  <2>1. /\ i + 1 \in 1 .. Len(ss) /\ i + 1 \in 1 .. Len(tt) /\ i + 1 \in 1 .. n /\ i + 1 \in 0 .. n
        /\ (i + 1) - 1 = i
    BY LenProperties
  <2>2. f[i + 1] = f[i] \o ss[i + 1] /\ g[i + 1] = g[i] \o tt[i + 1]
    BY Zenon, <2>1 DEF Flattens
  <2>. QED  BY Zenon, <1>2, <2>1, <2>2
<1>. HIDE DEF T
<1>3. 0 .. n \subseteq T
  BY Zenon, <1>1, <1>2, UpTo
<1>4. n \in T
  BY <1>3
<1>. QED  BY <1>4 DEF T, SameAt

LEMMA FlattenType ==
    ASSUME NEW B, NEW ss \in Seq(Seq(B))
    PROVE  FlattenSeq(ss) \in Seq(B)
<1>1. PICK f : Flattens(f, ss, B) /\ FlattenSeq(ss) = f[Len(ss)]
  BY Zenon, FlattenIs
<1>2. Len(ss) \in 0 .. Len(ss)
  BY LenProperties
<1>. QED  BY Zenon, <1>1, <1>2 DEF Flattens

\* FlattenSeq and one sequence more at the end ...
LEMMA FlattenAppend ==
    ASSUME NEW B, NEW ss \in Seq(Seq(B)), NEW q \in Seq(B)
    PROVE  FlattenSeq(Append(ss, q)) = FlattenSeq(ss) \o q
<1>. DEFINE tt == Append(ss, q)
            n == Len(ss)
<1>1. /\ n \in Nat /\ tt \in Seq(Seq(B)) /\ Len(tt) = n + 1 /\ tt[n + 1] = q
      /\ \A i \in 1 .. n : ss[i] = tt[i]
  BY AppendProperties, LenProperties
<1>. HIDE DEF tt
<1>2. PICK f : Flattens(f, ss, B) /\ FlattenSeq(ss) = f[n]
  BY Zenon, FlattenIs
<1>3. PICK g : Flattens(g, tt, B) /\ FlattenSeq(tt) = g[Len(tt)]
  BY Zenon, <1>1, FlattenIs
<1>. HIDE DEF n
<1>4. Len(ss) = n /\ n <= Len(tt) /\ Len(tt) \in Nat
  BY <1>1 DEF n
<1>5. SameAt(f, g, n)
  BY Zenon, <1>1, <1>2, <1>3, <1>4, FlattensSame
<1>6. n + 1 \in 1 .. Len(tt) /\ (n + 1) - 1 = n
  BY <1>1
<1>7. g[n + 1] = g[n] \o tt[n + 1]
  BY Zenon, <1>3, <1>6 DEF Flattens
<1>8. FlattenSeq(tt) = FlattenSeq(ss) \o q
  BY Zenon, <1>1, <1>2, <1>3, <1>5, <1>7 DEF SameAt
<1>. QED  BY Zenon, <1>8 DEF tt

\* ... and of a sequence more at the front.
LEMMA FlattenFirst ==
    ASSUME NEW B, NEW ss \in Seq(Seq(B)), ss # <<>>
    PROVE  FlattenSeq(ss) = ss[1] \o FlattenSeq(Tail(ss))
<1>. DEFINE tt == Tail(ss)
            n == Len(tt)
<1>1. /\ n \in Nat /\ tt \in Seq(Seq(B)) /\ Len(ss) = n + 1
      /\ \A i \in 1 .. n : tt[i] = ss[i + 1]
  BY HeadTailProperties, LenProperties
<1>. HIDE DEF tt
<1>2. PICK f : Flattens(f, ss, B) /\ FlattenSeq(ss) = f[n + 1]
  BY Zenon, <1>1, FlattenIs
<1>3. PICK g : Flattens(g, tt, B) /\ FlattenSeq(tt) = g[n]
  BY Zenon, <1>1, FlattenIs
<1>4. /\ 1 \in 1 .. Len(ss) /\ 1 - 1 = 0 /\ \A i \in 1 .. Len(ss) : ss[i] \in Seq(B)
      /\ \A i \in 1 .. n : tt[i] \in Seq(B)
  BY <1>1 DEF n
<1>. DEFINE T == {i \in 0 .. n : f[i + 1] = ss[1] \o g[i]}
<1>5. 0 \in T
  <2>1. 0 \in 0 .. n /\ 0 + 1 = 1
    BY <1>1
  <2>2. f[1] = <<>> \o ss[1] /\ g[0] = <<>>
    BY Zenon, <1>2, <1>3, <1>4 DEF Flattens
  <2>3. <<>> \o ss[1] = ss[1] /\ ss[1] \o <<>> = ss[1]
    BY Zenon, <1>4, ConcatEmptySeq
  <2>. QED  BY Zenon, <2>1, <2>2, <2>3
<1>6. ASSUME NEW i \in 0 .. n - 1, i \in T PROVE i + 1 \in T
  <2>1. /\ i + 1 \in 1 .. n /\ (i + 1) - 1 = i /\ i + 1 \in 0 .. n /\ i \in 0 .. n
        /\ (i + 1) + 1 \in 1 .. Len(ss) /\ ((i + 1) + 1) - 1 = i + 1
    BY SMTT(30), <1>1
  <2>2. f[(i + 1) + 1] = f[i + 1] \o ss[(i + 1) + 1]
    BY Zenon, <1>2, <2>1 DEF Flattens
  <2>3. g[i + 1] = g[i] \o tt[i + 1] /\ g[i] \in Seq(B)
    BY Zenon, <1>3, <2>1 DEF Flattens, n
  <2>4. (ss[1] \o g[i]) \o tt[i + 1] = ss[1] \o (g[i] \o tt[i + 1])
    <3>1. ss[1] \in Seq(B) /\ g[i] \in Seq(B) /\ tt[i + 1] \in Seq(B)
      BY Zenon, <1>4, <2>1, <2>3
    <3>2. Grouped(ss[1], g[i], tt[i + 1])
      BY Zenon, <3>1, Regroup
    <3>. QED  BY Zenon, <3>2 DEF Grouped
  <2>5. ss[(i + 1) + 1] = tt[i + 1]
    BY Zenon, <1>1, <2>1
  <2>6. f[i + 1] = ss[1] \o g[i]
    BY Zenon, <1>6
  <2>7. f[(i + 1) + 1] = ss[1] \o g[i + 1]
    BY Zenon, <2>2, <2>3, <2>4, <2>5, <2>6
  <2>. QED  BY Zenon, <2>1, <2>7
<1>. HIDE DEF T, n
<1>7. 0 .. n \subseteq T
  BY Zenon, <1>1, <1>5, <1>6, UpTo
<1>8. n \in T
  BY <1>1, <1>7
<1>9. FlattenSeq(ss) = ss[1] \o FlattenSeq(tt)
  BY Zenon, <1>2, <1>3, <1>8 DEF T
<1>. QED  BY Zenon, <1>9 DEF tt

-----------------------------------------------------------------------------
(***************************************************************************)
(* Frames.                                                                 *)
(***************************************************************************)

Byte ==
    [part : {"header"}, of : Nat, i : Nat] \cup [part : {"body"}, of : Message, i : Nat]

Frame(m) == Header(SizeOf[m]) \o Body(m)

Frames(ms) == [i \in 1 .. Len(ms) |-> Frame(ms[i])]

\* The bytes that encode makes of several messages.
Encoded(ms) == FlattenSeq(Frames(ms))

LEMMA HeaderIs ==
    ASSUME NEW n \in Nat
    PROVE  /\ Header(n) \in Seq(Byte) /\ Len(Header(n)) = HeaderSize /\ Header(n) # <<>>
           /\ 1 \in 1 .. HeaderSize /\ Header(n)[1].of = n
BY SMTT(30), CodecAssumption DEF Header, Byte

LEMMA BodyIs ==
    ASSUME NEW m \in Message
    PROVE  /\ SizeOf[m] \in Nat /\ Body(m) \in Seq(Byte) /\ Len(Body(m)) = SizeOf[m]
           /\ \A i \in 1 .. SizeOf[m] : Body(m)[i].of = m
BY CodecAssumption DEF Body, Byte

\* A body is the encoding of one message.
LEMMA DecodedIs ==
    ASSUME NEW m \in Message
    PROVE  Decoded(Body(m)) = {m}
<1>1. ASSUME NEW k \in Message, Body(k) = Body(m) PROVE k = m
  <2>1. SizeOf[k] = SizeOf[m]
    BY Zenon, <1>1, BodyIs
  <2>2. CASE SizeOf[m] = 0
    BY Zenon, <2>1, <2>2, CodecAssumption
  <2>3. CASE SizeOf[m] # 0
    <3>1. 1 \in 1 .. SizeOf[m] /\ 1 \in 1 .. SizeOf[k]
      BY SMTT(30), <2>1, <2>3, BodyIs
    <3>2. Body(k)[1].of = k /\ Body(m)[1].of = m
      BY Zenon, <3>1, BodyIs
    <3>. QED  BY Zenon, <1>1, <3>2
  <2>. QED  BY Zenon, <2>2, <2>3
<1>. QED  BY Zenon, <1>1 DEF Decoded

LEMMA FrameType == ASSUME NEW m \in Message PROVE Frame(m) \in Seq(Byte)
BY Zenon, HeaderIs, BodyIs, ConcatProperties DEF Frame

LEMMA FramesType ==
    ASSUME NEW ms \in Seq(Message)
    PROVE  Frames(ms) \in Seq(Seq(Byte)) /\ Len(Frames(ms)) = Len(ms)
<1>1. Len(ms) \in Nat /\ \A i \in 1 .. Len(ms) : Frame(ms[i]) \in Seq(Byte)
  BY Zenon, FrameType, ElementOfSeq, LenProperties
<1>. QED  BY <1>1 DEF Frames

LEMMA EncodedType == ASSUME NEW ms \in Seq(Message) PROVE Encoded(ms) \in Seq(Byte)
BY Zenon, FramesType, FlattenType DEF Encoded

LEMMA EncodedNone == Encoded(<<>>) = <<>>
BY DEF Encoded, Frames, FlattenSeq

LEMMA EncodedAppend ==
    ASSUME NEW ms \in Seq(Message), NEW m \in Message
    PROVE  Encoded(Append(ms, m)) = Encoded(ms) \o Frame(m)
<1>1. Frames(Append(ms, m)) = Append(Frames(ms), Frame(m))
  BY DEF Frames
<1>. QED  BY Zenon, <1>1, FramesType, FrameType, FlattenAppend DEF Encoded

LEMMA EncodedFirst ==
    ASSUME NEW ms \in Seq(Message), ms # <<>>
    PROVE  Encoded(ms) = Frame(ms[1]) \o Encoded(Tail(ms))
<1>1. Frames(Tail(ms)) = Tail(Frames(ms)) /\ Frames(ms) # <<>> /\ Frames(ms)[1] = Frame(ms[1])
  BY DEF Frames
<1>2. Frames(ms) \in Seq(Seq(Byte))
  BY Zenon, FramesType
<1>. QED  BY Zenon, <1>1, <1>2, FlattenFirst DEF Encoded

-----------------------------------------------------------------------------
(***************************************************************************)
(* The decoder stays in step.                                              *)
(***************************************************************************)

\* The messages still to be received.
Owed == SubSeq(sent, Len(received) + 1, Len(sent))

\* The header that decode has consumed while it waits for the body.
Pending == IF state.at = "Head" THEN <<>> ELSE Header(state.len)

\* The types, what encode lets through, and the receiver behind the sender ...
FlowInv ==
    /\ TypeOK /\ ~failed
    /\ wire \in Seq(Byte) /\ buf \in Seq(Byte)
    /\ Len(received) <= Len(sent)
    /\ \A i \in 1 .. Len(sent) : HeaderSize + SizeOf[sent[i]] <= MaxFrameSize

\* ... by the messages that are on their way.
CodecInv == FlowInv /\ (Pending \o buf) \o wire = Encoded(Owed)

LEMMA InStepIs == InStep <=> (Pending \o buf) \o wire = Encoded(Owed)
BY Zenon DEF InStep, Pending, Encoded, Owed, Frames, Frame

LEMMA OwedIs ==
    ASSUME FlowInv
    PROVE  /\ Owed \in Seq(Message) /\ Len(Owed) = Len(sent) - Len(received)
           /\ Len(sent) \in Nat /\ Len(received) \in Nat
           /\ \A i \in 1 .. Len(Owed) : Owed[i] = sent[Len(received) + i]
BY DEF FlowInv, TypeOK, Owed

LEMMA PendingType == ASSUME FlowInv PROVE Pending \in Seq(Byte) /\ (state.at # "Head" => state.len \in Nat)
<1>1. state = Head_ \/ \E n \in 0 .. MaxFrameSize - HeaderSize : state = BodyOf(n)
  BY Zenon DEF FlowInv, TypeOK
<1>2. CASE state = Head_
  BY <1>2 DEF Pending, Head_
<1>3. ASSUME NEW n \in 0 .. MaxFrameSize - HeaderSize, state = BodyOf(n)
      PROVE  Pending \in Seq(Byte) /\ state.len \in Nat
  <2>1. state.at = "Body" /\ state.len = n /\ n \in Nat
    BY <1>3, CodecAssumption DEF BodyOf
  <2>. QED  BY Zenon, <2>1, HeaderIs DEF Pending
<1>. QED  BY Zenon, <1>1, <1>2, <1>3 DEF Head_

After(u, s, k, S) ==
    u \in Seq(S) /\ Len(u) = Len(s) - k /\ \A i \in 1 .. Len(s) - k : u[i] = s[k + i]

LEMMA SubSeqIs ==
    ASSUME NEW S, NEW s \in Seq(S), NEW k \in Nat, k <= Len(s)
    PROVE  After(SubSeq(s, k + 1, Len(s)), s, k, S)
BY DEF After

LEMMA SubSeqAppend ==
    ASSUME NEW S, NEW s \in Seq(S), NEW e \in S, NEW k \in Nat, k <= Len(s)
    PROVE  SubSeq(Append(s, e), k + 1, Len(s) + 1) = Append(SubSeq(s, k + 1, Len(s)), e)
<1>. DEFINE n == Len(s)
            t == Append(s, e)
            u == SubSeq(s, k + 1, n)
            x == SubSeq(t, k + 1, n + 1)
            y == Append(u, e)
<1>1. n \in Nat /\ k <= n /\ n - k \in Nat
  OBVIOUS
<1>2. t \in Seq(S) /\ Len(t) = n + 1 /\ t[n + 1] = e /\ \A i \in 1 .. n : t[i] = s[i]
  OBVIOUS
<1>3. u \in Seq(S) /\ Len(u) = n - k /\ \A i \in 1 .. n - k : u[i] = s[k + i]
  <2>1. After(u, s, k, S)
    BY Zenon, SubSeqIs
  <2>. QED  BY Zenon, <2>1 DEF After
<1>4. y \in Seq(S) /\ Len(y) = (n - k) + 1 /\ y[(n - k) + 1] = e /\ \A i \in 1 .. n - k : y[i] = u[i]
  <2>. HIDE DEF u
  <2>. QED  BY <1>3, AppendProperties
<1>. HIDE DEF t, u, y
<1>5. x \in Seq(S) /\ Len(x) = (n - k) + 1 /\ \A i \in 1 .. (n - k) + 1 : x[i] = t[k + i]
  <2>1. k <= Len(t) /\ (n + 1) - k = (n - k) + 1
    BY <1>1, <1>2
  <2>2. x = SubSeq(t, k + 1, Len(t))
    BY Zenon, <1>2
  <2>. HIDE DEF x
  <2>3. x \in Seq(S) /\ Len(x) = Len(t) - k /\ \A i \in 1 .. Len(t) - k : x[i] = t[k + i]
    <3>1. After(SubSeq(t, k + 1, Len(t)), t, k, S)
      BY Zenon, <1>2, <2>1, SubSeqIs
    <3>. QED  BY Zenon, <2>2, <3>1 DEF After
  <2>. QED  BY Zenon, <1>2, <2>1, <2>3
<1>. HIDE DEF x, n
<1>6. ASSUME NEW i \in 1 .. (n - k) + 1 PROVE x[i] = y[i]
  <2>1. CASE i = (n - k) + 1
    <3>1. k + i = n + 1
      BY <1>1, <2>1
    <3>. QED  BY Zenon, <1>2, <1>4, <1>5, <2>1, <3>1
  <2>2. CASE i # (n - k) + 1
    <3>1. i \in 1 .. n - k /\ k + i \in 1 .. n
      BY <1>1, <2>2
    <3>. QED  BY Zenon, <1>2, <1>3, <1>4, <1>5, <3>1
  <2>. QED  BY Zenon, <2>1, <2>2
<1>7. x = y
  BY Zenon, <1>4, <1>5, <1>6, SeqEqual
<1>. QED  BY Zenon, <1>7 DEF x, y, t, u, n

LEMMA EncodeStep ==
    ASSUME CodecInv, NEW m \in Message, Encode(m)
    PROVE  CodecInv'
<1>. DEFINE h == Header(SizeOf[m])
            b == Body(m)
            x == Pending \o buf
<1>1. /\ sent' = Append(sent, m) /\ wire' = (wire \o h) \o b /\ HeaderSize + SizeOf[m] <= MaxFrameSize
      /\ UNCHANGED <<buf, state, received, failed>>
  BY Zenon DEF Encode
<1>2. /\ sent \in Seq(Message) /\ wire \in Seq(Byte) /\ buf \in Seq(Byte) /\ FlowInv
  BY Zenon DEF CodecInv, FlowInv, TypeOK
<1>3. h \in Seq(Byte) /\ b \in Seq(Byte) /\ x \in Seq(Byte)
  <2>1. Pending \in Seq(Byte)
    BY Zenon, <1>2, PendingType
  <2>. QED  BY Zenon, <1>2, <2>1, HeaderIs, BodyIs, ConcatProperties
<1>4. h \o b = Frame(m)
  BY Zenon DEF Frame
<1>. HIDE DEF h, b, x
<1>5. /\ sent' \in Seq(Message) /\ Len(sent') = Len(sent) + 1 /\ Len(sent) \in Nat
      /\ \A i \in 1 .. Len(sent) : sent'[i] = sent[i]
      /\ sent'[Len(sent) + 1] = m
  BY SMTT(30), <1>1, <1>2, AppendProperties, LenProperties
<1>6. wire' \in Seq(Byte)
  BY Zenon, <1>1, <1>2, <1>3, ConcatProperties
<1>7. FlowInv'
  <2>1. TypeOK'
    BY Zenon, <1>1, <1>2, <1>5 DEF FlowInv, TypeOK
  <2>2. Len(received') <= Len(sent')
    BY SMTT(30), <1>1, <1>5, OwedIs, <1>2 DEF FlowInv
  <2>3. \A i \in 1 .. Len(sent') : HeaderSize + SizeOf[sent'[i]] <= MaxFrameSize
    BY SMTT(30), <1>1, <1>2, <1>5 DEF FlowInv
  <2>. QED  BY Zenon, <1>1, <1>2, <1>6, <2>1, <2>2, <2>3 DEF FlowInv
<1>8. Owed' = Append(Owed, m)
  <2>1. Len(received) \in Nat /\ Len(received) <= Len(sent)
    BY <1>2, OwedIs DEF FlowInv
  <2>. QED  BY Zenon, <1>1, <1>2, <1>5, <2>1, SubSeqAppend DEF Owed
<1>9. Encoded(Owed)' = Encoded(Owed) \o Frame(m)
  <2>1. Owed \in Seq(Message)
    BY <1>2, OwedIs
  <2>2. Encoded(Append(Owed, m)) = Encoded(Owed) \o Frame(m)
    BY Zenon, <2>1, EncodedAppend
  <2>. QED  BY <1>8, <2>2
<1>10. Pending' = Pending
  BY Zenon, <1>1 DEF Pending
<1>11. x \o wire' = (x \o wire) \o (h \o b)
  <2>1. Grouped(wire, h, b) /\ Grouped(x, wire, h \o b)
    <3>1. h \o b \in Seq(Byte)
      BY Zenon, <1>3, ConcatProperties
    <3>. QED  BY Zenon, <1>2, <1>3, <3>1, Regroup
  <2>2. wire' = wire \o (h \o b)
    BY Zenon, <1>1, <2>1 DEF Grouped
  <2>. QED  BY Zenon, <2>1, <2>2 DEF Grouped
<1>12. ((Pending \o buf) \o wire)' = Encoded(Owed) \o Frame(m)
  BY Zenon, <1>1, <1>4, <1>10, <1>11 DEF CodecInv, x
<1>. QED  BY Zenon, <1>7, <1>9, <1>12 DEF CodecInv

LEMMA DeliverStep ==
    ASSUME CodecInv, NEW n \in 1 .. Len(wire), Deliver(n)
    PROVE  CodecInv'
<1>. DEFINE u == SubSeq(wire, 1, n)
            v == SubSeq(wire, n + 1, Len(wire))
<1>1. buf' = buf \o u /\ wire' = v /\ UNCHANGED <<sent, state, received, failed>>
  BY Zenon DEF Deliver
<1>2. wire \in Seq(Byte) /\ buf \in Seq(Byte) /\ FlowInv /\ Pending \in Seq(Byte)
  BY Zenon, PendingType DEF CodecInv, FlowInv
<1>3. u \in Seq(Byte) /\ v \in Seq(Byte) /\ u \o v = wire
  <2>1. u \in Seq(Byte) /\ v \in Seq(Byte)
    BY <1>2
  <2>2. 1 \in 1 .. Len(wire) + 1 /\ n \in 1 - 1 .. Len(wire) /\ Len(wire) \in n .. Len(wire)
    BY <1>2, LenProperties
  <2>3. u \o v = SubSeq(wire, 1, Len(wire))
    BY Zenon, <1>2, <2>2, ConcatAdjacentSubSeq
  <2>. QED  BY Zenon, <1>2, <2>1, <2>3, SubSeqFull
<1>. HIDE DEF u, v
<1>4. buf \o u \in Seq(Byte)
  BY Zenon, <1>2, <1>3, ConcatProperties
<1>5. FlowInv'
  BY Zenon, <1>1, <1>2, <1>3, <1>4 DEF FlowInv, TypeOK
<1>6. (Pending \o (buf \o u)) \o v = (Pending \o buf) \o wire
  <2>1. Pending \o buf \in Seq(Byte)
    BY Zenon, <1>2, ConcatProperties
  <2>2. Grouped(Pending, buf, u) /\ Grouped(Pending \o buf, u, v)
    BY Zenon, <1>2, <1>3, <2>1, Regroup
  <2>. QED  BY Zenon, <1>3, <2>2 DEF Grouped
<1>7. Pending' = Pending /\ Owed' = Owed
  BY Zenon, <1>1 DEF Pending, Owed
<1>8. Encoded(Owed)' = Encoded(Owed)
  BY Zenon, <1>7
<1>. QED  BY Zenon, <1>1, <1>5, <1>6, <1>7, <1>8 DEF CodecInv

\* The Body arm, with the first message owed at the front of the bytes.
LEMMA BodyStep ==
    ASSUME FlowInv, NEW bytes \in Seq(Byte), NEW m \in Message, Owed # <<>>, m = Owed[1],
           bytes \o wire = Body(m) \o Encoded(Tail(Owed)),
           DecodeBody(bytes, SizeOf[m]), UNCHANGED <<sent, wire>>
    PROVE  CodecInv' /\ (received' = received \/ Stream!Receive)
<1>. DEFINE n == SizeOf[m]
            rest == SubSeq(bytes, n + 1, Len(bytes))
<1>1. /\ n \in Nat /\ Body(m) \in Seq(Byte) /\ Len(Body(m)) = n
      /\ wire \in Seq(Byte) /\ buf \in Seq(Byte) /\ failed = FALSE
      /\ Owed \in Seq(Message) /\ Tail(Owed) \in Seq(Message) /\ Encoded(Tail(Owed)) \in Seq(Byte)
  <2>1. Owed \in Seq(Message)
    BY OwedIs
  <2>2. Tail(Owed) \in Seq(Message)
    BY Zenon, <2>1, HeadTailProperties
  <2>. QED  BY Zenon, <2>1, <2>2, BodyIs, EncodedType DEF FlowInv, TypeOK
<1>2. /\ Len(received) < Len(sent) /\ m = sent[Len(received) + 1]
      /\ Len(received) \in Nat /\ Len(sent) \in Nat
      /\ HeaderSize + n <= MaxFrameSize /\ HeaderSize \in Nat /\ MaxFrameSize \in Nat
  <2>1. Len(Owed) \in Nat /\ Len(Owed) # 0
    BY <1>1
  <2>2. Len(received) < Len(sent) /\ m = sent[Len(received) + 1] /\ Len(received) + 1 \in 1 .. Len(sent)
        /\ Len(received) \in Nat /\ Len(sent) \in Nat
    BY <2>1, OwedIs
  <2>. QED  BY Zenon, <2>2, CodecAssumption DEF FlowInv
<1>3. CASE Len(bytes) < n
  <2>1. /\ buf' = bytes /\ state' = BodyOf(n) /\ UNCHANGED <<received, failed, sent, wire>>
    BY Zenon, <1>3 DEF DecodeBody
  <2>2. n \in 0 .. MaxFrameSize - HeaderSize
    BY SMTT(30), <1>1, <1>2
  <2>3. FlowInv'
    BY <2>1, <2>2 DEF FlowInv, TypeOK
  <2>4. Owed' = Owed /\ Pending' = Header(n)
    BY Zenon, <2>1 DEF Owed, Pending, BodyOf
  <2>5. (Header(n) \o bytes) \o wire = Encoded(Owed)
    <3>1. Encoded(Owed) = (Header(n) \o Body(m)) \o Encoded(Tail(Owed))
      BY Zenon, <1>1, EncodedFirst DEF Frame
    <3>2. Header(n) \in Seq(Byte)
      BY Zenon, <1>1, HeaderIs
    <3>3. Grouped(Header(n), Body(m), Encoded(Tail(Owed))) /\ Grouped(Header(n), bytes, wire)
      BY Zenon, <1>1, <3>2, Regroup
    <3>. QED  BY Zenon, <3>1, <3>3 DEF Grouped
  <2>6. Encoded(Owed)' = Encoded(Owed)
    BY Zenon, <2>4
  <2>. QED  BY Zenon, <2>1, <2>3, <2>4, <2>5, <2>6 DEF CodecInv
<1>4. CASE ~(Len(bytes) < n)
  <2>1. n <= Len(bytes)
    BY <1>1, <1>4
  <2>2. SubSeq(bytes, 1, n) = Body(m) /\ rest \in Seq(Byte) /\ rest \o wire = Encoded(Tail(Owed))
    <3>1. CutOff(bytes, Len(Body(m)), wire, Body(m), Encoded(Tail(Owed)), Byte)
      BY Zenon, <1>1, <2>1, Cut
    <3>. QED  BY Zenon, <1>1, <3>1 DEF CutOff
  <2>3. Decoded(SubSeq(bytes, 1, n)) = {m}
    BY Zenon, <2>2, DecodedIs
  <2>4. /\ buf' = rest /\ state' = Head_ /\ received' = Append(received, m)
        /\ UNCHANGED <<failed, sent, wire>>
    BY Zenon, <1>4, <2>3 DEF DecodeBody
  <2>. HIDE DEF rest
  <2>5. received' \in Seq(Message) /\ Len(received') = Len(received) + 1
    BY <2>4 DEF FlowInv, TypeOK
  <2>6. FlowInv'
    <3>1. TypeOK' /\ Len(received') <= Len(sent')
      BY SMTT(30), <1>2, <2>4, <2>5 DEF FlowInv, TypeOK
    <3>. QED  BY Zenon, <2>2, <2>4, <3>1 DEF FlowInv
  <2>7. Owed' = Tail(Owed) /\ Pending' = <<>>
    <3>1. Owed' = SubSeq(sent, (Len(received) + 1) + 1, Len(sent))
      BY <2>4, <2>5 DEF Owed
    <3>2. Len(received) + 1 \in 1 .. Len(sent) /\ Len(sent) \in Len(received) + 1 .. Len(sent)
          /\ sent \in Seq(Message)
      BY SMTT(30), <1>2 DEF FlowInv, TypeOK
    <3>3. Tail(Owed) = SubSeq(sent, (Len(received) + 1) + 1, Len(sent))
      BY Zenon, <3>2, HeadTailOfSubSeq DEF Owed
    <3>. QED  BY Zenon, <2>4, <3>1, <3>3 DEF Pending, Head_
  <2>8. (<<>> \o rest) \o wire = Encoded(Tail(Owed))
    BY Zenon, <2>2, ConcatEmptySeq
  <2>9. Encoded(Owed)' = Encoded(Tail(Owed))
    BY Zenon, <2>7
  <2>10. CodecInv'
    BY Zenon, <2>4, <2>6, <2>7, <2>8, <2>9 DEF CodecInv
  <2>. QED  BY Zenon, <1>2, <2>4, <2>10 DEF Stream!Receive
<1>. QED  BY Zenon, <1>3, <1>4

\* A header at the front of the bytes on their way is that of the first
\* message owed.
LEMMA FirstFrame ==
    ASSUME CodecInv, NEW h \in Seq(Byte), NEW x \in Seq(Byte), h # <<>>, h \o x = Encoded(Owed)
    PROVE  /\ Owed \in Seq(Message) /\ Owed # <<>> /\ Owed[1] \in Message
           /\ h \o x = Header(SizeOf[Owed[1]]) \o (Body(Owed[1]) \o Encoded(Tail(Owed)))
           /\ Body(Owed[1]) \o Encoded(Tail(Owed)) \in Seq(Byte)
           /\ SizeOf[Owed[1]] <= MaxFrameSize
<1>. DEFINE m == Owed[1]
            n == SizeOf[m]
<1>1. FlowInv /\ Owed \in Seq(Message)
  BY Zenon, OwedIs DEF CodecInv
<1>2. Owed # <<>>
  <2>1. SUFFICES ASSUME Owed = <<>> PROVE FALSE
    BY Zenon
  <2>2. h \o x = <<>>
    BY Zenon, <2>1, EncodedNone
  <2>3. \A u, v \in Seq(Byte) : u \o v = <<>> => u = <<>>
    BY Zenon, ConcatSimplifications
  <2>. QED  BY Zenon, <2>2, <2>3
<1>3. m \in Message /\ Tail(Owed) \in Seq(Message) /\ 1 \in 1 .. Len(Owed)
  BY <1>1, <1>2
<1>4. Encoded(Owed) = (Header(n) \o Body(m)) \o Encoded(Tail(Owed))
  BY Zenon, <1>1, <1>2, EncodedFirst DEF Frame
<1>5. Header(n) \in Seq(Byte) /\ Body(m) \in Seq(Byte) /\ Encoded(Tail(Owed)) \in Seq(Byte)
  BY Zenon, <1>3, HeaderIs, BodyIs, EncodedType
<1>6. Grouped(Header(n), Body(m), Encoded(Tail(Owed)))
  BY Zenon, <1>5, Regroup
<1>7. Body(m) \o Encoded(Tail(Owed)) \in Seq(Byte)
  BY Zenon, <1>5, ConcatProperties
<1>8. n <= MaxFrameSize
  <2>1. m = sent[Len(received) + 1] /\ Len(received) + 1 \in 1 .. Len(sent)
    BY SMTT(30), <1>1, <1>3, OwedIs
  <2>2. HeaderSize + n <= MaxFrameSize
    BY Zenon, <1>1, <2>1 DEF FlowInv
  <2>3. n \in Nat /\ HeaderSize \in Nat /\ MaxFrameSize \in Nat
    BY Zenon, <1>3, BodyIs, CodecAssumption
  <2>. HIDE DEF n
  <2>. QED  BY SMTT(30), <2>2, <2>3
<1>. QED  BY Zenon, <1>1, <1>2, <1>3, <1>4, <1>6, <1>7, <1>8 DEF Grouped

LEMMA DecodeStep ==
    ASSUME CodecInv, Decode
    PROVE  CodecInv' /\ (received' = received \/ Stream!Receive)
<1>. DEFINE m == Owed[1]
            n == SizeOf[m]
            tail == Body(m) \o Encoded(Tail(Owed))
<1>1. FlowInv /\ wire \in Seq(Byte) /\ buf \in Seq(Byte) /\ UNCHANGED <<sent, wire>> /\ ~Hungry
  BY Zenon DEF CodecInv, FlowInv, Decode
<1>2. CASE state.at = "Head"
  <2>1. Len(buf) >= HeaderSize /\ Len(buf) \in Nat /\ HeaderSize \in Nat \ {0} /\ DecodeHead(buf)
    BY SMTT(30), <1>1, <1>2, CodecAssumption DEF Hungry, Decode
  <2>2. buf \o wire = Encoded(Owed) /\ buf # <<>>
    <3>1. (<<>> \o buf) \o wire = Encoded(Owed)
      BY Zenon, <1>2 DEF CodecInv, Pending
    <3>2. buf # <<>>
      BY <2>1
    <3>. QED  BY Zenon, <1>1, <3>1, <3>2, ConcatEmptySeq
  <2>3. /\ Owed # <<>> /\ m \in Message /\ buf \o wire = Header(n) \o tail
        /\ tail \in Seq(Byte) /\ n <= MaxFrameSize
    BY Zenon, <1>1, <2>2, FirstFrame
  <2>4. Header(n) \in Seq(Byte) /\ Len(Header(n)) = HeaderSize /\ Header(n)[1].of = n /\ n \in Nat
    BY Zenon, <2>3, BodyIs, HeaderIs
  <2>. DEFINE rest == SubSeq(buf, HeaderSize + 1, Len(buf))
  <2>. HIDE DEF tail, m
  <2>5. SubSeq(buf, 1, HeaderSize) = Header(n) /\ rest \in Seq(Byte) /\ rest \o wire = tail
    <3>1. Len(Header(n)) <= Len(buf)
      BY Zenon, <2>1, <2>4
    <3>2. CutOff(buf, Len(Header(n)), wire, Header(n), tail, Byte)
      BY Zenon, <1>1, <2>3, <2>4, <3>1, Cut
    <3>. QED  BY Zenon, <2>4, <3>2 DEF CutOff
  <2>6. buf[1].of = n
    <3>1. SubSeq(buf, 1, HeaderSize)[1] = buf[1]
      BY <1>1, <2>1
    <3>. QED  BY Zenon, <2>4, <2>5, <3>1
  <2>7. IsHeader(SubSeq(buf, 1, HeaderSize))
    BY Zenon, <2>3, <2>5 DEF IsHeader
  <2>8. DecodeBody(rest, n)
    BY Zenon, <2>1, <2>3, <2>6, <2>7 DEF DecodeHead
  <2>. HIDE DEF rest
  <2>. QED  BY Zenon, <1>1, <2>3, <2>5, <2>8, BodyStep DEF m, tail
<1>3. CASE state.at # "Head"
  <2>. DEFINE h == Header(state.len)
  <2>1. state.len \in Nat /\ DecodeBody(buf, state.len)
    BY Zenon, <1>1, <1>3, PendingType DEF Decode
  <2>2. h \in Seq(Byte) /\ Len(h) = HeaderSize /\ h # <<>> /\ h[1].of = state.len
    BY Zenon, <2>1, HeaderIs
  <2>3. (h \o buf) \o wire = Encoded(Owed)
    BY Zenon, <1>3 DEF CodecInv, Pending
  <2>. HIDE DEF h
  <2>4. buf \o wire \in Seq(Byte) /\ h \o (buf \o wire) = Encoded(Owed)
    <3>1. Grouped(h, buf, wire)
      BY Zenon, <1>1, <2>2, Regroup
    <3>. QED  BY Zenon, <1>1, <2>3, <3>1, ConcatProperties DEF Grouped
  <2>5. /\ Owed # <<>> /\ m \in Message /\ h \o (buf \o wire) = Header(n) \o tail
        /\ tail \in Seq(Byte) /\ n <= MaxFrameSize
    BY Zenon, <2>2, <2>4, FirstFrame
  <2>6. Header(n) \in Seq(Byte) /\ Len(Header(n)) = HeaderSize /\ Header(n)[1].of = n
    BY Zenon, <2>5, BodyIs, HeaderIs
  <2>. HIDE DEF tail, m
  <2>7. h = Header(n) /\ buf \o wire = tail
    BY Zenon, <2>2, <2>4, <2>5, <2>6, SameLength
  <2>8. state.len = n
    BY Zenon, <2>2, <2>6, <2>7
  <2>. QED  BY Zenon, <1>1, <2>1, <2>5, <2>7, <2>8, BodyStep DEF m, tail
<1>. QED  BY Zenon, <1>2, <1>3

\* Every step keeps the decoder in step and is one of the stream, or none.
LEMMA CodecStep ==
    ASSUME CodecInv, [Next]_vars
    PROVE  CodecInv' /\ [Stream!Send \/ Stream!Receive]_<<sent, received>>
<1>1. ASSUME NEW m \in Message, Encode(m) PROVE CodecInv' /\ Stream!Send
  BY Zenon, <1>1, EncodeStep DEF Encode, Stream!Send
<1>2. ASSUME NEW n \in 1 .. Len(wire), Deliver(n) PROVE CodecInv' /\ UNCHANGED <<sent, received>>
  BY Zenon, <1>2, DeliverStep DEF Deliver
<1>3. ASSUME Decode PROVE CodecInv' /\ (UNCHANGED <<sent, received>> \/ Stream!Receive)
  <2>1. sent' = sent
    BY Zenon, <1>3 DEF Decode
  <2>. QED  BY <1>3, <2>1, DecodeStep
<1>4. ASSUME UNCHANGED vars PROVE CodecInv' /\ UNCHANGED <<sent, received>>
  <2>1. UNCHANGED <<sent, wire, buf, state, received, failed>>
    BY Zenon, <1>4 DEF vars
  <2>2. FlowInv' /\ Pending' = Pending /\ Owed' = Owed
    BY Zenon, <2>1 DEF CodecInv, FlowInv, TypeOK, Pending, Owed
  <2>3. Encoded(Owed)' = Encoded(Owed)
    BY Zenon, <2>2
  <2>. QED  BY Zenon, <2>1, <2>2, <2>3 DEF CodecInv
<1>. QED  BY SMTT(30), <1>1, <1>2, <1>3, <1>4 DEF Next

LEMMA CodecInit == Init => CodecInv /\ Stream!Init
<1>. SUFFICES ASSUME Init PROVE CodecInv /\ Stream!Init
  BY Zenon
<1>1. /\ sent = <<>> /\ wire = <<>> /\ buf = <<>> /\ state = Head_ /\ received = <<>> /\ failed = FALSE
  BY Zenon DEF Init
<1>2. FlowInv
  <2>1. <<>> \in Seq(Byte) /\ <<>> \in Seq(Message) /\ Len(<<>>) = 0 /\ 1 .. 0 = {}
    OBVIOUS
  <2>2. TypeOK
    BY Zenon, <1>1, <2>1 DEF TypeOK
  <2>. QED  BY <1>1, <2>1, <2>2 DEF FlowInv
<1>3. Owed = <<>> /\ Pending = <<>>
  BY <1>1 DEF Owed, Pending, Head_
<1>4. (<<>> \o <<>>) \o <<>> = <<>>
  OBVIOUS
<1>5. (Pending \o buf) \o wire = Encoded(Owed)
  BY Zenon, <1>1, <1>3, <1>4, EncodedNone
<1>. QED  BY Zenon, <1>1, <1>2, <1>5 DEF CodecInv, Stream!Init

THEOREM Invariance == Spec => []CodecInv
<1>1. CodecInv /\ [Next]_vars => CodecInv'
  BY Zenon, CodecStep
<1>. QED  BY <1>1, CodecInit, PTL DEF Spec

\* decode is always in step with encode: what the receiver holds and what is on
\* the wire is the encoding of the messages still to come, for messages of any
\* size and chunks cut anywhere.
THEOREM AlwaysInStep == Spec => []InStep
<1>1. CodecInv => InStep
  BY Zenon, InStepIs DEF CodecInv
<1>. QED  BY <1>1, Invariance, PTL

\* decode never returns an error for what encode accepted.
THEOREM NoFailure == Spec => []NeverFails
<1>1. CodecInv => NeverFails
  BY Zenon DEF CodecInv, FlowInv, NeverFails
<1>. QED  BY <1>1, Invariance, PTL

\* The types, with the bound on the length that the decoder waits for.
THEOREM CodecTypes == Spec => []TypeOK
<1>1. CodecInv => TypeOK
  BY DEF CodecInv, FlowInv
<1>. QED  BY <1>1, Invariance, PTL

\* The framed connection implements the stream of messages: none is lost,
\* repeated, reordered or altered.
THEOREM StreamImplemented == Spec => StreamSpec
<1>1. Init => Stream!Init
  BY Zenon, CodecInit
<1>2. CodecInv /\ [Next]_vars => [Stream!Send \/ Stream!Receive]_<<sent, received>>
  BY Zenon, CodecStep
<1>. QED  BY <1>1, <1>2, Invariance, PTL DEF Spec, StreamSpec, Stream!Spec
=============================================================================
