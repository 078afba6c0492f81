------------------------- MODULE TerminalInputProofs -------------------------
(***************************************************************************)
(* What is typed reaches the shell, once and in order, for any characters, *)
(* number of sessions and length of batches: InputConserved of Terminal.   *)
(*                                                                         *)
(* The first part is about FlattenSeq, a recursive function, and how it    *)
(* grows at one end and is cut at the other; the next about the text in    *)
(* the messages that are under way; then come the steps.                   *)
(***************************************************************************)
EXTENDS TerminalProofs, NaturalsInduction, WellFoundedInduction

(* A set that holds 0 and is closed under successor holds every natural.   *)
LEMMA SetInduction ==
  ASSUME NEW S, 0 \in S, \A n \in Nat : n \in S => n + 1 \in S
  PROVE  Nat \subseteq S
<1> DEFINE T == Nat \ S
<1> SUFFICES ASSUME T # {} PROVE FALSE
  OBVIOUS
<1>1. IsWellFoundedOn(OpToRel(<, Nat), Nat)
  BY NatLessThanWellFounded
<1>2. PICK x \in T : \A y \in T : ~(<<y, x>> \in OpToRel(<, Nat))
  <2> HIDE DEF T
  <2>1. T \subseteq Nat
    BY DEF T
  <2> QED BY <1>1, <2>1, WFMin
<1>3. x # 0 /\ x - 1 \in Nat /\ x - 1 \notin S
  OBVIOUS
<1>4. <<x - 1, x>> \in OpToRel(<, Nat)
  BY <1>3 DEF OpToRel
<1> QED BY <1>2, <1>3, <1>4

-----------------------------------------------------------------------------
(* What has been put together after the first i sequences of ss.           *)
IsFlat(f, ss) ==
  /\ DOMAIN f = 1 .. Len(ss)
  /\ \A i \in 1 .. Len(ss) : f[i] = IF i = 1 THEN ss[i] ELSE f[i - 1] \o ss[i]

LEMMA FlatExists ==
  ASSUME NEW S, NEW ss \in Seq(Seq(S))
  PROVE  \E f \in [1 .. Len(ss) -> Seq(S)] : IsFlat(f, ss)
<1> DEFINE Upto(n) == \E f \in [1 .. n -> Seq(S)] :
                        \A i \in 1 .. n : f[i] = IF i = 1 THEN ss[i] ELSE f[i - 1] \o ss[i]
           T == {n \in Nat : n <= Len(ss) => Upto(n)}
<1>1. Upto(0)
  <2> DEFINE f == [i \in 1 .. 0 |-> <<>>]
  <2>1. f \in [1 .. 0 -> Seq(S)]
          /\ \A i \in 1 .. 0 : f[i] = IF i = 1 THEN ss[i] ELSE f[i - 1] \o ss[i]
    OBVIOUS
  <2> QED BY <2>1
<1>2. ASSUME NEW n \in Nat, n \in T, n + 1 <= Len(ss) PROVE Upto(n + 1)
  <2>1. PICK f \in [1 .. n -> Seq(S)] :
          \A i \in 1 .. n : f[i] = IF i = 1 THEN ss[i] ELSE f[i - 1] \o ss[i]
    <3>1. Upto(n)
      <4> HIDE DEF Upto
      <4> QED BY <1>2
    <3> QED BY <3>1
  <2> DEFINE new == IF n = 0 THEN ss[1] ELSE f[n] \o ss[n + 1]
             g == [i \in 1 .. n + 1 |-> IF i = n + 1 THEN new ELSE f[i]]
  <2>2. ss[n + 1] \in Seq(S)
    BY <1>2
  <2>3. new \in Seq(S)
    <3>1. CASE n = 0
      BY <2>2, <3>1
    <3>2. CASE n # 0
      <4>1. f[n] \in Seq(S)
        BY <3>2
      <4> QED BY <2>2, <3>2, <4>1, ConcatProperties
    <3> QED BY <3>1, <3>2
  <2> HIDE DEF new
  <2>4. g \in [1 .. n + 1 -> Seq(S)]
    BY <2>3
  <2>5. ASSUME NEW i \in 1 .. n + 1 PROVE g[i] = IF i = 1 THEN ss[i] ELSE g[i - 1] \o ss[i]
    <3>1. CASE i = n + 1
      BY <3>1 DEF new
    <3>2. CASE i \in 1 .. n
      <4>1. g[i] = f[i] /\ (i # 1 => g[i - 1] = f[i - 1])
        BY <3>2
      <4> HIDE DEF g
      <4> QED BY <2>1, <3>2, <4>1
    <3> QED BY <3>1, <3>2
  <2> HIDE DEF g
  <2> QED BY <2>4, <2>5
<1>3. Len(ss) \in T
  <2> HIDE DEF Upto
  <2>1. 0 \in T
    BY <1>1
  <2>2. \A n \in Nat : n \in T => n + 1 \in T
    BY <1>2
  <2> HIDE DEF T
  <2>3. Nat \subseteq T
    BY <2>1, <2>2, SetInduction
  <2> QED BY <2>3 DEF T
<1> QED BY <1>3 DEF IsFlat

(* There is only one such function, up to where the sequences agree.       *)
SameUpTo(k, ss, tt) ==
  /\ k \in Nat /\ Len(ss) \in Nat /\ Len(tt) \in Nat /\ k <= Len(ss) /\ k <= Len(tt)
  /\ \A i \in 1 .. k : ss[i] = tt[i]
EqualUpTo(k, f, g) == \A i \in 1 .. k : f[i] = g[i]

LEMMA FlatAgree ==
  ASSUME NEW ss, NEW tt, NEW k, SameUpTo(k, ss, tt),
         NEW f, NEW g, IsFlat(f, ss), IsFlat(g, tt)
  PROVE  EqualUpTo(k, f, g)
<1> USE DEF SameUpTo, EqualUpTo
<1> DEFINE T == {n \in Nat : n \in 1 .. k => f[n] = g[n]}
<1>1. 0 \in T
  OBVIOUS
<1>2. ASSUME NEW n \in Nat, n \in T PROVE n + 1 \in T
  <2> SUFFICES ASSUME n + 1 <= k PROVE f[n + 1] = g[n + 1]
    OBVIOUS
  <2>1. n + 1 \in 1 .. k /\ n + 1 \in 1 .. Len(ss) /\ n + 1 \in 1 .. Len(tt) /\ (n + 1) - 1 = n
    OBVIOUS
  <2>2. n # 0 => f[n] = g[n]
    BY <1>2, <2>1
  <2>3. ss[n + 1] = tt[n + 1]
    BY <2>1
  <2>4. f[n + 1] = IF n + 1 = 1 THEN ss[n + 1] ELSE f[(n + 1) - 1] \o ss[n + 1]
    BY <2>1 DEF IsFlat
  <2>5. g[n + 1] = IF n + 1 = 1 THEN tt[n + 1] ELSE g[(n + 1) - 1] \o tt[n + 1]
    BY <2>1 DEF IsFlat
  <2> QED BY <2>1, <2>2, <2>3, <2>4, <2>5
<1>3. Nat \subseteq T
  <2> HIDE DEF T
  <2> QED BY <1>1, <1>2, SetInduction
<1> QED BY <1>3

(* FlattenSeq is the last of what is put together.                         *)
LEMMA FlattenIsLast ==
  ASSUME NEW S, NEW ss \in Seq(Seq(S)), ss # <<>>
  PROVE  \E f \in [1 .. Len(ss) -> Seq(S)] : IsFlat(f, ss) /\ FlattenSeq(ss) = f[Len(ss)]
<1> DEFINE Body(h) == [i \in 1 .. Len(ss) |-> IF i = 1 THEN ss[i] ELSE h[i - 1] \o ss[i]]
           flat == CHOOSE h : h = Body(h)
<1>1. PICK f \in [1 .. Len(ss) -> Seq(S)] : IsFlat(f, ss)
  BY FlatExists
<1>2. f = Body(f)
  BY <1>1 DEF IsFlat
<1>3. flat = Body(flat)
  BY <1>2
<1>4. Len(ss) \in Nat /\ Len(ss) # 0
  OBVIOUS
<1>5. FlattenSeq(ss) = flat[Len(ss)]
  BY <1>4 DEF FlattenSeq
<1>6. IsFlat(flat, ss)
  <2> HIDE DEF flat
  <2> QED BY <1>3 DEF IsFlat
<1>7. EqualUpTo(Len(ss), flat, f)
  <2> HIDE DEF flat
  <2>1. SameUpTo(Len(ss), ss, ss)
    BY <1>4 DEF SameUpTo
  <2> QED BY <1>1, <1>6, <2>1, FlatAgree
<1>8. flat[Len(ss)] = f[Len(ss)]
  <2> HIDE DEF flat
  <2>1. Len(ss) \in 1 .. Len(ss)
    BY <1>4
  <2> QED BY <1>7, <2>1 DEF EqualUpTo
<1> QED BY <1>1, <1>5, <1>8

(* FlattenSeq of what has one more, and of what has lost its first.        *)
LEMMA FlattenEmpty == FlattenSeq(<<>>) = <<>>
  BY DEF FlattenSeq

LEMMA FlattenType ==
  ASSUME NEW S, NEW ss \in Seq(Seq(S))
  PROVE  FlattenSeq(ss) \in Seq(S)
<1>1. CASE ss = <<>>
  <2>1. FlattenSeq(ss) = <<>>
    BY <1>1, FlattenEmpty, Zenon
  <2>2. <<>> \in Seq(S)
    OBVIOUS
  <2> QED BY <2>1, <2>2
<1>2. CASE ss # <<>>
  <2>1. PICK f \in [1 .. Len(ss) -> Seq(S)] : FlattenSeq(ss) = f[Len(ss)]
    BY <1>2, FlattenIsLast
  <2>2. Len(ss) \in 1 .. Len(ss)
    BY <1>2
  <2> QED BY <2>1, <2>2
<1> QED BY <1>1, <1>2

LEMMA FlattenAppend ==
  ASSUME NEW S, NEW ss \in Seq(Seq(S)), NEW s \in Seq(S)
  PROVE  FlattenSeq(Append(ss, s)) = FlattenSeq(ss) \o s
<1> DEFINE tt == Append(ss, s)
           n == Len(ss)
<1>1. /\ tt \in Seq(Seq(S)) /\ tt # <<>> /\ Len(tt) = n + 1 /\ tt[n + 1] = s /\ n \in Nat
      /\ \A i \in 1 .. n : tt[i] = ss[i]
  BY AppendProperties
<1> HIDE DEF tt, n
<1>2. PICK g \in [1 .. Len(tt) -> Seq(S)] : IsFlat(g, tt) /\ FlattenSeq(tt) = g[Len(tt)]
  BY <1>1, FlattenIsLast
<1>3. FlattenSeq(tt) = IF n + 1 = 1 THEN s ELSE g[n] \o s
  <2>1. n + 1 \in 1 .. Len(tt) /\ (n + 1) - 1 = n
    BY <1>1
  <2>2. g[n + 1] = IF n + 1 = 1 THEN tt[n + 1] ELSE g[(n + 1) - 1] \o tt[n + 1]
    BY <1>2, <2>1 DEF IsFlat
  <2> QED BY <1>1, <1>2, <2>1, <2>2
<1>4. CASE ss = <<>>
  <2>1. n = 0
    BY <1>4 DEF n
  <2>2. FlattenSeq(ss) = <<>>
    BY <1>4, FlattenEmpty
  <2> QED BY <1>3, <2>1, <2>2, ConcatEmptySeq DEF tt
<1>5. CASE ss # <<>>
  <2>1. PICK f \in [1 .. Len(ss) -> Seq(S)] : IsFlat(f, ss) /\ FlattenSeq(ss) = f[Len(ss)]
    BY <1>5, FlattenIsLast
  <2>2. n # 0
    BY <1>5 DEF n
  <2>3. IsFlat(f, ss) /\ FlattenSeq(ss) = f[n] /\ Len(ss) = n
    BY <2>1 DEF n
  <2>4. EqualUpTo(n, f, g)
    <3>1. SameUpTo(n, ss, tt)
      BY <1>1, <2>3 DEF SameUpTo
    <3> QED BY <1>2, <2>3, <3>1, FlatAgree
  <2>5. f[n] = g[n]
    BY <1>1, <2>2, <2>4 DEF EqualUpTo
  <2> QED BY <1>1, <1>3, <2>2, <2>3, <2>5 DEF tt
<1> QED BY <1>4, <1>5

LEMMA FlattenTail ==
  ASSUME NEW S, NEW ss \in Seq(Seq(S)), ss # <<>>
  PROVE  FlattenSeq(ss) = Head(ss) \o FlattenSeq(Tail(ss))
<1> DEFINE tt == Tail(ss)
           n == Len(tt)
           h == Head(ss)
<1>1. /\ tt \in Seq(Seq(S)) /\ h \in Seq(S) /\ n \in Nat /\ Len(ss) = n + 1
      /\ \A i \in 1 .. n : tt[i] = ss[i + 1]
  BY HeadTailProperties, LenProperties
<1>2. h = ss[1]
  BY SeqOps
<1>3. PICK f \in [1 .. Len(ss) -> Seq(S)] : IsFlat(f, ss) /\ FlattenSeq(ss) = f[Len(ss)]
  BY FlattenIsLast
<1>4. FlattenSeq(ss) = f[n + 1]
  BY <1>1, <1>3
<1>5. f[1] = h
  <2> HIDE DEF n, h
  <2>1. 1 \in 1 .. Len(ss)
    BY <1>1
  <2> QED BY <1>2, <1>3, <2>1 DEF IsFlat
<1>6. CASE tt = <<>>
  <2>1. n = 0
    <3> HIDE DEF tt
    <3> QED BY <1>6
  <2>2. FlattenSeq(tt) = <<>>
    BY <1>6, FlattenEmpty, Zenon
  <2>3. h \o <<>> = h
    BY <1>1, ConcatEmptySeq
  <2> HIDE DEF n, h, tt
  <2>4. FlattenSeq(ss) = h
    BY <1>4, <1>5, <2>1
  <2>5. FlattenSeq(ss) = h \o FlattenSeq(tt)
    BY <2>2, <2>3, <2>4
  <2> QED BY <2>5 DEF h, tt
<1>7. CASE tt # <<>>
  <2>1. PICK g \in [1 .. Len(tt) -> Seq(S)] : IsFlat(g, tt) /\ FlattenSeq(tt) = g[Len(tt)]
    BY <1>1, <1>7, FlattenIsLast
  <2>2. n # 0 /\ FlattenSeq(tt) = g[n] /\ g \in [1 .. n -> Seq(S)] /\ Len(tt) = n
    <3> HIDE DEF tt
    <3>1. Len(tt) # 0
      BY <1>1, <1>7
    <3> QED BY <2>1, <3>1
  <2> HIDE DEF n, h, tt
  <2> DEFINE T == {k \in Nat : k \in 1 .. n => f[k + 1] = h \o g[k]}
  <2>3. 0 \in T
    OBVIOUS
  <2>4. ASSUME NEW k \in Nat, k \in T PROVE k + 1 \in T
    <3> SUFFICES ASSUME k + 1 \in 1 .. n PROVE f[(k + 1) + 1] = h \o g[k + 1]
      OBVIOUS
    <3>1. /\ (k + 1) + 1 \in 1 .. Len(ss) /\ ((k + 1) + 1) - 1 = k + 1 /\ (k + 1) + 1 # 1
          /\ k + 1 \in 1 .. Len(tt) /\ (k + 1) - 1 = k
      BY <1>1, <2>2
    <3>2. tt[k + 1] = ss[(k + 1) + 1]
      BY <1>1
    <3>3. f[(k + 1) + 1] = f[k + 1] \o ss[(k + 1) + 1]
      BY <1>3, <3>1 DEF IsFlat
    <3>4. g[k + 1] = IF k + 1 = 1 THEN tt[k + 1] ELSE g[k] \o tt[k + 1]
      BY <2>1, <3>1 DEF IsFlat
    <3>5. CASE k = 0
      <4>1. f[k + 1] = h
        BY <1>5, <3>5
      <4>2. g[k + 1] = tt[k + 1]
        BY <3>4, <3>5
      <4> QED BY <3>2, <3>3, <4>1, <4>2
    <3>6. CASE k # 0
      <4>1. k \in 1 .. n
        BY <3>6, <2>2, <1>1
      <4>2. f[k + 1] = h \o g[k]
        BY <2>4, <4>1
      <4>3. g[k + 1] = g[k] \o tt[k + 1]
        BY <3>4, <3>6, k + 1 # 1
      <4>4. g[k] \in Seq(S) /\ tt[k + 1] \in Seq(S)
        <5>1. tt[k + 1] \in Seq(S)
          BY <1>1, <2>2, <3>1
        <5> QED BY <2>2, <4>1, <5>1
      <4> DEFINE x == g[k]
                 y == tt[k + 1]
      <4>5. x \in Seq(S) /\ y \in Seq(S)
        BY <4>4
      <4> HIDE DEF x, y
      <4>6. (h \o x) \o y = h \o (x \o y)
        <5>1. h \in Seq(S)
          BY <1>1
        <5> QED BY ONLY <4>5, <5>1, ConcatAssociative
      <4> QED BY <3>2, <3>3, <4>2, <4>3, <4>6 DEF x, y
    <3> QED BY <3>5, <3>6
  <2>5. n \in T
    <3> HIDE DEF T
    <3> QED BY <1>1, <2>3, <2>4, SetInduction
  <2>6. f[n + 1] = h \o g[n]
    BY <1>1, <2>2, <2>5
  <2>7. FlattenSeq(ss) = h \o FlattenSeq(tt)
    BY <1>4, <2>2, <2>6
  <2> QED BY <2>7 DEF h, tt
<1> QED BY <1>6, <1>7

(* Nothing put together is nothing.                                        *)
LEMMA FlattenNothing ==
  ASSUME NEW S, NEW ss \in Seq(Seq(S)), \A i \in 1 .. Len(ss) : ss[i] = <<>>
  PROVE  FlattenSeq(ss) = <<>>
<1>1. CASE ss = <<>>
  BY <1>1, FlattenEmpty
<1>2. CASE ss # <<>>
  <2>1. PICK f \in [1 .. Len(ss) -> Seq(S)] : IsFlat(f, ss) /\ FlattenSeq(ss) = f[Len(ss)]
    BY <1>2, FlattenIsLast
  <2> DEFINE T == {k \in Nat : k \in 1 .. Len(ss) => f[k] = <<>>}
  <2>2. 0 \in T
    OBVIOUS
  <2>3. ASSUME NEW k \in Nat, k \in T PROVE k + 1 \in T
    <3> SUFFICES ASSUME k + 1 \in 1 .. Len(ss) PROVE f[k + 1] = <<>>
      OBVIOUS
    <3>1. f[k + 1] = IF k + 1 = 1 THEN ss[k + 1] ELSE f[(k + 1) - 1] \o ss[k + 1]
      BY <2>1 DEF IsFlat
    <3>2. ss[k + 1] = <<>> /\ (k + 1) - 1 = k
      OBVIOUS
    <3>3. k # 0 => f[k] = <<>>
      BY <2>3
    <3>4. <<>> \o <<>> = <<>>
      OBVIOUS
    <3> QED BY <3>1, <3>2, <3>3, <3>4
  <2>4. Len(ss) \in T
    <3> HIDE DEF T
    <3>1. Nat \subseteq T
      BY <2>2, <2>3, SetInduction
    <3> QED BY <3>1
  <2>5. Len(ss) \in 1 .. Len(ss)
    BY <1>2
  <2> QED BY <2>1, <2>4, <2>5
<1> QED BY <1>1, <1>2

-----------------------------------------------------------------------------
(* A sequence through a function, element by element.                      *)
Mapped(q, h) == [i \in DOMAIN q |-> h[q[i]]]

Elementwise(R, q, h) ==
  /\ Mapped(q, h) \in Seq(R) /\ Len(Mapped(q, h)) = Len(q)
  /\ \A i \in 1 .. Len(q) : Mapped(q, h)[i] = h[q[i]]

LEMMA MappedType ==
  ASSUME NEW S, NEW R, NEW h \in [S -> R], NEW q \in Seq(S)
  PROVE  Elementwise(R, q, h)
<1>1. DOMAIN q = 1 .. Len(q) /\ Len(q) \in Nat
  OBVIOUS
<1>2. \A i \in 1 .. Len(q) : q[i] \in S
  OBVIOUS
<1>3. Mapped(q, h) \in [1 .. Len(q) -> R]
  BY <1>1, <1>2 DEF Mapped
<1>4. \A i \in 1 .. Len(q) : Mapped(q, h)[i] = h[q[i]]
  BY <1>1 DEF Mapped
<1> QED BY <1>1, <1>3, <1>4 DEF Elementwise

LEMMA MappedAppend ==
  ASSUME NEW S, NEW R, NEW h \in [S -> R], NEW q \in Seq(S), NEW e \in S
  PROVE  Mapped(Append(q, e), h) = Append(Mapped(q, h), h[e])
<1>0. \A v \in Seq(S) : Elementwise(R, v, h)
  BY MappedType
<1> DEFINE a == Append(q, e)
           b == Append(Mapped(q, h), h[e])
           n == Len(q)
<1>1. /\ a \in Seq(S) /\ Len(a) = n + 1 /\ a[n + 1] = e /\ n \in Nat
      /\ \A i \in 1 .. n : a[i] = q[i]
  BY AppendProperties, LenProperties
<1>2. /\ Mapped(q, h) \in Seq(R) /\ Len(Mapped(q, h)) = n
      /\ \A i \in 1 .. n : Mapped(q, h)[i] = h[q[i]]
  BY <1>0 DEF Elementwise
<1>3. h[e] \in R
  OBVIOUS
<1>4. /\ b \in Seq(R) /\ Len(b) = n + 1 /\ b[n + 1] = h[e]
      /\ \A i \in 1 .. n : b[i] = Mapped(q, h)[i]
  BY <1>2, <1>3, AppendProperties
<1> HIDE DEF a, b, n
<1>5. Mapped(a, h) \in Seq(R) /\ Len(Mapped(a, h)) = n + 1
        /\ \A i \in 1 .. n + 1 : Mapped(a, h)[i] = h[a[i]]
  BY <1>0, <1>1 DEF Elementwise
<1>6. \A i \in 1 .. n + 1 : i \in 1 .. n \/ i = n + 1
  BY <1>1
<1>7. \A i \in 1 .. Len(b) : Mapped(a, h)[i] = b[i]
  BY <1>1, <1>2, <1>4, <1>5, <1>6
<1>8. Mapped(a, h) = b
  BY <1>4, <1>5, <1>7, SeqEqual
<1> QED BY <1>8 DEF a, b

LEMMA MappedTail ==
  ASSUME NEW S, NEW R, NEW h \in [S -> R], NEW q \in Seq(S), q # <<>>
  PROVE  /\ Mapped(q, h) # <<>> /\ Head(Mapped(q, h)) = h[Head(q)]
         /\ Mapped(Tail(q), h) = Tail(Mapped(q, h))
<1>0. \A v \in Seq(S) : Elementwise(R, v, h)
  BY MappedType
<1> DEFINE t == Tail(q)
           m == Mapped(q, h)
           u == Tail(m)
           n == Len(t)
<1>1. /\ t \in Seq(S) /\ n \in Nat /\ Len(q) = n + 1
      /\ \A i \in 1 .. n : t[i] = q[i + 1]
  BY HeadTailProperties, LenProperties
<1>2. /\ m \in Seq(R) /\ Len(m) = Len(q)
      /\ \A i \in 1 .. Len(q) : m[i] = h[q[i]]
  BY <1>0 DEF Elementwise
<1> HIDE DEF m, n, t
<1>3. m # <<>>
  BY <1>1, <1>2
<1>4. Head(m) = m[1] /\ Head(q) = q[1] /\ 1 \in 1 .. Len(q)
  BY <1>1, <1>2, <1>3, SeqOps
<1>5. u \in Seq(R) /\ Len(u) = n /\ \A i \in 1 .. n : u[i] = m[i + 1]
  BY <1>1, <1>2, <1>3, HeadTailProperties
<1>6. Mapped(t, h) \in Seq(R) /\ Len(Mapped(t, h)) = n
        /\ \A i \in 1 .. n : Mapped(t, h)[i] = h[t[i]]
  BY <1>0, <1>1 DEF n, Elementwise
<1> HIDE DEF u
<1>7. ASSUME NEW i \in 1 .. n PROVE Mapped(t, h)[i] = u[i]
  <2>1. i + 1 \in 1 .. Len(q)
    BY <1>1
  <2> QED BY <1>1, <1>2, <1>5, <1>6, <2>1
<1>8. Mapped(t, h) = u
  BY <1>1, <1>5, <1>6, <1>7, SeqEqual
<1> QED BY <1>2, <1>3, <1>4, <1>8 DEF m, t, u

(* Appending to, reading from and passing on within a pair of queues.      *)
LEMMA AppendSecond ==
  ASSUME NEW S, NEW s \in Seq(S), NEW t \in Seq(S), NEW e \in S
  PROVE  s \o Append(t, e) = Append(s \o t, e)
<1>1. Append(t, e) = t \o <<e>> /\ <<e>> \in Seq(S)
  BY AppendIsConcat
<1>2. s \o t \in Seq(S)
  BY ConcatProperties
<1>3. Append(s \o t, e) = (s \o t) \o <<e>>
  BY <1>2, AppendIsConcat
<1> DEFINE x == <<e>>
<1>4. x \in Seq(S)
  BY <1>1
<1> HIDE DEF x
<1>5. (s \o t) \o x = s \o (t \o x)
  BY <1>4, ConcatAssociative
<1> QED BY <1>1, <1>3, <1>5 DEF x

LEMMA HeadAndTail ==
  ASSUME NEW S, NEW s \in Seq(S), s # <<>>
  PROVE  s = <<Head(s)>> \o Tail(s)
<1>1. Len(s) \in Nat /\ 1 \in 1 .. Len(s) /\ Len(s) \in 1 .. Len(s)
  OBVIOUS
<1>2. SubSeq(s, 1, Len(s)) = <<s[1]>> \o SubSeq(s, 1 + 1, Len(s))
  BY <1>1, SubSeqRecursiveFirst
<1>3. Tail(s) = SubSeq(s, 2, Len(s)) /\ Head(s) = s[1] /\ SubSeq(s, 1, Len(s)) = s
  BY TailIsSubSeq, SubSeqFull, SeqOps
<1> QED BY <1>2, <1>3

LEMMA ReadFirst ==
  ASSUME NEW S, NEW s \in Seq(S), NEW t \in Seq(S), s # <<>>
  PROVE  /\ s \o t # <<>> /\ Head(s \o t) = Head(s) /\ Tail(s \o t) = Tail(s) \o t
<1> DEFINE x == <<Head(s)>>
           y == Tail(s)
           z == y \o t
<1>1. x \in Seq(S) /\ y \in Seq(S) /\ Len(x) = 1 /\ x[1] = Head(s) /\ Head(s) \in S
  BY HeadTailProperties
<1>2. s = x \o y
  BY HeadAndTail
<1> HIDE DEF x, y
<1>3. (x \o y) \o t = x \o z
  BY <1>1, ConcatAssociative
<1>4. z \in Seq(S)
  BY <1>1, ConcatProperties
<1> HIDE DEF z
<1>5. s \o t = x \o z
  BY <1>2, <1>3
<1>6. x \o z # <<>> /\ Head(x \o z) = Head(s) /\ Tail(x \o z) = z
  <2> DEFINE w == <<Head(s)>> \o z
  <2>1. w # <<>> /\ Head(w) = Head(s)
    BY <1>1, <1>4
  <2>2. Tail(w) \in Seq(S) /\ Len(Tail(w)) = Len(z)
    BY <1>1, <1>4
  <2>3. \A i \in 1 .. Len(z) : Tail(w)[i] = z[i]
    BY <1>1, <1>4
  <2> HIDE DEF w
  <2>4. Tail(w) = z
    BY <1>4, <2>2, <2>3, SeqEqual
  <2> QED BY <2>1, <2>4 DEF w, x
<1> QED BY <1>5, <1>6 DEF y, z

LEMMA PassOn ==
  ASSUME NEW S, NEW s \in Seq(S), NEW t \in Seq(S), t # <<>>
  PROVE  Append(s, Head(t)) \o Tail(t) = s \o t
<1> DEFINE x == <<Head(t)>>
           y == Tail(t)
<1>1. x \in Seq(S) /\ y \in Seq(S) /\ Head(t) \in S
  BY HeadTailProperties
<1>2. t = x \o y
  BY HeadAndTail
<1>3. Append(s, Head(t)) = s \o x
  BY <1>1, AppendIsConcat
<1> HIDE DEF x, y
<1>4. (s \o x) \o y = s \o (x \o y)
  BY <1>1, ConcatAssociative
<1> QED BY <1>2, <1>3, <1>4 DEF y

-----------------------------------------------------------------------------
(* The text for session k in messages, Bytes of the model.                 *)
NoText == Request(None, FALSE)
Msg == Job \cup {NoText}
Part(m, k) == IF m.kind = "pty" /\ m.key = k THEN m.data ELSE <<>>
Parts(k) == [m \in Msg |-> Part(m, k)]
Text(q, k) == FlattenSeq([i \in DOMAIN q |-> Part(q[i], k)])

LEMMA PartType ==
  ASSUME NEW k
  PROVE  Parts(k) \in [Msg -> Seq(Char)] /\ \A m \in Msg : Part(m, k) \in Seq(Char)
<1>1. ASSUME NEW m \in Job PROVE Part(m, k) \in Seq(Char)
  <2>1. m.kind = "pty" => m.data \in Seq(Char)
    BY JobShape
  <2>2. <<>> \in Seq(Char)
    OBVIOUS
  <2> QED BY <2>1, <2>2 DEF Part
<1>2. Part(NoText, k) = <<>>
  BY DEF Part, NoText, Request
<1>3. <<>> \in Seq(Char)
  OBVIOUS
<1>4. \A m \in Msg : Part(m, k) \in Seq(Char)
  BY <1>1, <1>2, <1>3 DEF Msg
<1> QED BY <1>4 DEF Parts

LEMMA TextIs ==
  ASSUME NEW k, NEW q \in Seq(Msg)
  PROVE  Text(q, k) = FlattenSeq(Mapped(q, Parts(k))) /\ Mapped(q, Parts(k)) \in Seq(Seq(Char))
<1>1. \A i \in DOMAIN q : q[i] \in Msg
  OBVIOUS
<1>2. [i \in DOMAIN q |-> Part(q[i], k)] = Mapped(q, Parts(k))
  BY <1>1 DEF Mapped, Parts
<1>3. Parts(k) \in [Msg -> Seq(Char)]
  BY PartType
<1>4. Elementwise(Seq(Char), q, Parts(k))
  BY <1>3, MappedType
<1> QED BY <1>2, <1>4 DEF Text, Elementwise

LEMMA TextType ==
  ASSUME NEW k, NEW q \in Seq(Msg) PROVE Text(q, k) \in Seq(Char)
  BY TextIs, FlattenType

LEMMA TextAppend ==
  ASSUME NEW k, NEW q \in Seq(Msg), NEW m \in Msg
  PROVE  Text(Append(q, m), k) = Text(q, k) \o Part(m, k)
<1> DEFINE h == Parts(k)
           mq == Mapped(q, h)
           x == Part(m, k)
<1>1. h \in [Msg -> Seq(Char)] /\ h[m] = x /\ x \in Seq(Char)
  BY PartType DEF Parts
<1>2. Mapped(Append(q, m), h) = Append(mq, h[m])
  <2> HIDE DEF h
  <2> QED BY <1>1, MappedAppend
<1>3. Append(q, m) \in Seq(Msg)
  BY AppendProperties
<1>4. /\ Text(q, k) = FlattenSeq(mq) /\ mq \in Seq(Seq(Char))
      /\ Text(Append(q, m), k) = FlattenSeq(Mapped(Append(q, m), h))
  BY <1>3, TextIs
<1> HIDE DEF h, mq, x
<1>5. FlattenSeq(Append(mq, x)) = FlattenSeq(mq) \o x
  BY <1>1, <1>4, FlattenAppend
<1>6. Text(Append(q, m), k) = FlattenSeq(Append(mq, x))
  BY <1>1, <1>2, <1>4
<1> QED BY <1>4, <1>5, <1>6 DEF x

LEMMA TextTail ==
  ASSUME NEW k, NEW q \in Seq(Msg), q # <<>>
  PROVE  Text(q, k) = Part(Head(q), k) \o Text(Tail(q), k)
<1> DEFINE h == Parts(k)
           mq == Mapped(q, h)
<1>1. h \in [Msg -> Seq(Char)] /\ Head(q) \in Msg /\ h[Head(q)] = Part(Head(q), k)
  BY PartType DEF Parts
<1>2. mq # <<>> /\ Head(mq) = h[Head(q)] /\ Mapped(Tail(q), h) = Tail(mq)
  <2> HIDE DEF h
  <2> QED BY <1>1, MappedTail
<1>3. Tail(q) \in Seq(Msg)
  BY HeadTailProperties
<1>4. /\ Text(q, k) = FlattenSeq(mq) /\ mq \in Seq(Seq(Char))
      /\ Text(Tail(q), k) = FlattenSeq(Mapped(Tail(q), h))
  BY <1>3, TextIs
<1> HIDE DEF h, mq
<1>5. FlattenSeq(mq) = Head(mq) \o FlattenSeq(Tail(mq))
  BY <1>2, <1>4, FlattenTail
<1> QED BY <1>1, <1>2, <1>4, <1>5

LEMMA TextNothing ==
  ASSUME NEW k, NEW q \in Seq(Msg), \A i \in 1 .. Len(q) : Part(q[i], k) = <<>>
  PROVE  Text(q, k) = <<>>
<1> DEFINE h == Parts(k)
           mq == Mapped(q, h)
<1>1. h \in [Msg -> Seq(Char)]
  BY PartType
<1>2. Text(q, k) = FlattenSeq(mq) /\ mq \in Seq(Seq(Char))
  BY TextIs
<1>3. Elementwise(Seq(Char), q, h)
  <2> HIDE DEF h
  <2> QED BY <1>1, MappedType
<1>4. \A i \in 1 .. Len(q) : q[i] \in Msg
  OBVIOUS
<1>5. \A i \in 1 .. Len(q) : h[q[i]] = <<>>
  BY <1>4 DEF Parts
<1> HIDE DEF h
<1>6. \A i \in 1 .. Len(mq) : mq[i] = <<>>
  BY <1>3, <1>5 DEF Elementwise
<1> HIDE DEF mq
<1>7. FlattenSeq(mq) = <<>>
  BY <1>2, <1>6, FlattenNothing
<1> QED BY <1>2, <1>7

(* What the agent will take of the wire in session k, OnWire of the model. *)
Taken(e, k) == IF e.id = k THEN e.body ELSE NoText
Takes(k) == [e \in Envelope |-> Taken(e, k)]
Sent(w, k) == [i \in DOMAIN w |-> Taken(w[i], k)]

LEMMA SentIs ==
  ASSUME NEW k, NEW w \in Seq(Envelope)
  PROVE  /\ Takes(k) \in [Envelope -> Msg] /\ Sent(w, k) = Mapped(w, Takes(k))
         /\ Sent(w, k) \in Seq(Msg)
<1>1. ASSUME NEW e \in Envelope PROVE Taken(e, k) \in Msg
  BY DEF Envelope, Taken, Msg
<1>2. Takes(k) \in [Envelope -> Msg]
  BY <1>1 DEF Takes
<1>3. \A i \in DOMAIN w : w[i] \in Envelope
  OBVIOUS
<1>4. Sent(w, k) = Mapped(w, Takes(k))
  BY <1>3 DEF Sent, Mapped, Takes
<1>5. Elementwise(Msg, w, Takes(k))
  BY <1>2, MappedType
<1> QED BY <1>2, <1>4, <1>5 DEF Elementwise

LEMMA SentAppend ==
  ASSUME NEW k, NEW w \in Seq(Envelope), NEW e \in Envelope
  PROVE  Sent(Append(w, e), k) = Append(Sent(w, k), Taken(e, k))
<1> DEFINE h == Takes(k)
<1>1. h \in [Envelope -> Msg] /\ h[e] = Taken(e, k) /\ Sent(w, k) = Mapped(w, h)
  BY SentIs DEF Takes
<1>2. Append(w, e) \in Seq(Envelope)
  BY AppendProperties
<1>3. Sent(Append(w, e), k) = Mapped(Append(w, e), h)
  BY <1>2, SentIs
<1> HIDE DEF h
<1>4. Mapped(Append(w, e), h) = Append(Mapped(w, h), h[e])
  BY <1>1, MappedAppend
<1> QED BY <1>1, <1>3, <1>4

LEMMA SentTail ==
  ASSUME NEW k, NEW w \in Seq(Envelope), w # <<>>
  PROVE  /\ Sent(w, k) # <<>> /\ Head(Sent(w, k)) = Taken(Head(w), k)
         /\ Sent(Tail(w), k) = Tail(Sent(w, k))
<1> DEFINE h == Takes(k)
<1>1. /\ h \in [Envelope -> Msg] /\ Sent(w, k) = Mapped(w, h) /\ Head(w) \in Envelope
      /\ h[Head(w)] = Taken(Head(w), k)
  <2>1. h \in [Envelope -> Msg] /\ Sent(w, k) = Mapped(w, h)
    BY SentIs
  <2>2. Head(w) \in Envelope
    BY HeadTailProperties
  <2> QED BY <2>1, <2>2 DEF Takes
<1>2. Tail(w) \in Seq(Envelope)
  BY HeadTailProperties
<1>3. Sent(Tail(w), k) = Mapped(Tail(w), h)
  BY <1>2, SentIs
<1> HIDE DEF h
<1>4. /\ Mapped(w, h) # <<>> /\ Head(Mapped(w, h)) = h[Head(w)]
      /\ Mapped(Tail(w), h) = Tail(Mapped(w, h))
  BY <1>1, MappedTail
<1> QED BY <1>1, <1>3, <1>4

-----------------------------------------------------------------------------
(* What is in the shell, under way in session k and in the buffer is o.    *)
UnderWayIn(w, q, k) == Sent(w, k) \o q
Whole(x, w, q, k, b, o) == (x \o Text(UnderWayIn(w, q, k), k)) \o b = o

LEMMA TextRegroups ==
  \A s, t, u \in Seq(Char) : (s \o t) \o u = s \o (t \o u)
<1> SUFFICES ASSUME NEW s \in Seq(Char), NEW t \in Seq(Char), NEW u \in Seq(Char)
             PROVE  (s \o t) \o u = s \o (t \o u)
  OBVIOUS
<1> QED BY ConcatAssociative

LEMMA WayType ==
  ASSUME NEW k, NEW w \in Seq(Envelope), NEW q \in Seq(Job)
  PROVE  /\ Sent(w, k) \in Seq(Msg) /\ q \in Seq(Msg)
         /\ UnderWayIn(w, q, k) \in Seq(Msg) /\ Text(UnderWayIn(w, q, k), k) \in Seq(Char)
<1>1. Sent(w, k) \in Seq(Msg)
  BY SentIs
<1>2. q \in Seq(Msg)
  BY SeqMonotonic DEF Msg
<1>3. UnderWayIn(w, q, k) \in Seq(Msg)
  BY <1>1, <1>2, ConcatProperties DEF UnderWayIn
<1> QED BY <1>1, <1>2, <1>3, TextType

(* One more message adds its text at the end.                              *)
LEMMA WayAppend ==
  ASSUME NEW k, NEW w \in Seq(Envelope), NEW q \in Seq(Job), NEW j \in Job
  PROVE  Text(UnderWayIn(w, Append(q, j), k), k) = Text(UnderWayIn(w, q, k), k) \o Part(j, k)
<1>1. UnderWayIn(w, Append(q, j), k) = Append(UnderWayIn(w, q, k), j)
  <2>1. j \in Msg
    BY DEF Msg
  <2> QED BY <2>1, WayType, AppendSecond DEF UnderWayIn
<1>2. j \in Msg /\ UnderWayIn(w, q, k) \in Seq(Msg)
  BY WayType DEF Msg
<1> QED BY <1>1, <1>2, TextAppend

LEMMA WholeIdle ==
  ASSUME NEW k, NEW w \in Seq(Envelope), NEW q \in Seq(Job), NEW j \in Job,
         NEW x, NEW b, NEW o, Whole(x, w, q, k, b, o), Part(j, k) = <<>>
  PROVE  Whole(x, w, Append(q, j), k, b, o)
<1> DEFINE t == Text(UnderWayIn(w, q, k), k)
<1>1. t \in Seq(Char)
  BY WayType
<1>2. Text(UnderWayIn(w, Append(q, j), k), k) = t \o <<>>
  BY WayAppend
<1> HIDE DEF t
<1>3. t \o <<>> = t
  BY <1>1, ConcatEmptySeq
<1> QED BY <1>2, <1>3 DEF Whole, t

(* A batch takes the text from the buffer's front to the messages' end.    *)
LEMMA WholeFlush ==
  ASSUME NEW k, NEW w \in Seq(Envelope), NEW q \in Seq(Job), NEW j \in Job,
         NEW x \in Seq(Char), NEW b \in Seq(Char), NEW o,
         Whole(x, w, q, k, b, o), Part(j, k) = b
  PROVE  Whole(x, w, Append(q, j), k, <<>>, o)
<1> DEFINE t == Text(UnderWayIn(w, q, k), k)
           u == t \o b
           v == x \o u
<1>1. t \in Seq(Char)
  BY WayType
<1>2. Text(UnderWayIn(w, Append(q, j), k), k) = u
  BY WayAppend
<1> HIDE DEF t
<1>3. (x \o t) \o b = x \o u
  <2>1. x \in Seq(Char) /\ b \in Seq(Char)
    OBVIOUS
  <2>2. (x \o t) \o b = x \o (t \o b)
    BY ONLY <1>1, <2>1, TextRegroups
  <2> QED BY <2>2
<1>4. u \in Seq(Char)
  BY <1>1, ConcatProperties
<1> HIDE DEF u
<1>5. v \in Seq(Char)
  BY <1>4, ConcatProperties
<1> HIDE DEF v
<1>6. v \o <<>> = v
  BY <1>5, ConcatEmptySeq
<1> QED BY <1>2, <1>3, <1>6 DEF Whole, t, v

LEMMA WholeType ==
  ASSUME NEW k, NEW w \in Seq(Envelope), NEW q \in Seq(Job),
         NEW x \in Seq(Char), NEW b \in Seq(Char), NEW o, NEW c \in Char,
         Whole(x, w, q, k, b, o)
  PROVE  Whole(x, w, q, k, Append(b, c), Append(o, c))
<1> DEFINE t == Text(UnderWayIn(w, q, k), k)
           y == x \o t
<1>1. t \in Seq(Char)
  BY WayType
<1> HIDE DEF t
<1>2. y \in Seq(Char)
  BY <1>1, ConcatProperties
<1> HIDE DEF y
<1>3. y \o Append(b, c) = Append(y \o b, c)
  BY <1>2, AppendSecond
<1> QED BY <1>3 DEF Whole, t, y

(* A message that goes from the encryptions to the wire stays in place.    *)
LEMMA WholeEncrypted ==
  ASSUME NEW k, NEW w \in Seq(Envelope), NEW q \in Seq(Job), q # <<>>,
         NEW e \in Envelope, Taken(e, k) = Head(q),
         NEW x, NEW b, NEW o, Whole(x, w, q, k, b, o)
  PROVE  Whole(x, Append(w, e), Tail(q), k, b, o)
<1> DEFINE s == Sent(w, k)
<1>1. s \in Seq(Msg) /\ q \in Seq(Msg)
  BY WayType
<1>2. Sent(Append(w, e), k) = Append(s, Head(q))
  BY SentAppend
<1> HIDE DEF s
<1>3. Append(s, Head(q)) \o Tail(q) = s \o q
  BY <1>1, PassOn
<1>4. UnderWayIn(Append(w, e), Tail(q), k) = UnderWayIn(w, q, k)
  BY <1>2, <1>3 DEF UnderWayIn, s
<1> QED BY <1>4 DEF Whole

(* What the agent reads is the text at the front.                          *)
LEMMA WholeRead ==
  ASSUME NEW k, NEW w \in Seq(Envelope), NEW q \in Seq(Job), w # <<>>,
         NEW x \in Seq(Char), NEW b, NEW o, Whole(x, w, q, k, b, o),
         NEW d, d = Part(Taken(Head(w), k), k)
  PROVE  Whole(x \o d, Tail(w), q, k, b, o)
<1> DEFINE s == Sent(w, k)
           n == UnderWayIn(w, q, k)
           t == Text(Tail(n), k)
<1>1. s \in Seq(Msg) /\ q \in Seq(Msg) /\ n \in Seq(Msg) /\ n = s \o q
  BY WayType DEF UnderWayIn
<1>2. s # <<>> /\ Head(s) = Taken(Head(w), k) /\ Sent(Tail(w), k) = Tail(s)
  BY SentTail
<1> HIDE DEF s, n
<1>3. n # <<>> /\ Head(n) = Head(s) /\ Tail(n) = Tail(s) \o q
  BY <1>1, <1>2, ReadFirst
<1>4. Text(n, k) = d \o t
  BY <1>1, <1>2, <1>3, TextTail
<1>5. UnderWayIn(Tail(w), q, k) = Tail(n)
  BY <1>2, <1>3 DEF UnderWayIn
<1>6. Head(n) \in Msg /\ Tail(n) \in Seq(Msg)
  BY <1>1, <1>3, HeadTailProperties
<1>7. d \in Seq(Char) /\ t \in Seq(Char)
  BY <1>2, <1>3, <1>6, PartType, TextType
<1> HIDE DEF t
<1>8. (x \o d) \o t = x \o (d \o t)
  <2>1. x \in Seq(Char)
    OBVIOUS
  <2> QED BY ONLY <1>7, <2>1, TextRegroups
<1> QED BY <1>4, <1>5, <1>8 DEF Whole, t, n

(* Nothing is under way of a session that no message is of.                *)
LEMMA WholeNew ==
  ASSUME NEW k, NEW w \in Seq(Envelope), NEW q \in Seq(Job), NEW b \in Seq(Char),
         \A i \in DOMAIN w : w[i].id # k,
         \A i \in DOMAIN q : q[i].key # k
  PROVE  Whole(<<>>, w, q, k, b, b)
<1> DEFINE s == Sent(w, k)
           n == s \o q
<1>1. s \in Seq(Msg) /\ q \in Seq(Msg) /\ n \in Seq(Msg) /\ n = UnderWayIn(w, q, k)
  BY WayType DEF UnderWayIn
<1>2. Len(s) = Len(w) /\ DOMAIN w = 1 .. Len(w) /\ DOMAIN q = 1 .. Len(q)
  <2>1. Elementwise(Msg, w, Takes(k)) /\ Sent(w, k) = Mapped(w, Takes(k))
    BY SentIs, MappedType
  <2> QED BY <2>1, LenProperties DEF Elementwise
<1>3. \A i \in 1 .. Len(s) : Part(s[i], k) = <<>>
  <2>1. \A i \in DOMAIN w : s[i] = NoText
    BY DEF Sent, Taken
  <2> HIDE DEF s
  <2> QED BY <1>2, <2>1 DEF Part, NoText, Request
<1>4. \A i \in 1 .. Len(q) : Part(q[i], k) = <<>>
  BY <1>2 DEF Part
<1> HIDE DEF s
<1>5. /\ \A i \in 1 .. Len(s) + Len(q) : n[i] = IF i <= Len(s) THEN s[i] ELSE q[i - Len(s)]
      /\ Len(n) = Len(s) + Len(q) /\ Len(s) \in Nat /\ Len(q) \in Nat
  BY <1>1, ConcatProperties, LenProperties
<1> HIDE DEF n
<1>6. ASSUME NEW i \in 1 .. Len(n) PROVE Part(n[i], k) = <<>>
  <2>1. CASE i <= Len(s)
    BY <1>3, <1>5, <2>1
  <2>2. CASE ~(i <= Len(s))
    <3>1. i - Len(s) \in 1 .. Len(q)
      BY <1>5, <2>2
    <3> QED BY <1>4, <1>5, <2>2, <3>1
  <2> QED BY <2>1, <2>2
<1>7. Text(n, k) = <<>>
  BY <1>1, <1>6, TextNothing
<1>8. <<>> \o <<>> = <<>> /\ <<>> \o b = b
  BY ConcatEmptySeq
<1> QED BY <1>1, <1>7, <1>8 DEF Whole

-----------------------------------------------------------------------------
(* InputConserved in these terms, and what the steps keep besides: no      *)
(* message is of a session that is yet to begin.                           *)
Serves == session # None /\ serving = session
NoLoss == Serves => Whole(shellIn, wire, jobs, session, inbuf, owed)

LEMMA InputConservedIs == InputConserved <=> NoLoss
  BY DEF InputConserved, NoLoss, Serves, Whole, Bytes, OnWire, Text, Part, UnderWayIn, Sent,
         Taken, NoText

Past ==
  /\ \A i \in DOMAIN jobs : jobs[i].key <= sessions
  /\ \A i \in DOMAIN wire : wire[i].id <= sessions

(* What is begun besides a batch: no text, in the session there is.        *)
Idles == jobs' = jobs \/ \E j \in Job : jobs' = Append(jobs, j) /\ j.key = session /\ j.kind # "pty"

LEMMA JobKeys ==
  /\ \A k, b : Batch(k, b).kind = "pty" /\ Batch(k, b).key = k /\ Batch(k, b).data = b
  /\ \A k, z : Report(k, z).kind = "resize" /\ Report(k, z).key = k
  /\ \A k, r : Request(k, r).kind = "sync_req" /\ Request(k, r).key = k
  BY DEF Batch, Report, Request

LEMMA RecoverIdles ==
  ASSUME SessionType, Recover
  PROVE  Idles
<1>1. session # None => Request(session, TRUE) \in Job
  BY LiveSession, Jobs
<1>2. jobs' = jobs \/ (session # None /\ jobs' = Append(jobs, Request(session, TRUE)))
  BY DEF Recover
<1>3. Request(session, TRUE).key = session /\ Request(session, TRUE).kind # "pty"
  BY JobKeys
<1> QED BY <1>1, <1>2, <1>3 DEF Idles

LEMMA ResizeIdles ==
  ASSUME SessionType, NEW z \in Size, SendResize(z)
  PROVE  Idles
<1>1. session # None => Report(session, z) \in Job
  BY LiveSession, Jobs
<1> QED BY <1>1, JobKeys DEF SendResize, Idles

(* A batch of a session, or, without one, a recovery.                      *)
LEMMA PtyJob ==
  ASSUME SessionType, NEW s \in Seq(Char), SendPty(s)
  PROVE  /\ session = None => Idles
         /\ session # None => Batch(session, s) \in Job /\ jobs' = Append(jobs, Batch(session, s))
<1>1. session # None => Batch(session, s) \in Job
  BY LiveSession, Jobs
<1> QED BY <1>1, RecoverIdles DEF SendPty

-----------------------------------------------------------------------------
LEMMA KeyAppend ==
  ASSUME NEW S, NEW q \in Seq(S), NEW j \in S, NEW n, NEW m,
         \A i \in DOMAIN q : q[i].key <= n, j.key <= m,
         \A i \in DOMAIN q : q[i].key <= n => q[i].key <= m
  PROVE  \A i \in DOMAIN Append(q, j) : Append(q, j)[i].key <= m
<1> DEFINE a == Append(q, j)
<1>1. /\ DOMAIN a = 1 .. Len(q) + 1 /\ DOMAIN q = 1 .. Len(q) /\ Len(q) \in Nat
      /\ a[Len(q) + 1] = j /\ \A i \in 1 .. Len(q) : a[i] = q[i]
  OBVIOUS
<1> HIDE DEF a
<1>2. \A i \in 1 .. Len(q) + 1 : i \in 1 .. Len(q) \/ i = Len(q) + 1
  BY <1>1
<1>3. \A i \in DOMAIN a : a[i].key <= m
  BY <1>1, <1>2
<1> QED BY <1>3 DEF a

(* The serial number of each message is a number.                          *)
LEMMA SerialsNat ==
  ASSUME NetType, SessionType
  PROVE  /\ \A i \in DOMAIN jobs : jobs[i].key \in Nat
         /\ \A i \in DOMAIN wire : wire[i].id \in Nat
         /\ sessions \in Nat /\ session \in Nat /\ session <= sessions
<1>1. \A j \in Job : j.key \in Nat
  BY Bounds DEF Job, Batch, Report, Request, Live
<1>2. \A e \in Envelope : e.id \in Nat
  BY Bounds DEF Envelope, Live
<1>3. \A i \in DOMAIN jobs : jobs[i] \in Job
  BY SeqOps DEF NetType
<1>4. \A i \in DOMAIN wire : wire[i] \in Envelope
  BY SeqOps DEF NetType
<1>5. sessions \in Nat /\ session \in Nat /\ session <= sessions
  BY Bounds DEF SessionType, Serial, None
<1> QED BY <1>1, <1>2, <1>3, <1>4, <1>5

LEMMA PastIdles ==
  ASSUME Past, NetType, SessionType, UNCHANGED <<sessions, wire>>,
         jobs' = jobs \/ \E j \in Job : jobs' = Append(jobs, j) /\ j.key = session
  PROVE  Past'
<1>1. CASE jobs' = jobs
  BY <1>1 DEF Past
<1>2. ASSUME NEW j \in Job, jobs' = Append(jobs, j), j.key = session PROVE Past'
  <2>1. j.key <= sessions /\ \A i \in DOMAIN jobs : jobs[i].key <= sessions
    BY <1>2, SerialsNat DEF Past
  <2>2. jobs \in Seq(Job)
    BY DEF NetType
  <2>3. \A i \in DOMAIN Append(jobs, j) : Append(jobs, j)[i].key <= sessions
    BY <2>1, <2>2, KeyAppend
  <2> QED BY <1>2, <2>3 DEF Past
<1> QED BY <1>1, <1>2

LEMMA PastStep ==
  ASSUME Past, Shape, [Next]_vars
  PROVE  Past'
<1>0. NetType /\ SessionType /\ WindowType /\ InputType
  BY DEF Shape
<1>1. CASE UNCHANGED <<sessions, jobs, wire>>
  BY <1>1 DEF Past
<1>2. ASSUME Idles, UNCHANGED <<sessions, wire>> PROVE Past'
  BY <1>0, <1>2, PastIdles DEF Idles
<1>3. ASSUME NEW s \in Seq(Char), SendPty(s), UNCHANGED <<sessions, wire>> PROVE Past'
  <2>1. jobs' = jobs \/ \E j \in Job : jobs' = Append(jobs, j) /\ j.key = session
    BY <1>0, <1>3, PtyJob, JobKeys DEF Idles
  <2> QED BY <1>0, <1>3, <2>1, PastIdles
<1> USE DEF link
<1>4. CASE UNCHANGED vars
  BY <1>1, <1>4 DEF vars
<1>5. ASSUME NEW c \in Char, NEW e \in BOOLEAN, Types(c, e) PROVE Past'
  BY <1>1, <1>5 DEF Types
<1>6. CASE FlushFires
  <2>1. SendPty(inbuf) /\ UNCHANGED <<sessions, wire>>
    BY <1>6 DEF FlushFires
  <2> QED BY <1>0, <1>3, <2>1 DEF InputType
<1>7. CASE (\E m \in Chunk \cup {Warning} : PacketArrives(m)) \/ PacketHandled \/ WarningHandled
  BY <1>1, <1>7 DEF PacketArrives, PacketHandled, WarningHandled
<1>8. CASE BadFrame
  <2>1. Recover /\ UNCHANGED <<sessions, wire>>
    BY <1>8 DEF BadFrame
  <2> QED BY <1>0, <1>2, <2>1, RecoverIdles
<1>9. ASSUME NEW z \in Size, LayoutChanges(z) PROVE Past'
  <2>1. (SendResize(z) \/ jobs' = jobs) /\ UNCHANGED <<sessions, wire>>
    BY <1>9 DEF LayoutChanges
  <2>2. Idles
    BY <1>0, <2>1, ResizeIdles DEF Idles
  <2> QED BY <1>2, <2>1, <2>2
<1>10. CASE DebounceFires \/ PostFrame
  <2>1. (\E z \in Size : SendResize(z)) /\ UNCHANGED <<sessions, wire>>
    BY <1>0, <1>10 DEF DebounceFires, PostFrame, WindowType
  <2> QED BY <1>0, <1>2, <2>1, ResizeIdles
<1>11. CASE PinchStarts \/ PinchEnds
  BY <1>1, <1>11 DEF PinchStarts, PinchEnds
<1>12. CASE UserConnects \/ Reconnects
  <2>1. /\ sessions < MaxSession /\ sessions' = sessions + 1 /\ wire' = wire
        /\ jobs' = Append(jobs, Request(sessions + 1, FALSE))
    BY <1>12, Begins DEF SessionBegins
  <2>2. Request(sessions + 1, FALSE) \in Job /\ Request(sessions + 1, FALSE).key = sessions + 1
    <3>1. sessions + 1 \in Live
      BY <1>0, <2>1, Bounds DEF SessionType, Serial, Live
    <3> QED BY <3>1, Jobs, JobKeys
  <2>3. /\ \A i \in DOMAIN jobs : jobs[i].key <= sessions /\ jobs[i].key <= sessions + 1
        /\ \A i \in DOMAIN wire : wire[i].id <= sessions + 1
    BY <1>0, SerialsNat DEF Past
  <2>4. jobs \in Seq(Job)
    BY <1>0 DEF NetType
  <2> DEFINE r == Request(sessions + 1, FALSE)
  <2>5. r \in Job /\ r.key <= sessions + 1
    <3>1. sessions + 1 <= sessions + 1
      BY <1>0, SerialsNat
    <3> QED BY <2>2, <3>1
  <2> HIDE DEF r
  <2>6. \A i \in DOMAIN Append(jobs, r) : Append(jobs, r)[i].key <= sessions + 1
    BY <2>3, <2>4, <2>5, KeyAppend
  <2> QED BY <2>1, <2>3, <2>6 DEF Past, r
<1>13. CASE ConnectionLost
  <2>1. PICK n \in 0 .. Len(wire) : wire' = SubSeq(wire, 1, n)
    BY <1>13 DEF ConnectionLost
  <2>2. \A i \in DOMAIN wire' : i \in DOMAIN wire /\ wire'[i] = wire[i]
    BY <1>0, <2>1 DEF NetType
  <2> QED BY <1>13, <2>2 DEF ConnectionLost, Past
<1>14. CASE UserDisconnects
  <2>1. (jobs' = jobs \/ SendPty(inbuf)) /\ UNCHANGED <<sessions, wire>>
    BY <1>14 DEF UserDisconnects
  <2> QED BY <1>0, <1>1, <1>3, <2>1 DEF InputType
<1>15. CASE EncryptionDone
  <2>1. /\ jobs # <<>> /\ jobs' = Tail(jobs) /\ sessions' = sessions
        /\ wire' = IF session = None THEN wire
                   ELSE Append(wire, [id |-> session, body |-> Head(jobs)])
    BY <1>15 DEF EncryptionDone
  <2>2. \A i \in DOMAIN jobs' : i + 1 \in DOMAIN jobs /\ jobs'[i] = jobs[i + 1]
    BY <1>0, <2>1 DEF NetType
  <2>3. \A i \in DOMAIN wire' : wire'[i].id = session \/ (i \in DOMAIN wire /\ wire'[i] = wire[i])
    BY <1>0, <2>1 DEF NetType
  <2>4. session <= sessions
    BY <1>0, SerialsNat
  <2> QED BY <2>1, <2>2, <2>3, <2>4 DEF Past
<1>16. CASE AgentReads
  <2>1. wire # <<>> /\ wire' = Tail(wire) /\ UNCHANGED <<sessions, jobs>>
    BY <1>16 DEF AgentReads, AgentInput, AgentResizes, AgentIgnores, Reads
  <2>2. \A i \in DOMAIN wire' : i + 1 \in DOMAIN wire /\ wire'[i] = wire[i + 1]
    BY <1>0, <2>1 DEF NetType
  <2> QED BY <2>1, <2>2 DEF Past
<1>17. CASE BridgeEnds \/ ShellReplaced
  BY <1>1, <1>17 DEF BridgeEnds, ShellReplaced
<1> QED
  BY <1>4, <1>5, <1>6, <1>7, <1>8, <1>9, <1>10, <1>11, <1>12, <1>13, <1>14, <1>15, <1>16, <1>17
  DEF Next, Input, Output, Window, Connection, Agent

-----------------------------------------------------------------------------
LEMMA IdleKeeps ==
  ASSUME NoLoss, NetType, Idles, UNCHANGED <<session, serving, wire, shellIn, inbuf, owed>>
  PROVE  NoLoss'
<1> SUFFICES ASSUME Serves PROVE Whole(shellIn, wire, jobs', session, inbuf, owed)
  BY DEF NoLoss, Serves
<1>1. Whole(shellIn, wire, jobs, session, inbuf, owed)
  BY DEF NoLoss
<1>2. wire \in Seq(Envelope) /\ jobs \in Seq(Job)
  BY DEF NetType
<1>3. ASSUME NEW j \in Job, jobs' = Append(jobs, j), j.kind # "pty"
      PROVE  Whole(shellIn, wire, jobs', session, inbuf, owed)
  <2>1. Part(j, session) = <<>>
    BY <1>3 DEF Part
  <2>2. Whole(shellIn, wire, Append(jobs, j), session, inbuf, owed)
    BY <1>1, <1>2, <2>1, WholeIdle
  <2> QED BY <1>3, <2>2
<1> QED BY <1>1, <1>3 DEF Idles

(* A session begins with nothing under way and the buffer still to go.     *)
LEMMA BeginKeeps ==
  ASSUME Past, NetType, SessionType, InputType, SessionBegins
  PROVE  NoLoss'
<1> DEFINE k == sessions + 1
           q == Append(jobs, Request(k, FALSE))
<1>1. /\ session' = k /\ shellIn' = <<>> /\ owed' = inbuf /\ inbuf' = inbuf /\ wire' = wire
      /\ jobs' = q
  BY DEF SessionBegins
<1>2. k \in Live /\ Request(k, FALSE) \in Job
  <2>1. k \in Live
    BY Bounds DEF SessionBegins, SessionType, Serial, Live
  <2> QED BY <2>1, Jobs
<1>3. \A i \in DOMAIN jobs : jobs[i].key # k
  BY SerialsNat DEF Past
<1>4. \A i \in DOMAIN wire : wire[i].id # k
  BY SerialsNat DEF Past
<1>5. jobs \in Seq(Job) /\ wire \in Seq(Envelope) /\ inbuf \in Seq(Char)
  BY DEF NetType, InputType
<1> HIDE DEF k, q
<1>6. Whole(<<>>, wire, jobs, k, inbuf, inbuf)
  BY <1>3, <1>4, <1>5, WholeNew
<1> DEFINE r == Request(k, FALSE)
<1>7. r \in Job /\ Part(r, k) = <<>>
  BY <1>2, JobKeys DEF Part
<1> HIDE DEF r
<1>8. Whole(<<>>, wire, Append(jobs, r), k, inbuf, inbuf)
  BY <1>5, <1>6, <1>7, WholeIdle
<1> QED BY <1>1, <1>8 DEF NoLoss, q, r

(* What is encrypted in its session goes on; what is not was no session's. *)
LEMMA EncryptionKeeps ==
  ASSUME NoLoss, NetType, SessionType, EncryptionDone
  PROVE  NoLoss'
<1>1. /\ jobs # <<>> /\ jobs' = Tail(jobs)
      /\ wire' = IF session = None THEN wire
                 ELSE Append(wire, [id |-> session, body |-> Head(jobs)])
      /\ UNCHANGED <<session, serving, shellIn, inbuf, owed>>
  BY DEF EncryptionDone, agent
<1> SUFFICES ASSUME Serves PROVE Whole(shellIn, wire', jobs', session, inbuf, owed)
  BY <1>1 DEF NoLoss, Serves
<1>2. Whole(shellIn, wire, jobs, session, inbuf, owed)
  BY DEF NoLoss
<1>3. wire \in Seq(Envelope) /\ jobs \in Seq(Job)
  BY DEF NetType
<1> DEFINE e == [id |-> session, body |-> Head(jobs)]
<1>4. e \in Envelope /\ Taken(e, session) = Head(jobs)
  <2>1. Head(jobs) \in Job
    BY <1>1, <1>3, HeadTailProperties
  <2>2. session \in Live
    BY LiveSession DEF Serves
  <2> QED BY <2>1, <2>2 DEF Envelope, Taken
<1>5. wire' = Append(wire, e)
  BY <1>1 DEF Serves
<1> HIDE DEF e
<1>6. Whole(shellIn, Append(wire, e), Tail(jobs), session, inbuf, owed)
  BY <1>1, <1>2, <1>3, <1>4, WholeEncrypted
<1> QED BY <1>1, <1>5, <1>6

(* What the agent reads without writing it to the shell is no text.        *)
LEMMA ReadKeeps ==
  ASSUME NoLoss, NetType, InputType, AgentReads
  PROVE  NoLoss'
<1>1. /\ wire # <<>> /\ wire' = Tail(wire)
      /\ UNCHANGED <<session, serving, jobs, inbuf, owed>>
  BY DEF AgentReads, AgentInput, AgentResizes, AgentIgnores, Reads, typing, agent
<1> SUFFICES ASSUME Serves PROVE Whole(shellIn', Tail(wire), jobs, session, inbuf, owed)
  BY <1>1 DEF NoLoss, Serves
<1>2. Whole(shellIn, wire, jobs, session, inbuf, owed)
  BY DEF NoLoss
<1>3. wire \in Seq(Envelope) /\ jobs \in Seq(Job) /\ shellIn \in Seq(Char)
  BY DEF NetType, InputType
<1>4. serving = session
  BY DEF Serves
<1> DEFINE m == Head(wire)
           d == Part(Taken(m, session), session)
<1>5. shellIn' = shellIn \o d
  <2>1. shellIn \o <<>> = shellIn
    BY <1>3, ConcatEmptySeq
  <2>2. CASE AgentInput
    <3>1. Served(m) /\ m.body.kind = "pty" /\ shellIn' = shellIn \o m.body.data
      BY <2>2 DEF AgentInput, Reads
    <3>2. m.id = session /\ m.body.key = session
      BY <1>4, <3>1 DEF Served
    <3>3. d = m.body.data
      BY <3>1, <3>2 DEF Part, Taken
    <3> QED BY <3>1, <3>3
  <2>3. CASE AgentResizes
    <3>1. m.body.kind = "resize" /\ shellIn' = shellIn
      BY <2>3 DEF AgentResizes, Reads
    <3>2. d = <<>>
      BY <3>1 DEF Part, Taken, NoText, Request
    <3> QED BY <2>1, <3>1, <3>2
  <2>4. CASE AgentIgnores
    <3>1. (Served(m) => m.body.kind = "sync_req") /\ shellIn' = shellIn
      BY <2>4 DEF AgentIgnores, Reads, agent
    <3>2. m.id = session /\ m.body.key = session => m.body.kind = "sync_req"
      BY <1>4, <3>1 DEF Served
    <3>3. d = <<>>
      BY <3>2 DEF Part, Taken, NoText, Request
    <3> QED BY <2>1, <3>1, <3>3
  <2> QED BY <2>2, <2>3, <2>4 DEF AgentReads
<1> HIDE DEF d
<1>6. Whole(shellIn \o d, Tail(wire), jobs, session, inbuf, owed)
  BY <1>1, <1>2, <1>3, WholeRead DEF d
<1> QED BY <1>5, <1>6

LEMMA NoLossStep ==
  ASSUME NoLoss, Past, Shape, [Next]_vars
  PROVE  NoLoss'
<1>0. NetType /\ SessionType /\ WindowType /\ InputType
  BY DEF Shape
<1>1. CASE UNCHANGED <<session, serving, wire, jobs, shellIn, inbuf, owed>>
  BY <1>1 DEF NoLoss, Serves
<1>2. CASE ~Serves'
  BY <1>2 DEF NoLoss
<1> USE DEF link, typing, agent
<1>3. CASE UNCHANGED vars
  BY <1>1, <1>3 DEF vars
<1>4. ASSUME NEW c \in Char, NEW e \in BOOLEAN, Types(c, e) PROVE NoLoss'
  <2>1. /\ inbuf' = Append(inbuf, c) /\ owed' = Append(owed, c)
        /\ UNCHANGED <<session, serving, wire, jobs, shellIn>>
    BY <1>4 DEF Types
  <2> SUFFICES ASSUME Serves
               PROVE  Whole(shellIn, wire, jobs, session, Append(inbuf, c), Append(owed, c))
    BY <2>1 DEF NoLoss, Serves
  <2>2. Whole(shellIn, wire, jobs, session, inbuf, owed)
    BY DEF NoLoss
  <2>3. /\ wire \in Seq(Envelope) /\ jobs \in Seq(Job) /\ shellIn \in Seq(Char)
        /\ inbuf \in Seq(Char)
    BY <1>0 DEF NetType, InputType
  <2> QED BY <2>2, <2>3, WholeType
<1>5. CASE FlushFires
  <2>1. /\ SendPty(inbuf) /\ inbuf' = <<>>
        /\ UNCHANGED <<session, serving, wire, shellIn, owed>>
    BY <1>5 DEF FlushFires
  <2> SUFFICES ASSUME Serves PROVE Whole(shellIn, wire, jobs', session, <<>>, owed)
    BY <2>1 DEF NoLoss, Serves
  <2>2. Whole(shellIn, wire, jobs, session, inbuf, owed)
    BY DEF NoLoss
  <2>3. /\ wire \in Seq(Envelope) /\ jobs \in Seq(Job) /\ shellIn \in Seq(Char)
        /\ inbuf \in Seq(Char)
    BY <1>0 DEF NetType, InputType
  <2> DEFINE j == Batch(session, inbuf)
  <2>4. j \in Job /\ jobs' = Append(jobs, j)
    BY <1>0, <2>1, <2>3, PtyJob DEF Serves
  <2>5. Part(j, session) = inbuf
    BY JobKeys DEF Part
  <2> HIDE DEF j
  <2>6. Whole(shellIn, wire, Append(jobs, j), session, <<>>, owed)
    BY <2>2, <2>3, <2>4, <2>5, WholeFlush
  <2> QED BY <2>4, <2>6
<1>6. CASE (\E m \in Chunk \cup {Warning} : PacketArrives(m)) \/ PacketHandled \/ WarningHandled
  BY <1>1, <1>6 DEF PacketArrives, PacketHandled, WarningHandled
<1>7. CASE BadFrame
  <2>1. Recover /\ UNCHANGED <<session, serving, wire, shellIn, inbuf, owed>>
    BY <1>7 DEF BadFrame
  <2> QED BY <1>0, <2>1, RecoverIdles, IdleKeeps
<1>8. ASSUME NEW z \in Size, LayoutChanges(z) PROVE NoLoss'
  <2>1. /\ SendResize(z) \/ jobs' = jobs
        /\ UNCHANGED <<session, serving, wire, shellIn, inbuf, owed>>
    BY <1>8 DEF LayoutChanges
  <2>2. Idles
    BY <1>0, <2>1, ResizeIdles DEF Idles
  <2> QED BY <1>0, <2>1, <2>2, IdleKeeps
<1>9. CASE DebounceFires \/ PostFrame
  <2>1. /\ \E z \in Size : SendResize(z)
        /\ UNCHANGED <<session, serving, wire, shellIn, inbuf, owed>>
    BY <1>0, <1>9 DEF DebounceFires, PostFrame, WindowType
  <2> QED BY <1>0, <2>1, ResizeIdles, IdleKeeps
<1>10. CASE PinchStarts \/ PinchEnds
  BY <1>1, <1>10 DEF PinchStarts, PinchEnds
<1>11. CASE UserConnects \/ Reconnects
  BY <1>0, <1>11, Begins, BeginKeeps
<1>12. CASE ConnectionLost \/ UserDisconnects
  <2>1. session' = None
    BY <1>12 DEF ConnectionLost, UserDisconnects
  <2> QED BY <1>2, <2>1 DEF Serves
<1>13. CASE EncryptionDone
  BY <1>0, <1>13, EncryptionKeeps
<1>14. CASE AgentReads
  BY <1>0, <1>14, ReadKeeps
<1>15. CASE BridgeEnds \/ ShellReplaced
  <2>1. serving' = None
    BY <1>15 DEF BridgeEnds, ShellReplaced
  <2> QED BY <1>2, <2>1 DEF Serves
<1> QED
  BY <1>3, <1>4, <1>5, <1>6, <1>7, <1>8, <1>9, <1>10, <1>11, <1>12, <1>13, <1>14, <1>15
  DEF Next, Input, Output, Window, Connection, Agent

(* While the agent serves the app's session, all that was typed since it   *)
(* began, or was in the buffer then, is in the shell, on the wire, being   *)
(* encrypted or in the buffer, once and in order: no batch is lost,        *)
(* doubled or overtaken between onOutput and write_input, whatever         *)
(* encryptions of earlier sessions end in this one (InputConserved).       *)
THEOREM InputConservedAlways == Spec => []InputConserved
<1>1. Init => NoLoss /\ Past
  BY DEF Init, NoLoss, Serves, Past
<1>2. NoLoss /\ Past /\ Shape /\ [Next]_vars => (NoLoss /\ Past)'
  BY NoLossStep, PastStep
<1> QED BY ShapeAlways, InputConservedIs, <1>1, <1>2, PTL DEF Spec
=============================================================================
