--------------------------- MODULE RingBufferProofs ---------------------------
(***************************************************************************)
(* Proofs about RingBuffer, for every capacity, packet size and number of  *)
(* packets.  The inductive invariant Inv is the conjunction of the five    *)
(* invariants: what a push evicts is only known when current_bytes is the  *)
(* size of the buffer (Accounting), and what a request is answered only    *)
(* when the buffer is the end of the log (KeepsNewest).                    *)
(*                                                                         *)
(* The first part is about Bytes, the sum of the packet sizes, which a     *)
(* recursive function defines: its equations and how it splits.  The next  *)
(* part is the eviction loop, then come the steps, then the refinement of  *)
(* ReplayLog.                                                              *)
(***************************************************************************)
EXTENDS RingBuffer, NaturalsInduction, WellFoundedInduction, TLAPS

(* A set that holds 0 and is closed under successor holds every natural.   *)
LEMMA SetInduction ==
  ASSUME NEW S, 0 \in S, \A n \in Nat : n \in S => n + 1 \in S
  PROVE  Nat \subseteq S
<1> DEFINE T == Nat \ S
<1> SUFFICES ASSUME T # {} PROVE FALSE
  OBVIOUS
<1>1. IsWellFoundedOn(OpToRel(<, Nat), Nat)
  BY NatLessThanWellFounded
<1>2. PICK x \in T : \A y \in T : ~(<<y, x>> \in OpToRel(<, Nat))
  <2> HIDE DEF T
  <2>1. T \subseteq Nat
    BY DEF T
  <2> QED
    BY <1>1, <2>1, WFMin
<1>3. x # 0 /\ x - 1 \in Nat /\ x - 1 \notin S
  OBVIOUS
<1>4. <<x - 1, x>> \in OpToRel(<, Nat)
  BY <1>3 DEF OpToRel
<1> QED
  BY <1>2, <1>3, <1>4

(* A nonempty set of naturals has a least element.                         *)
LEMMA LeastNumber ==
  ASSUME NEW C, C \subseteq Nat, C # {}
  PROVE  \E x \in C : \A y \in C : x <= y
<1>1. IsWellFoundedOn(OpToRel(<, Nat), Nat)
  BY NatLessThanWellFounded
<1>2. PICK x \in C : \A y \in C : ~(<<y, x>> \in OpToRel(<, Nat))
  BY <1>1, WFMin
<1>3. ASSUME NEW y \in C PROVE x <= y
  <2>1. y < x => <<y, x>> \in OpToRel(<, Nat)
    BY DEF OpToRel
  <2>2. ~(y < x)
    BY <1>2, <2>1
  <2>3. x \in Nat /\ y \in Nat
    OBVIOUS
  <2> QED BY <2>2, <2>3
<1> QED BY <1>3

-----------------------------------------------------------------------------
(* Running totals of the sizes in a sequence of packets, and what Bytes    *)
(* (the model's current_bytes arithmetic) follows from them.               *)
IsTotals(f, s) ==
  /\ f \in [0 .. Len(s) -> Nat]
  /\ f[0] = 0
  /\ \A i \in 1 .. Len(s) : f[i] = f[i - 1] + s[i].size

(* The size of a packet is a natural number, at most the capacity.         *)
LEMMA PacketSize ==
  ASSUME NEW p \in Packet PROVE p.size \in Nat /\ p.size <= MaxBytes
<1>1. p.size \in 1 .. MaxBytes
  BY SizesAssumption DEF Packet
<1> QED BY <1>1, SizesAssumption

(* A running total of packet sizes is a natural number at every place.     *)
LEMMA TotalsType ==
  ASSUME NEW s \in Seq(Packet), NEW f, IsTotals(f, s), NEW k \in 0 .. Len(s)
  PROVE  f[k] \in Nat
BY DEF IsTotals

(* Every sequence of packets has running totals.                           *)
LEMMA TotalsExist ==
  ASSUME NEW s \in Seq(Packet)
  PROVE  \E f : IsTotals(f, s)
<1> DEFINE Upto(n) == \E f \in [0 .. n -> Nat] :
                        /\ f[0] = 0
                        /\ \A i \in 1 .. n : f[i] = f[i - 1] + s[i].size
           S == {n \in Nat : n <= Len(s) => Upto(n)}
<1>1. Upto(0)
  <2> DEFINE f == [i \in 0 .. 0 |-> 0]
  <2>1. f \in [0 .. 0 -> Nat] /\ f[0] = 0 /\ \A i \in 1 .. 0 : f[i] = f[i - 1] + s[i].size
    OBVIOUS
  <2> QED BY <2>1
<1>2. ASSUME NEW n \in Nat, n \in S, n + 1 <= Len(s) PROVE Upto(n + 1)
  <2>1. PICK f \in [0 .. n -> Nat] :
          f[0] = 0 /\ \A i \in 1 .. n : f[i] = f[i - 1] + s[i].size
    <3>1. Upto(n)
      <4> HIDE DEF Upto
      <4> QED BY <1>2
    <3> QED BY <3>1
  <2> DEFINE g == [i \in 0 .. (n + 1) |->
                     IF i = n + 1 THEN f[n] + s[n + 1].size ELSE f[i]]
  <2>2. s[n + 1] \in Packet
    BY SMTT(30)
  <2>3. g \in [0 .. (n + 1) -> Nat]
    BY <2>1, <2>2, PacketSize
  <2>4. g[0] = 0
    BY <2>1
  <2>5. ASSUME NEW i \in 1 .. (n + 1) PROVE g[i] = g[i - 1] + s[i].size
    BY <2>1
  <2> HIDE DEF g
  <2> QED BY <2>3, <2>4, <2>5
<1>3. Len(s) \in S
  <2> HIDE DEF Upto
  <2>1. 0 \in S
    BY <1>1
  <2>2. \A n \in Nat : n \in S => n + 1 \in S
    BY <1>2
  <2> HIDE DEF S
  <2>3. Nat \subseteq S
    BY <2>1, <2>2, SetInduction
  <2> QED BY <2>3 DEF S
<1> QED BY <1>3 DEF IsTotals

(* Bytes is the last running total.                                        *)
LEMMA BytesIsTotal ==
  ASSUME NEW s \in Seq(Packet)
  PROVE  \E f : IsTotals(f, s) /\ Bytes(s) = f[Len(s)]
<1> DEFINE Body(h) == [i \in 0 .. Len(s) |->
                         IF i = 0 THEN 0 ELSE h[i - 1] + s[i].size]
           sum == CHOOSE h : h = Body(h)
<1>1. PICK f : IsTotals(f, s)
  BY TotalsExist
<1>2. f = Body(f)
  BY <1>1 DEF IsTotals
<1>3. sum = Body(sum)
  BY <1>2
<1>4. Bytes(s) = sum[Len(s)]
  BY DEF Bytes
<1>5. IsTotals(sum, s)
  <2> HIDE DEF sum
  <2>1. /\ DOMAIN sum = 0 .. Len(s)
        /\ sum = [i \in 0 .. Len(s) |-> sum[i]]
        /\ sum[0] = 0
        /\ \A i \in 1 .. Len(s) : sum[i] = sum[i - 1] + s[i].size
    BY <1>3
  <2> DEFINE S == {n \in Nat : n <= Len(s) => sum[n] \in Nat}
  <2>2. 0 \in S
    BY <2>1
  <2>3. ASSUME NEW n \in Nat, n \in S PROVE n + 1 \in S
    <3> SUFFICES ASSUME n + 1 <= Len(s) PROVE sum[n + 1] \in Nat
      OBVIOUS
    <3>1. s[n + 1].size \in Nat
      BY PacketSize
    <3>2. sum[n + 1] = sum[n] + s[n + 1].size
      BY <2>1
    <3> QED BY <2>3, <3>1, <3>2
  <2>4. Nat \subseteq S
    <3> HIDE DEF S
    <3> QED BY <2>2, <2>3, SetInduction
  <2>5. \A n \in 0 .. Len(s) : sum[n] \in Nat
    BY <2>4
  <2> QED BY <2>1, <2>5 DEF IsTotals
<1> QED BY <1>4, <1>5

(* Sequences that agree on a prefix have the same running totals there.    *)
LEMMA TotalsAgree ==
  ASSUME NEW s \in Seq(Packet), NEW t \in Seq(Packet), NEW f, NEW g,
         IsTotals(f, s), IsTotals(g, t),
         NEW k \in Nat, k <= Len(s), k <= Len(t),
         \A i \in 1 .. k : s[i] = t[i]
  PROVE  f[k] = g[k]
<1> DEFINE S == {n \in Nat : n <= k => f[n] = g[n]}
<1>1. 0 \in S
  BY DEF IsTotals
<1>2. ASSUME NEW n \in Nat, n \in S PROVE n + 1 \in S
  <2> SUFFICES ASSUME n + 1 <= k PROVE f[n + 1] = g[n + 1]
    OBVIOUS
  <2>1. n + 1 \in 1 .. k /\ n + 1 \in 1 .. Len(s) /\ n + 1 \in 1 .. Len(t)
    OBVIOUS
  <2>2. f[n] = g[n]
    BY <1>2
  <2>3. /\ f[n + 1] = f[(n + 1) - 1] + s[n + 1].size
        /\ g[n + 1] = g[(n + 1) - 1] + t[n + 1].size
    BY <2>1 DEF IsTotals
  <2>4. s[n + 1] = t[n + 1] /\ (n + 1) - 1 = n
    BY <2>1
  <2> QED BY <2>2, <2>3, <2>4
<1>3. Nat \subseteq S
  <2> HIDE DEF S
  <2> QED BY <1>1, <1>2, SetInduction
<1> QED BY <1>3

-----------------------------------------------------------------------------
(* What Bytes does, for every sequence of packets.                         *)
LEMMA BytesNat ==
  ASSUME NEW s \in Seq(Packet) PROVE Bytes(s) \in Nat
<1>1. PICK f : IsTotals(f, s) /\ Bytes(s) = f[Len(s)]
  BY BytesIsTotal
<1>2. Len(s) \in 0 .. Len(s)
  OBVIOUS
<1> QED BY <1>1, <1>2, TotalsType

(* The empty buffer holds no bytes.                                        *)
LEMMA BytesEmpty == Bytes(<<>>) = 0
<1>1. <<>> \in Seq(Packet) /\ Len(<<>>) = 0
  OBVIOUS
<1>2. PICK f : IsTotals(f, <<>>) /\ Bytes(<<>>) = f[Len(<<>>)]
  BY <1>1, BytesIsTotal
<1> QED BY <1>1, <1>2 DEF IsTotals

(* One more packet adds its own size.                                      *)
LEMMA BytesAppend ==
  ASSUME NEW s \in Seq(Packet), NEW p \in Packet
  PROVE  Bytes(Append(s, p)) = Bytes(s) + p.size
<1> DEFINE t == Append(s, p)
<1>1. /\ t \in Seq(Packet) /\ Len(t) = Len(s) + 1 /\ t[Len(s) + 1] = p
      /\ Len(s) \in Nat
      /\ \A i \in 1 .. Len(s) : s[i] = t[i]
  OBVIOUS
<1> HIDE DEF t
<1>2. PICK f : IsTotals(f, s) /\ Bytes(s) = f[Len(s)]
  BY BytesIsTotal
<1>3. PICK g : IsTotals(g, t) /\ Bytes(t) = g[Len(t)]
  BY <1>1, BytesIsTotal
<1>4. f[Len(s)] = g[Len(s)]
  BY <1>1, <1>2, <1>3, TotalsAgree
<1>5. g[Len(s) + 1] = g[Len(s)] + p.size
  BY <1>1, <1>3 DEF IsTotals
<1> QED BY <1>1, <1>2, <1>3, <1>4, <1>5 DEF t

(* Cutting a buffer in two splits its bytes: pop_front subtracts exactly   *)
(* what it removes.                                                        *)
LEMMA BytesSplit ==
  ASSUME NEW s \in Seq(Packet), NEW n \in 0 .. Len(s)
  PROVE  Bytes(SubSeq(s, n + 1, Len(s))) = Bytes(s) - Bytes(SubSeq(s, 1, n))
<1> DEFINE t == SubSeq(s, 1, n)
           u == SubSeq(s, n + 1, Len(s))
<1>1. t \in Seq(Packet) /\ Len(t) = n /\ \A i \in 1 .. n : t[i] = s[i]
  OBVIOUS
<1>2. /\ u \in Seq(Packet) /\ Len(u) = Len(s) - n
      /\ \A i \in 1 .. Len(u) : u[i] = s[n + i]
  OBVIOUS
<1> HIDE DEF t, u
<1>3. PICK f : IsTotals(f, s) /\ Bytes(s) = f[Len(s)]
  BY BytesIsTotal
<1>4. PICK g : IsTotals(g, t) /\ Bytes(t) = g[Len(t)]
  BY <1>1, BytesIsTotal
<1>5. PICK h : IsTotals(h, u) /\ Bytes(u) = h[Len(u)]
  BY <1>2, BytesIsTotal
<1>6. g[n] = f[n]
  BY <1>1, <1>3, <1>4, TotalsAgree
<1>7. h[Len(u)] = f[Len(s)] - f[n]
  <2> DEFINE S == {k \in Nat : k <= Len(u) => h[k] = f[n + k] - f[n]}
  <2>1. 0 \in S
    <3>1. f[n] \in Nat
      BY <1>3, TotalsType
    <3>2. h[0] = 0
      BY <1>5 DEF IsTotals
    <3> QED BY <3>1, <3>2
  <2>2. ASSUME NEW k \in Nat, k \in S PROVE k + 1 \in S
    <3> SUFFICES ASSUME k + 1 <= Len(u) PROVE h[k + 1] = f[n + (k + 1)] - f[n]
      OBVIOUS
    <3>1. h[k + 1] = h[k] + s[n + (k + 1)].size
      <4>1. k + 1 \in 1 .. Len(u) /\ (k + 1) - 1 = k
        BY <1>2
      <4>2. u[k + 1] = s[n + (k + 1)]
        BY <1>2, <4>1
      <4>3. h[k + 1] = h[(k + 1) - 1] + u[k + 1].size
        BY <1>5, <4>1 DEF IsTotals
      <4> QED BY <4>1, <4>2, <4>3
    <3>2. f[n + (k + 1)] = f[n + k] + s[n + (k + 1)].size
      BY <1>2, <1>3 DEF IsTotals
    <3>3. s[n + (k + 1)].size \in Nat
      BY <1>2, PacketSize
    <3>4. n + k \in 0 .. Len(s) /\ k \in 0 .. Len(u)
      BY <1>2
    <3>5. f[n] \in Nat /\ f[n + k] \in Nat /\ h[k] \in Nat
      BY <1>2, <1>3, <1>5, <3>4, TotalsType
    <3>6. h[k] = f[n + k] - f[n]
      BY <2>2, <3>4
    <3> QED BY <3>1, <3>2, <3>3, <3>5, <3>6, SMTT(30)
  <2>3. Nat \subseteq S
    <3> HIDE DEF S
    <3> QED BY <2>1, <2>2, SetInduction
  <2>4. Len(u) \in Nat /\ n + Len(u) = Len(s)
    BY <1>2
  <2> QED BY <2>3, <2>4
<1> QED BY <1>1, <1>3, <1>4, <1>5, <1>6, <1>7 DEF t, u

(* The loop of push, entered with the counter at the size of s and the     *)
(* last packet the only new one: it leaves at least that packet, brings    *)
(* the counter to the size of what it leaves, which fits, and would not    *)
(* fit with the last packet popped.                                        *)
LEMMA EvictionLoop ==
  ASSUME NEW s \in Seq(Packet), s # <<>>
  PROVE  LET n    == Evictions(s, Bytes(s))
             rest == SubSeq(s, n + 1, Len(s))
         IN  /\ n \in 0 .. (Len(s) - 1)
             /\ Bytes(rest) = Bytes(s) - Bytes(SubSeq(s, 1, n))
             /\ Bytes(rest) <= MaxBytes
             /\ n > 0 => Bytes(rest) + s[n].size > MaxBytes
<1> DEFINE Fits(n) == n = Len(s) \/ Bytes(s) - Bytes(SubSeq(s, 1, n)) <= MaxBytes
           C == {n \in 0 .. Len(s) : Fits(n)}
           m == Evictions(s, Bytes(s))
<1>1. m \in C /\ \A k \in C : m <= k
  <2>1. m = CHOOSE x \in C : \A y \in C : x <= y
    BY DEF Evictions, Min
  <2>2. \E x \in C : \A y \in C : x <= y
    <3>1. C \subseteq Nat /\ C # {}
      OBVIOUS
    <3> HIDE DEF C
    <3> QED BY <3>1, LeastNumber
  <2> HIDE DEF C, m
  <2> QED BY <2>1, <2>2
<1>2. s \in Seq(Packet) /\ Len(s) \in Nat \ {0}
  OBVIOUS
<1>3. Bytes(s) \in Nat
  BY BytesNat
<1>4. \A k \in 0 .. Len(s) : Bytes(SubSeq(s, 1, k)) \in Nat
  <2>1. \A k \in 0 .. Len(s) : SubSeq(s, 1, k) \in Seq(Packet)
    OBVIOUS
  <2> QED BY <2>1, BytesNat
<1>5. ASSUME NEW k \in 1 .. Len(s)
      PROVE  /\ s[k].size \in Nat /\ s[k].size <= MaxBytes
             /\ Bytes(SubSeq(s, 1, k)) = Bytes(SubSeq(s, 1, k - 1)) + s[k].size
  <2>1. SubSeq(s, 1, k - 1) \in Seq(Packet) /\ s[k] \in Packet
    OBVIOUS
  <2>2. SubSeq(s, 1, k) = Append(SubSeq(s, 1, k - 1), s[k])
    OBVIOUS
  <2> QED BY <2>1, <2>2, BytesAppend, PacketSize
<1>6. SubSeq(s, 1, Len(s)) = s
  OBVIOUS
<1>7. Len(s) - 1 \in C
  <2>1. Len(s) \in 1 .. Len(s) /\ Len(s) - 1 \in 0 .. Len(s)
    BY <1>2
  <2>2. /\ s[Len(s)].size \in Nat /\ s[Len(s)].size <= MaxBytes
        /\ Bytes(s) = Bytes(SubSeq(s, 1, Len(s) - 1)) + s[Len(s)].size
    BY <1>5, <1>6, <2>1
  <2>3. Bytes(SubSeq(s, 1, Len(s) - 1)) \in Nat
    BY <1>4, <2>1
  <2>4. Bytes(s) - Bytes(SubSeq(s, 1, Len(s) - 1)) <= MaxBytes
    BY <2>2, <2>3, SizesAssumption
  <2> QED BY <2>1, <2>4
<1> HIDE DEF m
<1>8. m \in 0 .. (Len(s) - 1)
  BY <1>1, <1>2, <1>7
<1>9. Bytes(SubSeq(s, m + 1, Len(s))) = Bytes(s) - Bytes(SubSeq(s, 1, m))
  BY <1>1, BytesSplit
<1>10. Bytes(SubSeq(s, m + 1, Len(s))) <= MaxBytes
  BY <1>1, <1>2, <1>8, <1>9
<1>11. ASSUME m > 0
       PROVE  Bytes(SubSeq(s, m + 1, Len(s))) + s[m].size > MaxBytes
  <2>1. m - 1 \in 0 .. Len(s) /\ m - 1 \notin C
    BY <1>1, <1>8, <1>11
  <2>2. Bytes(s) - Bytes(SubSeq(s, 1, m - 1)) > MaxBytes
    BY <1>3, <1>4, <2>1, SizesAssumption
  <2>3. m \in 1 .. Len(s)
    BY <1>8, <1>11
  <2> QED BY <1>3, <1>4, <1>5, <1>9, <2>1, <2>2, <2>3, SMTT(30)
<1> QED BY <1>8, <1>9, <1>10, <1>11 DEF m

-----------------------------------------------------------------------------
(* The invariants of the specification are inductive together: eviction    *)
(* relies on the counter being exact (Accounting), exactness of an answer  *)
(* on the window having no holes (KeepsNewest) and not being empty         *)
(* (EvictsOnlyWhenFull).                                                   *)
Inv == TypeOK /\ Accounting /\ EvictsOnlyWhenFull /\ KeepsNewest /\ ReplyExact

(* A new buffer satisfies the invariant.                                   *)
LEMMA InitInv == Init => Inv
<1> SUFFICES ASSUME Init PROVE Inv
  OBVIOUS
<1> USE DEF Init, NoReply, NoGap
<1>1. TypeOK
  BY MaxSeqAssumption DEF TypeOK
<1>2. Accounting
  BY BytesEmpty, SizesAssumption DEF Accounting
<1>3. EvictsOnlyWhenFull /\ KeepsNewest
  BY DEF EvictsOnlyWhenFull, KeepsNewest
<1>4. ReplyExact
  BY DEF ReplyExact, Replayed, InGap
<1> QED BY <1>1, <1>2, <1>3, <1>4 DEF Inv

(* What one push does to the buffer.                                       *)
LEMMA ProduceStep ==
  ASSUME Inv, NEW s \in Sizes, Produce(s)
  PROVE  \E p \in Packet, n \in 0 .. Len(buf) :
           /\ p = [seq |-> seq + 1, size |-> s]
           /\ buf' = SubSeq(Append(buf, p), n + 1, Len(buf) + 1)
           /\ currentBytes' = Bytes(buf')
           /\ Bytes(buf') <= MaxBytes
           /\ n = 0 => Bytes(buf') = Bytes(buf) + s
           /\ n > 0 => Bytes(buf') + Append(buf, p)[n].size > MaxBytes
<1> DEFINE p   == [seq |-> seq + 1, size |-> s]
           all == Append(buf, p)
           n   == Evictions(all, Bytes(all))
<1>1. p \in Packet
  BY MaxSeqAssumption DEF Inv, TypeOK, Packet, Produce
<1>2. buf \in Seq(Packet)
  BY DEF Inv, TypeOK
<1>3. all \in Seq(Packet) /\ all # <<>> /\ Len(all) = Len(buf) + 1
  <2> HIDE DEF p
  <2>1. all \in Seq(Packet) /\ Len(all) = Len(buf) + 1 /\ Len(buf) \in Nat
    BY <1>1, <1>2
  <2> QED BY <2>1
<1>4. Bytes(all) = currentBytes + p.size
  BY <1>1, <1>2, BytesAppend DEF Inv, Accounting
<1>5. /\ n \in 0 .. (Len(all) - 1)
      /\ Bytes(SubSeq(all, n + 1, Len(all))) = Bytes(all) - Bytes(SubSeq(all, 1, n))
      /\ Bytes(SubSeq(all, n + 1, Len(all))) <= MaxBytes
      /\ n > 0 => Bytes(SubSeq(all, n + 1, Len(all))) + all[n].size > MaxBytes
  <2> HIDE DEF all
  <2> QED BY <1>3, EvictionLoop
<1>6. /\ buf' = SubSeq(all, n + 1, Len(all))
      /\ currentBytes' = Bytes(all) - Bytes(SubSeq(all, 1, n))
  BY <1>4 DEF Produce, Push
<1>7. n = 0 => Bytes(buf') = Bytes(buf) + s
  <2> SUFFICES ASSUME n = 0 PROVE Bytes(buf') = Bytes(buf) + s
    OBVIOUS
  <2>1. buf' = all
    <3>1. SubSeq(all, 1, Len(all)) = all
      BY <1>3
    <3> HIDE DEF all, n
    <3> QED BY <1>6, <3>1
  <2> QED BY <1>1, <1>2, <2>1, BytesAppend
<1>8. /\ p = [seq |-> seq + 1, size |-> s]
      /\ n \in 0 .. Len(buf)
      /\ buf' = SubSeq(Append(buf, p), n + 1, Len(buf) + 1)
      /\ currentBytes' = Bytes(buf')
      /\ Bytes(buf') <= MaxBytes
      /\ n > 0 => Bytes(buf') + Append(buf, p)[n].size > MaxBytes
  <2>1. n \in 0 .. Len(buf)
    <3> HIDE DEF n
    <3> QED BY <1>2, <1>3, <1>5
  <2>2. buf' = SubSeq(Append(buf, p), n + 1, Len(buf) + 1)
    <3> HIDE DEF n
    <3> QED BY <1>3, <1>6
  <2> HIDE DEF n, all
  <2> QED BY <1>5, <1>6, <2>1, <2>2 DEF all
<1> HIDE DEF n, p
<1> QED BY <1>1, <1>7, <1>8

(* Pushing a packet keeps the invariant.                                   *)
LEMMA ProduceInv ==
  ASSUME Inv, NEW s \in Sizes, Produce(s)
  PROVE  Inv'
<1>1. PICK p \in Packet, n \in 0 .. Len(buf) :
           /\ p = [seq |-> seq + 1, size |-> s]
           /\ buf' = SubSeq(Append(buf, p), n + 1, Len(buf) + 1)
           /\ currentBytes' = Bytes(buf')
           /\ Bytes(buf') <= MaxBytes
           /\ n = 0 => Bytes(buf') = Bytes(buf) + s
           /\ n > 0 => Bytes(buf') + Append(buf, p)[n].size > MaxBytes
  BY ProduceStep
<1>2. /\ seq \in 0 .. MaxSeq /\ seq < MaxSeq /\ seq' = seq + 1
      /\ log' = Append(log, p) /\ reply' = reply
  BY <1>1 DEF Produce, Inv, TypeOK
<1>3. /\ buf \in Seq(Packet) /\ log \in Seq(Packet)
      /\ Len(log) = seq /\ Len(buf) <= Len(log)
      /\ \A i \in 1 .. Len(log) : log[i].seq = i
      /\ \A i \in 1 .. Len(buf) : buf[i] = log[Len(log) - Len(buf) + i]
  <2>1. buf \in Seq(Packet) /\ log \in Seq(Packet)
    BY DEF Inv, TypeOK
  <2>2. DOMAIN buf = 1 .. Len(buf) /\ DOMAIN log = 1 .. Len(log)
    BY <2>1
  <2> QED BY <2>1, <2>2 DEF Inv, KeepsNewest
<1> DEFINE all == Append(buf, p)
<1>4. /\ all \in Seq(Packet) /\ Len(all) = Len(buf) + 1
      /\ log' \in Seq(Packet) /\ Len(log') = Len(log) + 1
      /\ \A i \in 1 .. Len(buf) : all[i] = buf[i]
      /\ all[Len(buf) + 1] = p
      /\ \A i \in 1 .. Len(log) : log'[i] = log[i]
      /\ log'[Len(log) + 1] = p
  BY <1>2, <1>3
<1>5. /\ buf' \in Seq(Packet) /\ Len(buf') = Len(all) - n
      /\ \A i \in 1 .. Len(buf') : buf'[i] = all[n + i]
  <2> HIDE DEF all
  <2>1. buf' = SubSeq(all, n + 1, Len(all))
    BY <1>1, <1>4 DEF all
  <2> QED BY <1>4, <2>1
<1> HIDE DEF all
<1>6. \A i \in 1 .. Len(all) : all[i] = log'[Len(log') - Len(all) + i]
  <2> TAKE i \in 1 .. Len(all)
  <2>1. CASE i <= Len(buf)
    <3>1. i \in 1 .. Len(buf) /\ Len(log) - Len(buf) + i \in 1 .. Len(log)
      BY <1>3, <2>1
    <3>2. all[i] = log[Len(log) - Len(buf) + i]
      BY <1>3, <1>4, <3>1
    <3>3. Len(log') - Len(all) + i = Len(log) - Len(buf) + i
      BY <1>3, <1>4
    <3> QED BY <1>4, <3>1, <3>2, <3>3
  <2>2. CASE i = Len(buf) + 1
    BY <1>3, <1>4, <2>2
  <2> QED BY <1>3, <1>4, <2>1, <2>2
<1>7. TypeOK'
  <2>1. seq' \in 0 .. MaxSeq
    BY <1>2, MaxSeqAssumption
  <2>2. reply' \in [last : 0 .. MaxSeq, upto : 0 .. MaxSeq,
                    packets : SUBSET Packet, dropped : {NoGap} \cup (Nat \X Nat)]
    BY <1>2 DEF Inv, TypeOK
  <2> QED BY <1>4, <1>5, <2>1, <2>2 DEF TypeOK
<1>8. Accounting'
  BY <1>1 DEF Accounting
<1>9. KeepsNewest'
  <2>1. Len(log') = seq'
    BY <1>2, <1>3, <1>4
  <2>2. \A i \in DOMAIN log' : log'[i].seq = i
    BY <1>1, <1>2, <1>3, <1>4
  <2>3. Len(buf') <= Len(log')
    BY <1>3, <1>4, <1>5
  <2>4. ASSUME NEW i \in DOMAIN buf'
        PROVE  buf'[i] = log'[Len(log') - Len(buf') + i]
    <3>0. /\ Len(buf) \in Nat /\ Len(log') \in Nat /\ i \in 1 .. Len(buf')
          /\ Len(all) = Len(buf) + 1 /\ Len(buf') = Len(all) - n
      BY <1>3, <1>4, <1>5
    <3>1. n + i \in 1 .. Len(all) /\ i \in 1 .. Len(buf')
      BY <3>0
    <3>2. Len(log') - Len(all) + (n + i) = Len(log') - Len(buf') + i
      BY <3>0
    <3>3. buf'[i] = all[n + i]
      BY <1>5, <3>1
    <3>4. all[n + i] = log'[Len(log') - Len(all) + (n + i)]
      BY <1>6, <3>1
    <3> QED BY <3>2, <3>3, <3>4
  <2> QED BY <2>1, <2>2, <2>3, <2>4 DEF KeepsNewest
<1>10. EvictsOnlyWhenFull'
  <2> SUFFICES ASSUME Len(buf') < Len(log')
               PROVE  /\ buf' # <<>>
                      /\ Bytes(buf') + log'[Len(log') - Len(buf')].size > MaxBytes
    BY DEF EvictsOnlyWhenFull
  <2>1. Len(buf') > 0 /\ buf' # <<>>
    BY <1>3, <1>4, <1>5
  <2>2. CASE n > 0
    <3>1. n \in 1 .. Len(all)
      BY <1>3, <1>4, <2>2
    <3>2. Len(log') - Len(all) + n = Len(log') - Len(buf')
      BY <1>3, <1>4, <1>5, SMTT(30)
    <3> QED BY <1>1, <1>6, <2>1, <2>2, <3>1, <3>2 DEF all
  <2>3. CASE n = 0
    <3>1. Len(buf) < Len(log) /\ Len(log') - Len(buf') = Len(log) - Len(buf)
      BY <1>3, <1>4, <1>5, <2>3
    <3>2. Len(log) - Len(buf) \in 1 .. Len(log)
      BY <1>3, <3>1
    <3>3. Bytes(buf) + log[Len(log) - Len(buf)].size > MaxBytes
      BY <3>1 DEF Inv, EvictsOnlyWhenFull
    <3>4. Bytes(buf) \in Nat /\ s \in Nat /\ log[Len(log) - Len(buf)].size \in Nat
      BY <1>3, <3>2, BytesNat, PacketSize, SizesAssumption
    <3>5. Bytes(buf') = Bytes(buf) + s
      BY <1>1, <2>3
    <3>6. log'[Len(log') - Len(buf')].size = log[Len(log) - Len(buf)].size
      BY <1>4, <3>1, <3>2
    <3> QED BY <2>1, <3>3, <3>4, <3>5, <3>6, SizesAssumption, SMTT(30)
  <2> QED BY <2>2, <2>3
<1>11. ReplyExact'
  BY <1>2 DEF Inv, ReplyExact, Replayed, InGap
<1> QED BY <1>7, <1>8, <1>9, <1>10, <1>11 DEF Inv

-----------------------------------------------------------------------------
(* The window of the buffer in terms of the numbers it holds.              *)
LEMMA Window ==
  ASSUME Inv
  PROVE  /\ seq \in Nat /\ Len(buf) \in 0 .. seq /\ Len(log) = seq
         /\ seq <= MaxSeq
         /\ DOMAIN buf = 1 .. Len(buf)
         /\ buf = <<>> <=> Len(buf) = 0
         /\ buf = <<>> => seq = 0
         /\ \A i \in 1 .. Len(buf) : /\ buf[i] \in Packet
                                      /\ buf[i] = log[seq - Len(buf) + i]
                                      /\ buf[i].seq = seq - Len(buf) + i
<1>1. /\ buf \in Seq(Packet) /\ log \in Seq(Packet) /\ seq \in 0 .. MaxSeq
      /\ Len(log) = seq /\ Len(buf) <= Len(log)
  BY DEF Inv, TypeOK, KeepsNewest
<1>2. DOMAIN buf = 1 .. Len(buf) /\ DOMAIN log = 1 .. Len(log)
  BY <1>1
<1>3. buf = <<>> <=> Len(buf) = 0
  BY <1>1
<1>4. buf = <<>> => seq = 0
  BY <1>1, <1>3 DEF Inv, EvictsOnlyWhenFull
<1>5. ASSUME NEW i \in 1 .. Len(buf)
      PROVE  /\ buf[i] \in Packet
             /\ buf[i] = log[seq - Len(buf) + i]
             /\ buf[i].seq = seq - Len(buf) + i
  <2>1. buf[i] \in Packet /\ seq - Len(buf) + i \in 1 .. Len(log)
    BY <1>1
  <2>2. buf[i] = log[seq - Len(buf) + i]
    BY <1>1, <1>2 DEF Inv, KeepsNewest
  <2>3. log[seq - Len(buf) + i].seq = seq - Len(buf) + i
    BY <1>2, <2>1 DEF Inv, KeepsNewest
  <2> QED BY <2>1, <2>2, <2>3
<1> QED BY <1>1, <1>2, <1>3, <1>4, <1>5, MaxSeqAssumption

(* What packets_since returns, in terms of the window.                     *)
LEMMA PacketsSince ==
  ASSUME Inv, NEW last \in 0 .. MaxSeq
  PROVE  /\ PacketsAfter(last) \in SUBSET Packet
         /\ \A n \in Int : (\E p \in PacketsAfter(last) : p.seq = n)
                              <=> n > last /\ n \in (seq - Len(buf) + 1) .. seq
         /\ DroppedAfter(last) = IF last < seq - Len(buf)
                                 THEN <<last + 1, seq - Len(buf)>> ELSE NoGap
<1>1. last \in Nat
  BY MaxSeqAssumption
<1>2. PacketsAfter(last) \in SUBSET Packet
  BY Window DEF PacketsAfter
<1>3. ASSUME NEW n \in Int
      PROVE  (\E p \in PacketsAfter(last) : p.seq = n)
               <=> n > last /\ n \in (seq - Len(buf) + 1) .. seq
  <2>1. ASSUME NEW p \in PacketsAfter(last), p.seq = n
        PROVE  n > last /\ n \in (seq - Len(buf) + 1) .. seq
    <3>1. PICK i \in 1 .. Len(buf) : p = buf[i] /\ buf[i].seq > last
      BY Window DEF PacketsAfter
    <3> QED BY <2>1, <3>1, Window
  <2>2. ASSUME n > last, n \in (seq - Len(buf) + 1) .. seq
        PROVE  \E p \in PacketsAfter(last) : p.seq = n
    <3> DEFINE i == n - (seq - Len(buf))
    <3>1. i \in 1 .. Len(buf)
      BY <2>2, Window
    <3>2. buf[i].seq = n
      BY <3>1, Window
    <3> HIDE DEF i
    <3>3. buf[i] \in PacketsAfter(last)
      BY <2>2, <3>1, <3>2, Window DEF PacketsAfter
    <3> QED BY <3>2, <3>3
  <2> QED BY <2>1, <2>2
<1>4. DroppedAfter(last) = IF last < seq - Len(buf)
                           THEN <<last + 1, seq - Len(buf)>> ELSE NoGap
  <2>1. CASE buf = <<>>
    BY <1>1, <2>1, Window DEF DroppedAfter
  <2>2. CASE buf # <<>>
    <3>1. 1 \in 1 .. Len(buf)
      BY <2>2, Window
    <3>2. buf[1].seq = seq - Len(buf) + 1
      BY <3>1, Window
    <3> QED BY <1>1, <2>2, <3>2, Window DEF DroppedAfter
  <2> QED BY <2>1, <2>2
<1> QED BY <1>2, <1>3, <1>4

(* Answering a request keeps the invariant.                                *)
LEMMA SyncInv ==
  ASSUME Inv, NEW last \in 0 .. MaxSeq, Sync(last)
  PROVE  Inv'
<1>1. /\ buf' = buf /\ log' = log /\ seq' = seq /\ currentBytes' = currentBytes
      /\ reply' = [last |-> last, upto |-> seq,
                   packets |-> PacketsAfter(last), dropped |-> DroppedAfter(last)]
  BY DEF Sync
<1>2. DroppedAfter(last) \in {NoGap} \cup (Nat \X Nat)
  <2>1. last < seq - Len(buf) => last + 1 \in Nat /\ seq - Len(buf) \in Nat
    BY Window, MaxSeqAssumption
  <2> QED BY <2>1, PacketsSince
<1>3. TypeOK'
  <2>1. seq \in 0 .. MaxSeq
    BY DEF Inv, TypeOK
  <2>2. reply' \in [last : 0 .. MaxSeq, upto : 0 .. MaxSeq,
                    packets : SUBSET Packet, dropped : {NoGap} \cup (Nat \X Nat)]
    BY <1>1, <1>2, <2>1, PacketsSince
  <2> QED BY <1>1, <2>2 DEF Inv, TypeOK
<1>4. Accounting' /\ EvictsOnlyWhenFull' /\ KeepsNewest'
  BY <1>1 DEF Inv, Accounting, EvictsOnlyWhenFull, KeepsNewest
<1>5. ReplyExact'
  <2> SUFFICES ASSUME NEW n \in 0 .. MaxSeq
      PROVE /\ n \in (last + 1) .. seq <=> Replayed(n)' \/ InGap(n)'
            /\ ~(Replayed(n)' /\ InGap(n)')
    BY <1>1 DEF ReplyExact
  <2>1. Replayed(n)' <=> n > last /\ n \in (seq - Len(buf) + 1) .. seq
    <3>1. n \in Int
      BY MaxSeqAssumption
    <3> QED BY <1>1, <3>1, PacketsSince DEF Replayed
  <2>2. InGap(n)' <=> last < seq - Len(buf) /\ n \in (last + 1) .. (seq - Len(buf))
    <3>1. InGap(n)' <=> /\ DroppedAfter(last) # NoGap
                        /\ n \in DroppedAfter(last)[1] .. DroppedAfter(last)[2]
      BY <1>1 DEF InGap
    <3>2. CASE last < seq - Len(buf)
      <4>1. DroppedAfter(last) = <<last + 1, seq - Len(buf)>>
        BY <3>2, PacketsSince
      <4>2. DroppedAfter(last) # NoGap
        BY <4>1 DEF NoGap
      <4> QED BY <3>1, <3>2, <4>1, <4>2
    <3>3. CASE ~(last < seq - Len(buf))
      BY <3>1, <3>3, PacketsSince
    <3> QED BY <3>2, <3>3
  <2>3. n \in Nat /\ last \in Nat /\ seq \in Nat /\ Len(buf) \in 0 .. seq
    BY Window, MaxSeqAssumption
  <2> QED BY <2>1, <2>2, <2>3
<1> QED BY <1>3, <1>4, <1>5 DEF Inv

(* A new run starts from a state like the first.                           *)
LEMMA RestartInv == ASSUME Restart PROVE Inv'
<1> USE DEF Restart, NoReply, NoGap
<1>1. TypeOK'
  BY MaxSeqAssumption DEF TypeOK
<1>2. Accounting'
  BY BytesEmpty, SizesAssumption DEF Accounting
<1>3. EvictsOnlyWhenFull' /\ KeepsNewest'
  BY DEF EvictsOnlyWhenFull, KeepsNewest
<1>4. ReplyExact'
  BY DEF ReplyExact, Replayed, InGap
<1> QED BY <1>1, <1>2, <1>3, <1>4 DEF Inv

(* Every step keeps the invariant.                                         *)
LEMMA StepInv == Inv /\ [Next]_vars => Inv'
<1> SUFFICES ASSUME Inv, [Next]_vars PROVE Inv'
  OBVIOUS
<1>1. ASSUME NEW s \in Sizes, Produce(s) PROVE Inv'
  BY <1>1, ProduceInv
<1>2. ASSUME NEW last \in 0 .. MaxSeq, Sync(last) PROVE Inv'
  BY <1>2, SyncInv
<1>3. CASE Restart
  BY <1>3, RestartInv
<1>4. CASE UNCHANGED vars
  BY <1>4 DEF vars, Inv, TypeOK, Accounting, EvictsOnlyWhenFull, KeepsNewest,
              ReplyExact, Replayed, InGap
<1> QED BY <1>1, <1>2, <1>3, <1>4 DEF Next

(* The inductive invariant always holds.                                   *)
LEMMA Invariance == Spec => []Inv
BY InitInv, StepInv, PTL DEF Spec

(* Every state of the buffer, its counter and its answers has the shape    *)
(* declared (ring_buffer.rs:5-22).                                         *)
THEOREM TypeCorrect == Spec => []TypeOK
BY Invariance, PTL DEF Inv

(* For every capacity and every choice of packet sizes that fit it, push   *)
(* keeps current_bytes exact and within max_bytes (ring_buffer.rs:33-43).  *)
THEOREM AccountingHolds == Spec => []Accounting
BY Invariance, PTL DEF Inv

(* push pops no packet that could have stayed, and never the new one.      *)
THEOREM EvictionIsLazy == Spec => []EvictsOnlyWhenFull
BY Invariance, PTL DEF Inv

(* The buffer is the newest part of the output, without holes.             *)
THEOREM NewestKept == Spec => []KeepsNewest
BY Invariance, PTL DEF Inv

(* The answer to a sync request accounts for every packet exactly once:    *)
(* replayed or reported as dropped (packets_since, ring_buffer.rs:52-71).  *)
THEOREM RepliesExact == Spec => []ReplyExact
BY Invariance, PTL DEF Inv

-----------------------------------------------------------------------------
(* The steps of the buffer are steps of the promise.                       *)
LEMMA InitRefines == Init => Promise!Init
BY DEF Init, Promise!Init, NoReply, Promise!NoAnswer, NoGap, Promise!NoGap

(* Pushing a packet is producing one in the promise, where at most what    *)
(* was there before is forgotten.                                          *)
LEMMA ProduceRefines ==
  ASSUME Inv, NEW s \in Sizes, Produce(s) PROVE Promise!Produce(s)
<1>1. PICK p \in Packet, n \in 0 .. Len(buf) :
           /\ p = [seq |-> seq + 1, size |-> s]
           /\ buf' = SubSeq(Append(buf, p), n + 1, Len(buf) + 1)
  BY ProduceStep
<1>2. /\ buf \in Seq(Packet) /\ log \in Seq(Packet) /\ Len(log) = seq
      /\ Len(buf) <= Len(log)
  BY DEF Inv, TypeOK, KeepsNewest
<1>3. log' = Append(log, [seq |-> Len(log) + 1, size |-> s]) /\ reply' = reply
  BY <1>2 DEF Produce
<1>4. Len(log') = Len(log) + 1
  <2> DEFINE q == [seq |-> Len(log) + 1, size |-> s]
  <2> HIDE DEF q
  <2>1. Len(Append(log, q)) = Len(log) + 1
    BY <1>2
  <2> QED BY <1>3, <2>1 DEF q
<1>5. Len(buf') = Len(buf) + 1 - n
  BY <1>1, <1>2
<1>6. Len(log') - Len(buf') \in (Len(log) - Len(buf)) .. Len(log)
  BY <1>2, <1>4, <1>5
<1>7. Len(log) < MaxSeq
  BY <1>2 DEF Produce
<1> QED BY <1>3, <1>6, <1>7 DEF Promise!Produce, Promise!Numbered

(* Answering a request is serving it in the promise.                       *)
LEMMA SyncRefines ==
  ASSUME Inv, NEW last \in 0 .. MaxSeq, Sync(last) PROVE Promise!Serve(last)
<1>1. /\ buf' = buf /\ log' = log
      /\ reply' = [last |-> last, upto |-> seq,
                   packets |-> PacketsAfter(last), dropped |-> DroppedAfter(last)]
  BY DEF Sync
<1>2. PacketsAfter(last) = Promise!Remembered(last)
  <2>1. ASSUME NEW i \in 1 .. Len(buf), buf[i].seq > last
        PROVE  buf[i] \in Promise!Remembered(last)
    <3> DEFINE j == seq - Len(buf) + i
    <3>1. /\ j \in (Len(log) - Len(buf) + 1) .. Len(log)
          /\ j > last /\ buf[i] = log[j]
      BY <2>1, Window
    <3> HIDE DEF j
    <3> QED BY <3>1 DEF Promise!Remembered
  <2>2. ASSUME NEW j \in (Len(log) - Len(buf) + 1) .. Len(log), j > last
        PROVE  log[j] \in PacketsAfter(last)
    <3> DEFINE i == j - (seq - Len(buf))
    <3>1. i \in 1 .. Len(buf)
      BY Window
    <3>2. seq - Len(buf) + i = j
      BY Window
    <3>3. buf[i] = log[j] /\ buf[i].seq > last
      BY <2>2, <3>1, <3>2, Window
    <3> HIDE DEF i
    <3> QED BY <3>1, <3>3, Window DEF PacketsAfter
  <2>3. PacketsAfter(last) \subseteq Promise!Remembered(last)
    BY <2>1, Window DEF PacketsAfter
  <2>4. Promise!Remembered(last) \subseteq PacketsAfter(last)
    BY <2>2, Window DEF Promise!Remembered
  <2> QED BY <2>3, <2>4
<1>3. DroppedAfter(last) = Promise!Forgotten(last)
  BY PacketsSince, Window DEF Promise!Forgotten, NoGap, Promise!NoGap
<1> QED BY <1>1, <1>2, <1>3, Window DEF Promise!Serve

(* Every step is a step of the promise or leaves it alone.                 *)
LEMMA StepRefines == Inv /\ [Next]_vars => [Promise!Next]_(Promise!vars)
<1> SUFFICES ASSUME Inv, [Next]_vars PROVE [Promise!Next]_(Promise!vars)
  OBVIOUS
<1>1. ASSUME NEW s \in Sizes, Produce(s) PROVE Promise!Next
  BY <1>1, ProduceRefines DEF Promise!Next
<1>2. ASSUME NEW last \in 0 .. MaxSeq, Sync(last) PROVE Promise!Next
  BY <1>2, SyncRefines DEF Promise!Next
<1>3. CASE Restart
  BY <1>3 DEF Restart, Promise!Next, Promise!Restart, NoReply,
              Promise!NoAnswer, NoGap, Promise!NoGap
<1>4. CASE UNCHANGED vars
  BY <1>4 DEF vars, Promise!vars
<1> QED BY <1>1, <1>2, <1>3, <1>4 DEF Next

(* The buffer implements the promise, for every capacity and packet size.  *)
THEOREM Refinement == Spec => ImplementsReplayLog
<1>1. Spec => Promise!Spec
  BY InitRefines, StepRefines, Invariance, PTL DEF Spec, Promise!Spec
<1> QED BY <1>1 DEF ImplementsReplayLog
=============================================================================
