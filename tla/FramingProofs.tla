---------------------------- MODULE FramingProofs ----------------------------
(***************************************************************************)
(* Proofs about the framing in ReceivePath, for messages, noise and        *)
(* streams of every length and every way in which TCP cuts them: what      *)
(* process_rx_buffer finds is what was sent, and the incomplete buffer has *)
(* room for it.                                                            *)
(*                                                                         *)
(* First what the operators compute: FlattenSeq, by an induction over sets *)
(* of numbers, then the searches of Framing.  Then where the bytes of a    *)
(* buffer come from in the stream, and last the invariant of the loop.     *)
(***************************************************************************)
EXTENDS ReceivePath, FiniteSetTheorems, SequenceTheorems, WellFoundedInduction, TLAPS

-----------------------------------------------------------------------------
(* Induction over the numbers up to n, for a set instead of a predicate.   *)

LEMMA NatMinimum ==
    ASSUME NEW T, T \subseteq Nat, T # {}
    PROVE  \E x \in T : \A y \in T : x <= y
<1> DEFINE R == {ss \in Nat \X Nat : ss[1] < ss[2]}
<1>1. IsWellFoundedOn(R, Nat)
  BY NatLessThanWellFounded DEF OpToRel
<1>2. \E x \in T : \A y \in T : ~(<<y, x>> \in R)
  <2> HIDE DEF R
  <2> QED BY <1>1, WFMin
<1>3. PICK x \in T : \A y \in T : ~(<<y, x>> \in R)
  BY <1>2
<1>4. ASSUME NEW y \in T PROVE x <= y
  <2>1. x \in Nat /\ y \in Nat
    OBVIOUS
  <2>2. y < x => <<y, x>> \in R
    BY <2>1
  <2>3. ~(y < x)
    <3> HIDE DEF R
    <3> QED BY <1>3, <2>2
  <2> QED BY <2>1, <2>3
<1> QED BY <1>4

LEMMA UpTo ==
    ASSUME NEW n \in Nat, NEW S, 0 \in S,
           \A k \in 1 .. n : k - 1 \in S => k \in S
    PROVE  0 .. n \subseteq S
<1> DEFINE T == {k \in 0 .. n : k \notin S}
<1>1. SUFFICES ASSUME T # {} PROVE FALSE
  OBVIOUS
<1>2. PICK k \in T : \A y \in T : k <= y
  <2>1. T \subseteq Nat
    OBVIOUS
  <2> HIDE DEF T
  <2> QED BY <1>1, <2>1, NatMinimum
<1>3. k # 0 /\ k \in 1 .. n
  BY <1>2
<1>4. k - 1 \notin T /\ k - 1 \in 0 .. n
  BY <1>2, <1>3
<1> QED BY <1>2, <1>3, <1>4

-----------------------------------------------------------------------------
(* What FlattenSeq computes: piece by piece, one more at the end.          *)

IsFlattening(s, k, f) ==
    /\ f = [i \in 1 .. k |-> f[i]]
    /\ \A i \in 1 .. k : f[i] = IF i = 1 THEN s[i] ELSE f[i - 1] \o s[i]

Flat(s, k) == FlattenSeq(SubSeq(s, 1, k))

LEMMA FlatteningExists ==
    ASSUME NEW T, NEW s \in Seq(Seq(T)), NEW k \in 0 .. Len(s)
    PROVE  \E f : f \in [1 .. k -> Seq(T)] /\ IsFlattening(s, k, f)
<1> DEFINE P(j) == \E f : f \in [1 .. j -> Seq(T)] /\ IsFlattening(s, j, f)
           S == {j \in 0 .. Len(s) : P(j)}
<1>1. 0 \in S
  <2> DEFINE e == [i \in 1 .. 0 |-> <<>>]
  <2>1. e \in [1 .. 0 -> Seq(T)] /\ IsFlattening(s, 0, e)
    BY DEF IsFlattening
  <2>2. P(0)
    <3> HIDE DEF e
    <3> QED BY <2>1
  <2> HIDE DEF P
  <2> QED BY <2>2
<1>2. ASSUME NEW j \in 1 .. Len(s), j - 1 \in S PROVE j \in S
  <2>1. PICK f : f \in [1 .. j - 1 -> Seq(T)] /\ IsFlattening(s, j - 1, f)
    BY <1>2
  <2> DEFINE last == IF j = 1 THEN s[j] ELSE f[j - 1] \o s[j]
             g == [i \in 1 .. j |-> IF i = j THEN last ELSE f[i]]
  <2>2. last \in Seq(T)
    <3>1. s[j] \in Seq(T) /\ (j # 1 => f[j - 1] \in Seq(T))
      BY <2>1
    <3> QED BY <3>1
  <2>3. g \in [1 .. j -> Seq(T)]
    <3> HIDE DEF last
    <3> QED BY <2>1, <2>2
  <2>4. ASSUME NEW i \in 1 .. j PROVE g[i] = IF i = 1 THEN s[i] ELSE g[i - 1] \o s[i]
    <3>1. CASE i = j
      BY <3>1
    <3>2. CASE i # j
      <4>1. i \in 1 .. j - 1 /\ g[i] = f[i] /\ (i # 1 => g[i - 1] = f[i - 1])
        BY <3>2
      <4>2. f[i] = IF i = 1 THEN s[i] ELSE f[i - 1] \o s[i]
        BY <2>1, <4>1 DEF IsFlattening
      <4> QED BY <4>1, <4>2
    <3> QED BY <3>1, <3>2
  <2>5. IsFlattening(s, j, g)
    <3> HIDE DEF g
    <3> QED BY <2>3, <2>4 DEF IsFlattening
  <2>6. P(j)
    <3> HIDE DEF g
    <3> QED BY <2>3, <2>5
  <2> HIDE DEF P
  <2> QED BY <2>6
<1>3. 0 .. Len(s) \subseteq S
  <2>1. Len(s) \in Nat
    OBVIOUS
  <2> HIDE DEF S
  <2> QED BY <1>1, <1>2, <2>1, UpTo
<1> QED BY <1>3

LEMMA FlattenIs ==
    ASSUME NEW T, NEW s \in Seq(Seq(T)), NEW k \in 1 .. Len(s),
           NEW f, IsFlattening(s, k, f)
    PROVE  Flat(s, k) = f[k]
<1> DEFINE t == SubSeq(s, 1, k)
           Rec(g) == [i \in 1 .. k |-> IF i = 1 THEN t[i] ELSE g[i - 1] \o t[i]]
           c == CHOOSE g : g = Rec(g)
<1>1. Len(t) = k /\ \A i \in 1 .. k : t[i] = s[i]
  OBVIOUS
<1>2. Flat(s, k) = c[k]
  <2>1. FlattenSeq(t) = IF Len(t) = 0 THEN t ELSE
           (CHOOSE g : g = [i \in 1 .. Len(t) |-> IF i = 1 THEN t[i] ELSE g[i - 1] \o t[i]])[Len(t)]
    BY Zenon DEF FlattenSeq
  <2>2. FlattenSeq(t) = (CHOOSE g : g = [i \in 1 .. k |-> IF i = 1 THEN t[i] ELSE g[i - 1] \o t[i]])[k]
    <3>1. Len(t) # 0
      BY <1>1
    <3> HIDE DEF t
    <3> QED BY <1>1, <2>1, <3>1, Zenon
  <2> QED BY <2>2 DEF Flat
<1>3. f = Rec(f)
  <2>1. /\ f = [i \in 1 .. k |-> f[i]]
        /\ \A i \in 1 .. k : f[i] = IF i = 1 THEN s[i] ELSE f[i - 1] \o s[i]
    BY DEF IsFlattening
  <2>2. \A i \in 1 .. k : f[i] = Rec(f)[i]
    <3> HIDE DEF t
    <3> QED BY <1>1, <2>1
  <2> HIDE DEF t
  <2> QED BY <2>1, <2>2
<1>4. c = Rec(c)
  <2> HIDE DEF Rec
  <2> QED BY <1>3, Zenon
<1> DEFINE S == {i \in 0 .. k : i # 0 => c[i] = f[i]}
<1>5. ASSUME NEW i \in 1 .. k, i - 1 \in S PROVE i \in S
  <2> HIDE DEF c, t
  <2>1. c[i] = IF i = 1 THEN t[i] ELSE c[i - 1] \o t[i]
    BY <1>4
  <2>2. f[i] = IF i = 1 THEN t[i] ELSE f[i - 1] \o t[i]
    BY <1>3
  <2> QED BY <1>5, <2>1, <2>2
<1>6. 0 .. k \subseteq S
  <2>1. 0 \in S /\ k \in Nat
    OBVIOUS
  <2> HIDE DEF S
  <2> QED BY <1>5, <2>1, UpTo
<1> HIDE DEF c
<1> QED BY <1>2, <1>6

(* The defining equations.                                                 *)
LEMMA FlatSteps ==
    ASSUME NEW T, NEW s \in Seq(Seq(T))
    PROVE  /\ Flat(s, 0) = <<>>
           /\ Flat(s, Len(s)) = FlattenSeq(s)
           /\ \A k \in 1 .. Len(s) : Flat(s, k) = Flat(s, k - 1) \o s[k]
           /\ \A k \in 0 .. Len(s) : Flat(s, k) \in Seq(T)
<1>1. Flat(s, 0) = <<>>
  <2>1. SubSeq(s, 1, 0) = <<>> /\ Len(<<>>) = 0
    OBVIOUS
  <2>2. FlattenSeq(<<>>) = <<>>
    BY <2>1, Zenon DEF FlattenSeq
  <2> QED BY <2>1, <2>2, Zenon DEF Flat
<1>2. Flat(s, Len(s)) = FlattenSeq(s)
  <2>1. SubSeq(s, 1, Len(s)) = s
    OBVIOUS
  <2> QED BY <2>1, Zenon DEF Flat
<1>3. ASSUME NEW k \in 1 .. Len(s)
      PROVE  Flat(s, k) = Flat(s, k - 1) \o s[k] /\ Flat(s, k) \in Seq(T)
  <2>1. PICK f : f \in [1 .. k -> Seq(T)] /\ IsFlattening(s, k, f)
    BY FlatteningExists
  <2>2. Flat(s, k) = f[k]
    BY <2>1, FlattenIs
  <2>0. \A i \in 1 .. k : f[i] = IF i = 1 THEN s[i] ELSE f[i - 1] \o s[i]
    BY <2>1, Zenon DEF IsFlattening
  <2>3. f[k] = IF k = 1 THEN s[k] ELSE f[k - 1] \o s[k]
    BY <2>0
  <2>4. CASE k = 1
    <3>1. s[k] \in Seq(T) /\ <<>> \o s[k] = s[k]
      OBVIOUS
    <3> QED BY <1>1, <2>1, <2>2, <2>3, <2>4, <3>1
  <2>5. CASE k # 1
    <3> DEFINE g == [i \in 1 .. k - 1 |-> f[i]]
    <3>1. \A i \in 1 .. k - 1 : g[i] = IF i = 1 THEN s[i] ELSE g[i - 1] \o s[i]
      <4> TAKE i \in 1 .. k - 1
      <4>1. f[i] = IF i = 1 THEN s[i] ELSE f[i - 1] \o s[i]
        BY <2>0
      <4>2. g[i] = f[i] /\ (i # 1 => g[i - 1] = f[i - 1])
        OBVIOUS
      <4> QED BY <4>1, <4>2
    <3>2. g[k - 1] = f[k - 1] /\ k - 1 \in 1 .. Len(s)
      BY <2>5
    <3>3. g = [i \in 1 .. k - 1 |-> g[i]]
      OBVIOUS
    <3>4. IsFlattening(s, k - 1, g)
      <4> HIDE DEF g
      <4> QED BY <3>1, <3>2, <3>3 DEF IsFlattening
    <3>5. Flat(s, k - 1) = g[k - 1]
      <4> HIDE DEF g
      <4> QED BY <3>2, <3>4, FlattenIs
    <3>6. f[k] = f[k - 1] \o s[k]
      BY <2>3, <2>5, Zenon
    <3>7. f[k] \in Seq(T)
      BY <2>1
    <3> HIDE DEF g
    <3> QED BY <2>2, <3>2, <3>5, <3>6, <3>7
  <2> QED BY <2>4, <2>5
<1>4. ASSUME NEW k \in 0 .. Len(s) PROVE Flat(s, k) \in Seq(T)
  <2>1. <<>> \in Seq(T) /\ (k = 0 \/ k \in 1 .. Len(s))
    OBVIOUS
  <2> QED BY <1>1, <1>3, <2>1
<1> QED BY <1>1, <1>2, <1>3, <1>4

LEMMA FlatStep ==
    ASSUME NEW T, NEW s \in Seq(Seq(T)), NEW k \in 1 .. Len(s)
    PROVE  /\ Flat(s, k) = Flat(s, k - 1) \o s[k]
           /\ Flat(s, k) \in Seq(T) /\ Flat(s, k - 1) \in Seq(T) /\ s[k] \in Seq(T)
           /\ k \in 0 .. Len(s) /\ k - 1 \in 0 .. Len(s)
<1>1. /\ \A j \in 1 .. Len(s) : Flat(s, j) = Flat(s, j - 1) \o s[j]
      /\ \A j \in 0 .. Len(s) : Flat(s, j) \in Seq(T)
  BY FlatSteps, Zenon
<1>2. k \in 0 .. Len(s) /\ k - 1 \in 0 .. Len(s) /\ s[k] \in Seq(T)
  OBVIOUS
<1> QED BY <1>1, <1>2, Zenon

(* Shorter flattenings are prefixes of longer ones.                        *)
LEMMA FlatPrefix ==
    ASSUME NEW T, NEW s \in Seq(Seq(T)), NEW k \in 0 .. Len(s), NEW j \in 0 .. k
    PROVE  /\ Len(Flat(s, j)) <= Len(Flat(s, k))
           /\ \A i \in 1 .. Len(Flat(s, j)) : Flat(s, k)[i] = Flat(s, j)[i]
<1> DEFINE P(h) == /\ Len(Flat(s, j)) <= Len(Flat(s, h))
                   /\ \A i \in 1 .. Len(Flat(s, j)) : Flat(s, h)[i] = Flat(s, j)[i]
           S == {d \in 0 .. k : j + d <= k => P(j + d)}
<1>1. 0 \in S
  <2>1. P(j + 0)
    <3>1. j + 0 = j /\ j \in 0 .. Len(s)
      OBVIOUS
    <3>2. Flat(s, j) \in Seq(T)
      BY <3>1, FlatSteps, Zenon
    <3>3. P(j)
      BY <3>2
    <3> HIDE DEF P
    <3> QED BY <3>1, <3>3
  <2> HIDE DEF P
  <2> QED BY <2>1
<1>2. ASSUME NEW d \in 1 .. k, d - 1 \in S PROVE d \in S
  <2>1. SUFFICES ASSUME j + d <= k PROVE P(j + d)
    <3> HIDE DEF P
    <3> QED BY <2>1
  <2>2. P(j + (d - 1))
    <3> HIDE DEF P
    <3> QED BY <1>2, <2>1
  <2> DEFINE h == j + d
  <2>3. h \in 1 .. Len(s) /\ h - 1 = j + (d - 1) /\ h - 1 \in 0 .. Len(s) /\ j \in 0 .. Len(s)
    BY <2>1
  <2>4. P(h - 1)
    <3> HIDE DEF P, h
    <3> QED BY <2>2, <2>3
  <2> HIDE DEF h
  <2>5. /\ Flat(s, h) = Flat(s, h - 1) \o s[h]
        /\ Flat(s, h - 1) \in Seq(T) /\ Flat(s, j) \in Seq(T) /\ s[h] \in Seq(T)
    <3>1. Flat(s, j) \in Seq(T)
      BY <2>3, FlatSteps, Zenon
    <3> QED BY <2>3, <3>1, FlatStep, Zenon
  <2>6. P(h)
    <3> DEFINE a == Flat(s, j)
               b == Flat(s, h - 1)
               e == s[h]
    <3> HIDE DEF a, b, e
    <3>1. a \in Seq(T) /\ b \in Seq(T) /\ e \in Seq(T) /\ Flat(s, h) = b \o e
      BY <2>5 DEF a, b, e
    <3>2. Len(a) <= Len(b) /\ \A i \in 1 .. Len(a) : b[i] = a[i]
      BY <2>4 DEF a, b
    <3>3. Len(b \o e) >= Len(b) /\ \A i \in 1 .. Len(b) : (b \o e)[i] = b[i]
      BY <3>1
    <3>4. Len(a) <= Len(b \o e) /\ \A i \in 1 .. Len(a) : (b \o e)[i] = a[i]
      BY <3>1, <3>2, <3>3
    <3> QED BY <3>1, <3>4 DEF a
  <2> QED BY <2>6 DEF h
<1>3. 0 .. k \subseteq S
  <2>1. k \in Nat
    OBVIOUS
  <2> HIDE DEF S
  <2> QED BY <1>1, <1>2, <2>1, UpTo
<1>4. k - j \in 0 .. k /\ j + (k - j) = k
  OBVIOUS
<1>5. k - j \in S
  <2> HIDE DEF S
  <2> QED BY <1>3, <1>4
<1>6. P(k)
  <2> HIDE DEF P
  <2> QED BY <1>4, <1>5
<1> QED BY <1>6

(* Where the items of a stream lie in its bytes.                           *)
Offset(s, k) == Len(Flat(s, k))

LEMMA Offsets ==
    ASSUME NEW T, NEW s \in Seq(Seq(T))
    PROVE  /\ Offset(s, 0) = 0 /\ Offset(s, Len(s)) = Len(FlattenSeq(s))
           /\ FlattenSeq(s) \in Seq(T)
           /\ \A k \in 0 .. Len(s) : Offset(s, k) \in 0 .. Len(FlattenSeq(s))
           /\ \A k \in 1 .. Len(s) :
                 /\ Offset(s, k) = Offset(s, k - 1) + Len(s[k])
                 /\ s[k] \in Seq(T)
           /\ \A j, k \in 0 .. Len(s) : j <= k => Offset(s, j) <= Offset(s, k)
<1>1. /\ Flat(s, 0) = <<>> /\ Flat(s, Len(s)) = FlattenSeq(s)
      /\ \A k \in 1 .. Len(s) : Flat(s, k) = Flat(s, k - 1) \o s[k]
      /\ \A k \in 0 .. Len(s) : Flat(s, k) \in Seq(T)
  BY FlatSteps, Zenon
<1>2. Offset(s, 0) = 0 /\ Offset(s, Len(s)) = Len(FlattenSeq(s)) /\ FlattenSeq(s) \in Seq(T)
  <2>1. Len(s) \in 0 .. Len(s)
    OBVIOUS
  <2> QED BY <1>1, <2>1 DEF Offset
<1>3. ASSUME NEW j \in 0 .. Len(s), NEW k \in 0 .. Len(s), j <= k
      PROVE  Offset(s, j) <= Offset(s, k)
  <2>1. j \in 0 .. k
    BY <1>3
  <2> QED BY <2>1, FlatPrefix DEF Offset
<1>4. ASSUME NEW k \in 0 .. Len(s) PROVE Offset(s, k) \in 0 .. Len(FlattenSeq(s))
  <2>1. Len(s) \in 0 .. Len(s) /\ k <= Len(s)
    OBVIOUS
  <2>2. Offset(s, k) \in Nat /\ Offset(s, Len(s)) \in Nat
    BY <1>1, <2>1 DEF Offset
  <2> QED BY <1>2, <1>3, <2>1, <2>2
<1>5. ASSUME NEW k \in 1 .. Len(s)
      PROVE  Offset(s, k) = Offset(s, k - 1) + Len(s[k]) /\ s[k] \in Seq(T)
  <2> DEFINE a == Flat(s, k - 1)
  <2>1. a \in Seq(T) /\ s[k] \in Seq(T) /\ Flat(s, k) = a \o s[k]
    BY FlatStep, Zenon
  <2>2. Offset(s, k - 1) = Len(a) /\ Offset(s, k) = Len(Flat(s, k))
    BY Zenon DEF Offset
  <2> HIDE DEF a
  <2>3. Len(a \o s[k]) = Len(a) + Len(s[k])
    BY <2>1
  <2> QED BY <2>1, <2>2, <2>3, Zenon
<1> QED BY <1>2, <1>3, <1>4, <1>5

LEMMA ItemBytes ==
    ASSUME NEW T, NEW s \in Seq(Seq(T)), NEW k \in 1 .. Len(s), NEW i \in 1 .. Len(s[k])
    PROVE  FlattenSeq(s)[Offset(s, k - 1) + i] = s[k][i]
<1> DEFINE a == Flat(s, k - 1)
           b == Flat(s, k)
<1>1. /\ a \in Seq(T) /\ s[k] \in Seq(T) /\ b = a \o s[k] /\ b \in Seq(T)
      /\ Flat(s, Len(s)) = FlattenSeq(s) /\ Offset(s, k - 1) = Len(a)
  <2>1. Flat(s, Len(s)) = FlattenSeq(s)
    BY FlatSteps, Zenon
  <2> QED BY <2>1, FlatStep, Zenon DEF Offset
<1>2. \A n \in 1 .. Len(b) : FlattenSeq(s)[n] = b[n]
  <2>1. k \in 0 .. Len(s) /\ Len(s) \in 0 .. Len(s)
    OBVIOUS
  <2>2. \A n \in 1 .. Len(Flat(s, k)) : Flat(s, Len(s))[n] = Flat(s, k)[n]
    BY <2>1, FlatPrefix, Zenon
  <2> QED BY <1>1, <2>2, Zenon
<1> HIDE DEF a, b
<1>3. Len(a) + i \in 1 .. Len(b) /\ b[Len(a) + i] = s[k][i]
  BY <1>1
<1> QED BY <1>1, <1>2, <1>3

LEMMA AllItemBytes ==
    ASSUME NEW s \in Seq(Seq(Byte)), NEW k \in 1 .. Len(s)
    PROVE  \A n \in 1 .. Len(s[k]) : FlattenSeq(s)[Offset(s, k - 1) + n] = s[k][n]
  BY ItemBytes

(* Every byte belongs to an item.                                          *)
LEMMA ItemAt ==
    ASSUME NEW T, NEW s \in Seq(Seq(T)), NEW q \in 1 .. Len(FlattenSeq(s))
    PROVE  \E k \in 1 .. Len(s) :
              Offset(s, k - 1) < q /\ q <= Offset(s, k) /\ q - Offset(s, k - 1) \in 1 .. Len(s[k])
<1> DEFINE S == {k \in 0 .. Len(s) : q <= Offset(s, k)}
<1>1. /\ Offset(s, 0) = 0 /\ Offset(s, Len(s)) = Len(FlattenSeq(s))
      /\ \A k \in 0 .. Len(s) : Offset(s, k) \in 0 .. Len(FlattenSeq(s))
      /\ \A k \in 1 .. Len(s) : Offset(s, k) = Offset(s, k - 1) + Len(s[k])
      /\ \A k \in 1 .. Len(s) : s[k] \in Seq(T)
      /\ FlattenSeq(s) \in Seq(T)
  BY Offsets
<1>2. S \subseteq Nat /\ Len(s) \in S
  BY <1>1
<1>3. PICK k \in S : \A j \in S : k <= j
  <2> HIDE DEF S
  <2> QED BY <1>2, NatMinimum
<1>4. k \in 1 .. Len(s) /\ k - 1 \in 0 .. Len(s)
  BY <1>1, <1>3
<1>5. q <= Offset(s, k) /\ ~(q <= Offset(s, k - 1))
  BY <1>3, <1>4
<1>6. Offset(s, k) \in Nat /\ Offset(s, k - 1) \in Nat /\ Len(s[k]) \in Nat
      /\ Offset(s, k) = Offset(s, k - 1) + Len(s[k])
  BY <1>1, <1>4
<1>7. Offset(s, k - 1) < q /\ q - Offset(s, k - 1) \in 1 .. Len(s[k])
  BY <1>5, <1>6
<1> QED BY <1>4, <1>5, <1>7

-----------------------------------------------------------------------------
(* The messages of the first k items.                                      *)
SentUpTo(s, k) == Flat(Sifted(s), k)

LEMMA SiftedIs ==
    ASSUME NEW s \in Seq(Seq(Byte))
    PROVE  /\ Sifted(s) \in Seq(Seq(Seq(Byte))) /\ Len(Sifted(s)) = Len(s)
           /\ \A k \in 1 .. Len(s) :
                 Sifted(s)[k] = IF s[k] \in Noise THEN <<>> ELSE <<s[k]>>
<1>1. DOMAIN s = 1 .. Len(s) /\ Len(s) \in Nat
  OBVIOUS
<1>2. \A k \in 1 .. Len(s) : (IF s[k] \in Noise THEN <<>> ELSE <<s[k]>>) \in Seq(Seq(Byte))
  <2> TAKE k \in 1 .. Len(s)
  <2>1. s[k] \in Seq(Byte)
    OBVIOUS
  <2>2. <<s[k]>> \in Seq(Seq(Byte)) /\ <<>> \in Seq(Seq(Byte))
    BY <2>1
  <2> QED BY <2>2
<1> QED BY <1>1, <1>2 DEF Sifted

LEMMA SentSteps ==
    ASSUME NEW s \in Seq(Seq(Byte))
    PROVE  /\ SentUpTo(s, 0) = <<>>
           /\ SentUpTo(s, Len(s)) = FlattenSeq(Sifted(s))
           /\ \A k \in 0 .. Len(s) : SentUpTo(s, k) \in Seq(Seq(Byte))
<1>1. /\ Sifted(s) \in Seq(Seq(Seq(Byte))) /\ Len(Sifted(s)) = Len(s)
  BY SiftedIs
<1>2. /\ Flat(Sifted(s), 0) = <<>>
      /\ Flat(Sifted(s), Len(Sifted(s))) = FlattenSeq(Sifted(s))
      /\ \A k \in 0 .. Len(Sifted(s)) : Flat(Sifted(s), k) \in Seq(Seq(Byte))
  BY <1>1, FlatSteps, Zenon
<1> QED BY <1>1, <1>2, Zenon DEF SentUpTo

LEMMA SentStep ==
    ASSUME NEW s \in Seq(Seq(Byte)), NEW k \in 1 .. Len(s)
    PROVE  SentUpTo(s, k) = IF s[k] \in Noise THEN SentUpTo(s, k - 1)
                            ELSE Append(SentUpTo(s, k - 1), s[k])
<1> DEFINE a == SentUpTo(s, k - 1)
           p == Sifted(s)
<1>1. p \in Seq(Seq(Seq(Byte))) /\ Len(p) = Len(s)
      /\ p[k] = IF s[k] \in Noise THEN <<>> ELSE <<s[k]>>
  BY SiftedIs
<1>2. k \in 1 .. Len(p)
  BY <1>1
<1>3. Flat(p, k) = Flat(p, k - 1) \o p[k] /\ Flat(p, k - 1) \in Seq(Seq(Byte))
  <2> HIDE DEF p
  <2> QED BY <1>1, <1>2, FlatStep, Zenon
<1>4. SentUpTo(s, k) = a \o p[k] /\ a \in Seq(Seq(Byte))
  BY <1>3, Zenon DEF SentUpTo
<1>5. s[k] \in Seq(Byte)
  OBVIOUS
<1> HIDE DEF a, p
<1>6. a \o <<>> = a /\ a \o <<s[k]>> = Append(a, s[k])
  BY <1>4, <1>5
<1> QED BY <1>1, <1>4, <1>6 DEF a

LEMMA SentPrefix ==
    ASSUME NEW s \in Seq(Seq(Byte)), NEW k \in 0 .. Len(s)
    PROVE  IsPrefix(SentUpTo(s, k), FlattenSeq(Sifted(s)))
<1> DEFINE p == Sifted(s)
           a == Flat(p, k)
           b == Flat(p, Len(p))
<1>1. p \in Seq(Seq(Seq(Byte))) /\ Len(p) = Len(s)
  BY SiftedIs
<1>2. k \in 0 .. Len(p) /\ Len(p) \in 0 .. Len(p) /\ k \in 0 .. Len(p)
  BY <1>1
<1>3. a \in Seq(Seq(Byte)) /\ b \in Seq(Seq(Byte)) /\ b = FlattenSeq(p)
  <2> HIDE DEF p
  <2> QED BY <1>1, <1>2, FlatSteps, Zenon
<1>4. Len(a) <= Len(b) /\ \A i \in 1 .. Len(a) : b[i] = a[i]
  <2> HIDE DEF p
  <2> QED BY <1>1, <1>2, FlatPrefix, Zenon
<1> HIDE DEF a, b
<1>5. SubSeq(a, 1, Len(a)) = SubSeq(b, 1, Len(a)) 
  BY <1>3, <1>4
<1> QED BY <1>3, <1>4, <1>5 DEF a, SentUpTo, IsPrefix

LEMMA NoiseAddsNothing ==
    ASSUME NEW s \in Seq(Seq(Byte)), NEW j \in 0 .. Len(s), NEW k \in j .. Len(s),
           \A i \in j + 1 .. k : s[i] \in Noise
    PROVE  SentUpTo(s, k) = SentUpTo(s, j)
<1> DEFINE S == {d \in 0 .. k - j : SentUpTo(s, j + d) = SentUpTo(s, j)}
<1>1. 0 \in S
  <2>1. j + 0 = j /\ 0 \in 0 .. k - j
    OBVIOUS
  <2> QED BY <2>1
<1>2. ASSUME NEW d \in 1 .. k - j, d - 1 \in S PROVE d \in S
  <2>1. j + d \in 1 .. Len(s) /\ j + d \in j + 1 .. k /\ (j + d) - 1 = j + (d - 1)
    OBVIOUS
  <2>2. SentUpTo(s, j + d) = SentUpTo(s, (j + d) - 1)
    BY <2>1, SentStep
  <2> QED BY <1>2, <2>1, <2>2
<1>3. 0 .. k - j \subseteq S
  <2>1. k - j \in Nat
    OBVIOUS
  <2> HIDE DEF S
  <2> QED BY <1>1, <1>2, <2>1, UpTo
<1>4. k - j \in 0 .. k - j /\ j + (k - j) = k
  OBVIOUS
<1>5. k - j \in S
  <2> HIDE DEF S
  <2> QED BY <1>3, <1>4
<1>6. SentUpTo(s, j + (k - j)) = SentUpTo(s, j)
  BY <1>5
<1> QED BY <1>4, <1>6

LEMMA SentCounts ==
    ASSUME NEW s \in Seq(Seq(Byte)), NEW k \in 0 .. Len(s)
    PROVE  /\ Len(SentUpTo(s, k)) = Cardinality({i \in 1 .. k : s[i] \notin Noise})
           /\ IsFiniteSet({i \in 1 .. k : s[i] \notin Noise})
<1> DEFINE C(n) == {i \in 1 .. n : s[i] \notin Noise}
           P(n) == Len(SentUpTo(s, n)) = Cardinality(C(n)) /\ IsFiniteSet(C(n))
           S == {n \in 0 .. k : P(n)}
<1>1. 0 \in S
  <2>1. C(0) = {} /\ 0 \in 0 .. k
    OBVIOUS
  <2>2. P(0)
    BY <2>1, FS_EmptySet, SentSteps
  <2> HIDE DEF P
  <2> QED BY <2>1, <2>2
<1>2. ASSUME NEW n \in 1 .. k, n - 1 \in S PROVE n \in S
  <2>1. P(n - 1)
    <3> HIDE DEF P
    <3> QED BY <1>2
  <2> DEFINE a == SentUpTo(s, n - 1)
  <2>2. n \in 1 .. Len(s) /\ n - 1 \in 0 .. Len(s) /\ s[n] \in Seq(Byte)
    OBVIOUS
  <2>3. a \in Seq(Seq(Byte))
    BY <2>2, SentSteps, Zenon
  <2>4. SentUpTo(s, n) = IF s[n] \in Noise THEN a ELSE Append(a, s[n])
    BY <2>2, SentStep
  <2>5. CASE s[n] \in Noise
    <3>1. C(n) = C(n - 1)
      BY <2>5
    <3>2. SentUpTo(s, n) = SentUpTo(s, n - 1)
      BY <2>4, <2>5
    <3>3. P(n)
      <4> HIDE DEF C
      <4> QED BY <2>1, <3>1, <3>2
    <3> HIDE DEF P
    <3> QED BY <3>3
  <2>6. CASE s[n] \notin Noise
    <3>1. C(n) = C(n - 1) \cup {n} /\ n \notin C(n - 1)
      BY <2>6
    <3>2. IsFiniteSet(C(n - 1)) /\ Len(a) = Cardinality(C(n - 1))
      BY <2>1
    <3>3. IsFiniteSet(C(n - 1) \cup {n}) /\ Cardinality(C(n - 1) \cup {n}) = Cardinality(C(n - 1)) + 1
      <4> HIDE DEF C
      <4> QED BY <3>1, <3>2, FS_AddElement
    <3>4. Len(SentUpTo(s, n)) = Len(a) + 1
      <4> HIDE DEF a
      <4> QED BY <2>2, <2>3, <2>4, <2>6
    <3>5. P(n)
      <4> HIDE DEF C, a
      <4> QED BY <3>1, <3>2, <3>3, <3>4
    <3> HIDE DEF P
    <3> QED BY <3>5
  <2> QED BY <2>5, <2>6
<1>3. k \in S
  <2>1. k \in Nat /\ k \in 0 .. k
    OBVIOUS
  <2> HIDE DEF S
  <2> QED BY <1>1, <1>2, <2>1, UpTo
<1> QED BY <1>3

-----------------------------------------------------------------------------
(* The searches                                                            *)

LEMMA FirstOfIs ==
    ASSUME NEW S, S \subseteq Nat, S # {}
    PROVE  FirstOf(S) \in S /\ \A y \in S : FirstOf(S) <= y
<1>1. \E x \in S : \A y \in S : x <= y
  BY NatMinimum
<1> QED BY <1>1, Zenon DEF FirstOf, Min

LEMMA LastOfIs ==
    ASSUME NEW n \in Nat, NEW S, S \subseteq 0 .. n, S # {}
    PROVE  LastOf(S) \in S /\ \A y \in S : LastOf(S) >= y
<1> DEFINE T == {d \in 0 .. n : n - d \in S}
<1>1. PICK x \in S : TRUE
  OBVIOUS
<1>2. n - x \in T /\ T \subseteq Nat
  <2>1. n - x \in 0 .. n /\ n - (n - x) = x
    BY <1>1
  <2> QED BY <1>1, <2>1
<1>3. PICK d \in T : \A e \in T : d <= e
  <2> HIDE DEF T
  <2> QED BY <1>2, NatMinimum
<1>4. ASSUME NEW y \in S PROVE n - d >= y
  <2>1. n - y \in 0 .. n /\ n - (n - y) = y /\ d \in Nat
    BY <1>3
  <2>2. n - y \in T
    BY <2>1
  <2>3. d <= n - y
    BY <1>3, <2>2
  <2> QED BY <2>1, <2>3
<1>5. \E z \in S : \A y \in S : z >= y
  BY <1>3, <1>4
<1> QED BY <1>5, Zenon DEF LastOf, Max

LEMMA WindowIs ==
    ASSUME NEW T, NEW b \in Seq(T), NEW i \in Nat, NEW j \in Nat,
           i >= 1, i <= j + 1, j <= Len(b)
    PROVE  /\ SubSeq(b, i, j) \in Seq(T) /\ Len(SubSeq(b, i, j)) = j - i + 1
           /\ \A n \in 1 .. j - i + 1 : SubSeq(b, i, j)[n] = b[i + n - 1]
<1>1. SubSeq(b, i, j) \in Seq(T) /\ Len(SubSeq(b, i, j)) = j - i + 1
  OBVIOUS
<1> QED BY <1>1

LEMMA Tag10Bytes ==
    ASSUME NEW b \in Seq(Byte), NEW i \in Nat, i >= 1
    PROVE  IsTag10At(b, i) <=> i + 2 <= Len(b) /\ b[i] = "1" /\ b[i + 1] = "0" /\ b[i + 2] = "="
<1>1. SUFFICES ASSUME i + 2 <= Len(b)
               PROVE  SubSeq(b, i, i + 2) = <<"1", "0", "=">> <=>
                         b[i] = "1" /\ b[i + 1] = "0" /\ b[i + 2] = "="
  BY DEF IsTag10At
<1> DEFINE w == SubSeq(b, i, i + 2)
<1>2. w \in Seq(Byte) /\ Len(w) = 3 /\ w[1] = b[i] /\ w[2] = b[i + 1] /\ w[3] = b[i + 2]
  <2>1. /\ w \in Seq(Byte) /\ Len(w) = (i + 2) - i + 1
        /\ \A n \in 1 .. (i + 2) - i + 1 : w[n] = b[i + n - 1]
    BY <1>1, WindowIs
  <2> HIDE DEF w
  <2> QED BY <2>1
<1> HIDE DEF w
<1>3. w = <<"1", "0", "=">> <=> w[1] = "1" /\ w[2] = "0" /\ w[3] = "="
  BY <1>2
<1> QED BY <1>2, <1>3 DEF w

(* The field between f and the delimiter j, of a message that begins at    *)
(* begin, is a tag 10.                                                     *)
Field(b, begin, f, j) ==
    /\ begin <= f /\ f <= j /\ j <= Len(b) /\ b[j] = "|"
    /\ f = begin \/ b[f - 1] = "|"
    /\ \A i \in f .. j - 1 : b[i] # "|"

Tag10Field(b, begin, f, j) ==
    /\ Field(b, begin, f, j)
    /\ f + 2 < j /\ b[f] = "1" /\ b[f + 1] = "0" /\ b[f + 2] = "="

LEMMA FieldStartIs ==
    ASSUME NEW b \in Seq(Byte), NEW begin \in Nat, begin >= 1,
           NEW j \in Delimiters(b), j >= begin
    PROVE  /\ FieldStart(b, begin, j) \in Nat
           /\ Field(b, begin, FieldStart(b, begin, j), j)
<1> DEFINE D == {k \in Delimiters(b) : begin <= k /\ k < j}
           S == {begin} \cup {i + 1 : i \in D}
           f == LastOf(S)
<1>1. j \in Nat /\ j <= Len(b) /\ b[j] = "|" /\ \A k \in D : k \in Nat
  BY DEF Delimiters
<1>2. S \subseteq 0 .. j /\ S # {}
  BY <1>1
<1>3. f \in S /\ \A y \in S : f >= y
  <2> HIDE DEF S
  <2> QED BY <1>1, <1>2, LastOfIs
<1>4. FieldStart(b, begin, j) = f
  BY DEF FieldStart
<1>5. begin <= f /\ f <= j /\ f \in Nat
  <2> HIDE DEF f
  <2> QED BY <1>1, <1>2, <1>3
<1>6. f = begin \/ b[f - 1] = "|"
  <2> HIDE DEF f
  <2>1. f = begin \/ \E i \in D : f = i + 1
    BY <1>3
  <2>2. ASSUME NEW i \in D, f = i + 1 PROVE b[f - 1] = "|"
    <3>1. f - 1 = i
      BY <1>1, <2>2
    <3>2. b[i] = "|"
      BY DEF Delimiters
    <3> QED BY <3>1, <3>2
  <2> QED BY <2>1, <2>2
<1>7. ASSUME NEW i \in f .. j - 1, b[i] = "|" PROVE FALSE
  <2> HIDE DEF f
  <2>1. i \in Nat /\ begin <= i /\ i < j /\ i \in DOMAIN b
    BY <1>1, <1>5, <1>7
  <2>2. i \in D
    BY <1>7, <2>1 DEF Delimiters
  <2>3. i + 1 \in S
    BY <2>2
  <2>4. f >= i + 1
    BY <1>3, <2>3
  <2> QED BY <1>5, <1>7, <2>1, <2>4
<1> HIDE DEF f
<1> QED BY <1>1, <1>4, <1>5, <1>6, <1>7 DEF Field

LEMMA FieldUnique ==
    ASSUME NEW b \in Seq(Byte), NEW begin \in Nat, begin >= 1, NEW j \in Nat,
           NEW f \in Nat, NEW g \in Nat, Field(b, begin, f, j), Field(b, begin, g, j)
    PROVE  f = g
<1>1. ASSUME NEW x \in Nat, NEW y \in Nat, Field(b, begin, x, j), Field(b, begin, y, j), x < y
      PROVE  FALSE
  <2>1. y - 1 \in x .. j - 1 /\ y # begin
    BY <1>1 DEF Field
  <2> QED BY <1>1, <2>1 DEF Field
<1> QED BY <1>1

(* TagLoop finds the first tag 10.                                         *)
LEMMA TagLoopIs ==
    ASSUME NEW b \in Seq(Byte), NEW begin \in Nat, begin >= 1
    PROVE  /\ \A f, j \in Nat : Tag10Field(b, begin, f, j) =>
                 TagLoop(b, begin) # 0 /\ TagLoop(b, begin) <= j
           /\ TagLoop(b, begin) # 0 =>
                 /\ TagLoop(b, begin) \in Nat
                 /\ \E f \in Nat : Tag10Field(b, begin, f, TagLoop(b, begin))
<1> DEFINE E(j) == IsTag10At(b, FieldStart(b, begin, j))
           S == {j \in Delimiters(b) : j >= begin /\ E(j)}
<1>1. TagLoop(b, begin) = FirstOf(S)
  BY DEF TagLoop
<1>2. \A j \in Delimiters(b) : j \in Nat /\ j >= 1 /\ j <= Len(b) /\ b[j] = "|"
  BY DEF Delimiters
<1>3. ASSUME NEW f \in Nat, NEW j \in Nat, Tag10Field(b, begin, f, j)
      PROVE  j \in S
  <2>1. j \in Delimiters(b) /\ j >= begin /\ f >= 1
    BY <1>3 DEF Tag10Field, Field, Delimiters
  <2>2. f = FieldStart(b, begin, j)
    <3>1. FieldStart(b, begin, j) \in Nat /\ Field(b, begin, FieldStart(b, begin, j), j)
      BY <2>1, FieldStartIs
    <3>2. Field(b, begin, f, j)
      BY <1>3 DEF Tag10Field
    <3> QED BY <3>1, <3>2, FieldUnique
  <2>3. f + 2 <= Len(b) /\ b[f] = "1" /\ b[f + 1] = "0" /\ b[f + 2] = "="
    BY <1>3 DEF Tag10Field, Field
  <2>4. IsTag10At(b, f)
    BY <2>1, <2>3, Tag10Bytes
  <2> QED BY <2>1, <2>2, <2>4
<1>4. ASSUME NEW j \in S PROVE \E f \in Nat : Tag10Field(b, begin, f, j)
  <2> DEFINE f == FieldStart(b, begin, j)
  <2>1. j \in Delimiters(b) /\ j >= begin /\ IsTag10At(b, f)
    OBVIOUS
  <2>2. f \in Nat /\ Field(b, begin, f, j)
    <3> HIDE DEF E
    <3> QED BY <2>1, FieldStartIs
  <2> HIDE DEF f
  <2>3. f >= 1
    BY <2>2 DEF Field
  <2>4. f + 2 <= Len(b) /\ b[f] = "1" /\ b[f + 1] = "0" /\ b[f + 2] = "="
    BY <2>1, <2>2, <2>3, Tag10Bytes
  <2>5. f + 2 < j
    <3>1. f <= j /\ b[j] = "|" /\ j \in Nat
      BY <1>2, <2>1, <2>2 DEF Field
    <3>2. j # f /\ j # f + 1 /\ j # f + 2
      BY <2>4, <3>1
    <3> QED BY <2>2, <3>1, <3>2
  <2>6. Tag10Field(b, begin, f, j)
    BY <2>2, <2>4, <2>5 DEF Tag10Field
  <2> QED BY <2>2, <2>6
<1>5. S \subseteq Nat /\ 0 \notin S
  BY <1>2
<1> HIDE DEF S
<1>6. S = {} => TagLoop(b, begin) = 0
  BY <1>1 DEF FirstOf
<1>7. S # {} => TagLoop(b, begin) \in S /\ \A y \in S : TagLoop(b, begin) <= y
  BY <1>1, <1>5, FirstOfIs
<1>8. ASSUME NEW f \in Nat, NEW j \in Nat, Tag10Field(b, begin, f, j)
      PROVE  TagLoop(b, begin) # 0 /\ TagLoop(b, begin) <= j
  BY <1>3, <1>5, <1>7, <1>8
<1>9. ASSUME TagLoop(b, begin) # 0
      PROVE  TagLoop(b, begin) \in Nat /\ \E f \in Nat : Tag10Field(b, begin, f, TagLoop(b, begin))
  BY <1>4, <1>5, <1>6, <1>7, <1>9
<1> QED BY <1>8, <1>9

LEMMA FieldShifts ==
    ASSUME NEW b \in Seq(Byte), NEW m \in Seq(Byte), NEW d \in Nat, NEW n \in Nat,
           d + n <= Len(b), n <= Len(m), \A i \in 1 .. n : b[d + i] = m[i],
           NEW f \in Nat, NEW j \in Nat, f >= 1, j <= n
    PROVE  Tag10Field(b, d + 1, d + f, d + j) <=> Tag10Field(m, 1, f, j)
<1>1. SUFFICES ASSUME f + 2 < j
               PROVE  Tag10Field(b, d + 1, d + f, d + j) <=> Tag10Field(m, 1, f, j)
  BY DEF Tag10Field
<1>2. /\ b[d + f] = m[f] /\ b[(d + f) + 1] = m[f + 1] /\ b[(d + f) + 2] = m[f + 2]
      /\ b[d + j] = m[j] /\ (f # 1 => b[(d + f) - 1] = m[f - 1])
  <2>1. /\ d + (f + 1) = (d + f) + 1 /\ d + (f + 2) = (d + f) + 2 /\ d + (f - 1) = (d + f) - 1
        /\ f \in 1 .. n /\ f + 1 \in 1 .. n /\ f + 2 \in 1 .. n /\ j \in 1 .. n
        /\ f # 1 => f - 1 \in 1 .. n
    BY <1>1
  <2>2. b[d + (f + 1)] = m[f + 1] /\ b[d + (f + 2)] = m[f + 2] /\ (f # 1 => b[d + (f - 1)] = m[f - 1])
    BY <2>1
  <2> QED BY <2>1, <2>2
<1>3. (\A i \in d + f .. (d + j) - 1 : b[i] # "|") <=> (\A i \in f .. j - 1 : m[i] # "|")
  <2>1. ASSUME \A i \in d + f .. (d + j) - 1 : b[i] # "|", NEW i \in f .. j - 1
        PROVE  m[i] # "|"
    <3>1. d + i \in d + f .. (d + j) - 1 /\ i \in 1 .. n
      BY <1>1
    <3> QED BY <2>1, <3>1
  <2>2. ASSUME \A i \in f .. j - 1 : m[i] # "|", NEW i \in d + f .. (d + j) - 1
        PROVE  b[i] # "|"
    <3>1. i - d \in f .. j - 1 /\ i - d \in 1 .. n /\ d + (i - d) = i
      BY <1>1
    <3>2. b[d + (i - d)] = m[i - d]
      BY <3>1
    <3> QED BY <2>2, <3>1, <3>2
  <2> QED BY <2>1, <2>2
<1> DEFINE A == \A i \in d + f .. (d + j) - 1 : b[i] # "|"
           B == \A i \in f .. j - 1 : m[i] # "|"
<1>4. A <=> B
  BY <1>3
<1>5. /\ d + 1 <= d + f /\ d + f <= d + j /\ d + j <= Len(b)
      /\ 1 <= f /\ f <= j /\ j <= Len(m) /\ (d + f) + 2 < d + j
      /\ (d + f = d + 1 <=> f = 1)
  BY <1>1
<1>6. Tag10Field(b, d + 1, d + f, d + j) <=>
         /\ b[d + j] = "|" /\ (f = 1 \/ b[(d + f) - 1] = "|") /\ A
         /\ b[d + f] = "1" /\ b[(d + f) + 1] = "0" /\ b[(d + f) + 2] = "="
  BY <1>5 DEF Tag10Field, Field
<1>7. Tag10Field(m, 1, f, j) <=>
         /\ m[j] = "|" /\ (f = 1 \/ m[f - 1] = "|") /\ B
         /\ m[f] = "1" /\ m[f + 1] = "0" /\ m[f + 2] = "="
  BY <1>1, <1>5 DEF Tag10Field, Field
<1> HIDE DEF A, B
<1> QED BY <1>2, <1>4, <1>6, <1>7

LEMMA MessageTag10 ==
    ASSUME NEW m, IsMessage(m)
    PROVE  /\ m \in Seq(Byte) /\ Len(m) \in Nat /\ Len(m) >= 4
           /\ \E f \in Nat : f >= 1 /\ Tag10Field(m, 1, f, Len(m))
           /\ \A f, j \in Nat : Tag10Field(m, 1, f, j) => Len(m) <= j
<1>1. m \in Seq(Byte) /\ Len(m) >= 2 /\ TagLoop(m, 1) = Len(m) /\ Len(m) \in Nat
  BY DEF IsMessage
<1>2. PICK f \in Nat : Tag10Field(m, 1, f, Len(m))
  BY <1>1, TagLoopIs
<1>3. f >= 1 /\ Len(m) >= 4
  BY <1>1, <1>2 DEF Tag10Field, Field
<1>4. \A g, j \in Nat : Tag10Field(m, 1, g, j) => Len(m) <= j
  BY <1>1, TagLoopIs
<1> QED BY <1>1, <1>2, <1>3, <1>4

(* A message that is all in the buffer is found to its end ...             *)
LEMMA MessageEnds ==
    ASSUME NEW b \in Seq(Byte), NEW m, IsMessage(m), NEW d \in Nat,
           d + Len(m) <= Len(b), \A i \in 1 .. Len(m) : b[d + i] = m[i]
    PROVE  TagLoop(b, d + 1) = d + Len(m)
<1> DEFINE n == Len(m)
           e == TagLoop(b, d + 1)
<1>1. m \in Seq(Byte) /\ n \in Nat /\ \A f, j \in Nat : Tag10Field(m, 1, f, j) => n <= j
  BY MessageTag10
<1>2. PICK f \in Nat : f >= 1 /\ Tag10Field(m, 1, f, n)
  BY MessageTag10
<1>3. Tag10Field(b, d + 1, d + f, d + n)
  <2>1. n <= n
    BY <1>1
  <2> QED BY <1>1, <1>2, <2>1, FieldShifts
<1>4. d + 1 \in Nat /\ d + 1 >= 1 /\ d + f \in Nat /\ d + n \in Nat
  BY <1>1
<1>5. e # 0 /\ e <= d + n
  BY <1>3, <1>4, TagLoopIs
<1>6. PICK g \in Nat : e \in Nat /\ Tag10Field(b, d + 1, g, e)
  BY <1>4, <1>5, TagLoopIs
<1> HIDE DEF e, n
<1>7. g >= d + 1 /\ e >= g
  BY <1>6 DEF Tag10Field, Field
<1>8. /\ g - d \in Nat /\ e - d \in Nat /\ g - d >= 1 /\ e - d <= n
      /\ d + (g - d) = g /\ d + (e - d) = e
  BY <1>1, <1>5, <1>6, <1>7
<1>9. Tag10Field(b, d + 1, d + (g - d), d + (e - d))
  BY <1>6, <1>8
<1>10. Tag10Field(m, 1, g - d, e - d)
  <2>1. d + n <= Len(b) /\ n <= Len(m) /\ \A i \in 1 .. n : b[d + i] = m[i]
    BY <1>1 DEF n
  <2> QED BY <1>1, <1>8, <1>9, <2>1, FieldShifts
<1>11. n <= e - d
  BY <1>1, <1>8, <1>10
<1> QED BY <1>1, <1>5, <1>6, <1>11 DEF e, n

(* ... and one that is not, is not taken for complete.                     *)
LEMMA MessageCut ==
    ASSUME NEW b \in Seq(Byte), NEW m, IsMessage(m), NEW d \in Nat,
           d <= Len(b), Len(b) < d + Len(m), \A i \in 1 .. Len(b) - d : b[d + i] = m[i]
    PROVE  TagLoop(b, d + 1) = 0
<1> DEFINE e == TagLoop(b, d + 1)
           n == Len(b) - d
<1>1. SUFFICES ASSUME e # 0 PROVE FALSE
  OBVIOUS
<1>2. m \in Seq(Byte) /\ Len(m) \in Nat /\ \A f, j \in Nat : Tag10Field(m, 1, f, j) => Len(m) <= j
  BY MessageTag10
<1>3. d + 1 \in Nat /\ d + 1 >= 1 /\ n \in Nat /\ d + n = Len(b) /\ n < Len(m)
  BY <1>2
<1>4. PICK g \in Nat : e \in Nat /\ Tag10Field(b, d + 1, g, e)
  BY <1>1, <1>3, TagLoopIs
<1>5. \A i \in 1 .. n : b[d + i] = m[i]
  OBVIOUS
<1> HIDE DEF e, n
<1>6. g >= d + 1 /\ e >= g /\ e <= Len(b)
  BY <1>4 DEF Tag10Field, Field
<1>7. /\ g - d \in Nat /\ e - d \in Nat /\ g - d >= 1 /\ e - d <= n
      /\ d + (g - d) = g /\ d + (e - d) = e
  BY <1>3, <1>4, <1>6
<1>8. Tag10Field(b, d + 1, d + (g - d), d + (e - d))
  BY <1>4, <1>7
<1>9. Tag10Field(m, 1, g - d, e - d)
  <2>1. d + n <= Len(b) /\ n <= Len(m)
    BY <1>2, <1>3
  <2> QED BY <1>2, <1>3, <1>5, <1>7, <1>8, <2>1, FieldShifts
<1> QED BY <1>2, <1>3, <1>7, <1>9

(* Bytes that read "10=" and are followed by a delimiter.                  *)
Tag10Ended(b, f, j) ==
    f >= 1 /\ IsTag10At(b, f) /\ f <= j /\ j <= Len(b) /\ b[j] = "|"

LEMMA FinalTag10Is ==
    ASSUME NEW b \in Seq(Byte)
    PROVE  /\ FinalTag10(b) = 0 => \A f, j \in Nat : ~Tag10Ended(b, f, j)
           /\ FinalTag10(b) # 0 =>
                 \E f \in Nat :
                    /\ FinalTag10(b) \in Nat /\ Tag10Ended(b, f, FinalTag10(b))
                    /\ f + 2 < FinalTag10(b)
                    /\ \A g, j \in Nat : Tag10Ended(b, g, j) => g <= f
                    /\ \A j \in 1 .. Len(b) : b[j] = "|" /\ j >= f => FinalTag10(b) <= j
<1> DEFINE D == Delimiters(b)
           last == LastOf(D)
           S == {i \in 1 .. last : IsTag10At(b, i)}
           start == LastOf(S)
           A == {j \in D : j >= start + 2}
<1>1. D \subseteq 0 .. Len(b) /\ Len(b) \in Nat
      /\ \A j : j \in D <=> j \in 1 .. Len(b) /\ b[j] = "|"
  BY DEF Delimiters
<1>2. FinalTag10(b) = IF Len(b) < 4 \/ last = 0 THEN 0
                      ELSE IF start = 0 THEN 0 ELSE FirstOf(A)
  BY DEF FinalTag10, find_delimiter_from_end, find_tag10_start_from_end,
         MINIMUM_REQUIRED_INITIAL_BUFFER_FOR_PARSING
<1> HIDE DEF D
<1>3. CASE D = {}
  <2>1. last = 0
    BY <1>3 DEF LastOf
  <2>2. FinalTag10(b) = 0
    BY <1>2, <2>1
  <2>3. \A f, j \in Nat : ~Tag10Ended(b, f, j)
    BY <1>1, <1>3 DEF Tag10Ended
  <2> QED BY <2>2, <2>3
<1>4. CASE D # {}
  <2>1. last \in D /\ \A y \in D : last >= y
    BY <1>1, <1>4, LastOfIs
  <2> HIDE DEF last
  <2>2. last \in 1 .. Len(b) /\ b[last] = "|"
    BY <1>1, <2>1
  <2>3. \A g, j \in Nat : Tag10Ended(b, g, j) => g \in S
    <3>1. SUFFICES ASSUME NEW g \in Nat, NEW j \in Nat, Tag10Ended(b, g, j) PROVE g \in S
      OBVIOUS
    <3>2. j \in D /\ g >= 1 /\ g <= j /\ IsTag10At(b, g)
      BY <1>1, <3>1 DEF Tag10Ended
    <3>3. g \in 1 .. last
      BY <2>1, <2>2, <3>2
    <3> QED BY <3>2, <3>3
  <2>4. S \subseteq 0 .. Len(b) /\ 0 \notin S
    BY <2>2
  <2>5. CASE S = {}
    <3>1. start = 0
      BY <2>5 DEF LastOf
    <3>2. FinalTag10(b) = 0
      BY <1>2, <3>1
    <3> HIDE DEF S
    <3> QED BY <2>3, <2>5, <3>2
  <2>6. CASE S # {}
    <3>1. start \in S /\ \A y \in S : start >= y
      <4> HIDE DEF S
      <4> QED BY <1>1, <2>4, <2>6, LastOfIs
    <3> HIDE DEF start
    <3>2. start \in 1 .. last /\ IsTag10At(b, start) /\ start \in Nat /\ start >= 1
      BY <2>2, <3>1
    <3>3. start + 2 <= Len(b) /\ b[start] = "1" /\ b[start + 1] = "0" /\ b[start + 2] = "="
      BY <3>2, Tag10Bytes
    <3>4. last >= start + 3
      <4>1. last # start /\ last # start + 1 /\ last # start + 2
        BY <2>2, <3>3
      <4> QED BY <2>2, <3>2, <4>1
    <3>5. last \in A /\ A \subseteq Nat
      BY <1>1, <2>1, <2>2, <3>2, <3>4
    <3>6. FirstOf(A) \in A /\ \A y \in A : FirstOf(A) <= y
      <4> HIDE DEF A
      <4> QED BY <3>5, FirstOfIs
    <3>7. FinalTag10(b) = FirstOf(A)
      BY <1>2, <2>2, <3>2, <3>3, <3>4
    <3> DEFINE e == FirstOf(A)
    <3> HIDE DEF e
    <3>8. e \in D /\ e >= start + 2 /\ \A y \in A : e <= y
      BY <3>6 DEF e
    <3>9. e \in 1 .. Len(b) /\ b[e] = "|" /\ e # start + 2 /\ start + 2 < e
      <4>1. e \in 1 .. Len(b) /\ b[e] = "|"
        BY <1>1, <3>8
      <4> QED BY <3>2, <3>3, <3>8, <4>1
    <3>10. Tag10Ended(b, start, e)
      BY <3>2, <3>9 DEF Tag10Ended
    <3>11. \A g, j \in Nat : Tag10Ended(b, g, j) => g <= start
      <4> HIDE DEF S
      <4>1. \A g, j \in Nat : Tag10Ended(b, g, j) => start >= g
        BY <2>3, <3>1
      <4> QED BY <3>2, <4>1
    <3>12. ASSUME NEW j \in 1 .. Len(b), b[j] = "|", j >= start PROVE e <= j
      <4>1. j \in D
        BY <1>1, <3>12
      <4>2. j # start /\ j # start + 1
        BY <3>3, <3>12
      <4>3. j \in A
        BY <3>2, <3>12, <4>1, <4>2
      <4> QED BY <3>8, <4>3
    <3>13. FinalTag10(b) = e /\ e # 0 /\ e \in Nat
      BY <3>7, <3>9 DEF e
    <3> QED BY <3>2, <3>9, <3>10, <3>11, <3>12, <3>13
  <2> QED BY <2>5, <2>6
<1> QED BY <1>3, <1>4

-----------------------------------------------------------------------------
(* Streams and the part of them that is in the buffer.                     *)

LEMMA StreamIs ==
    ASSUME NEW s \in Streams
    PROVE  /\ s \in Seq(Seq(Byte)) /\ Len(s) \in Nat /\ DOMAIN s = 1 .. Len(s)
           /\ \A k \in 1 .. Len(s) : s[k] \notin Noise => s[k] \in Messages /\ IsMessage(s[k])
<1>1. s \in Seq(Messages \cup Noise)
  BY StreamAssumption
<1>2. Messages \cup Noise \subseteq Seq(Byte) /\ \A m \in Messages : IsMessage(m)
  BY StreamAssumption DEF IsMessage
<1>3. Len(s) \in Nat /\ DOMAIN s = 1 .. Len(s) /\ \A k \in 1 .. Len(s) : s[k] \in Messages \cup Noise
  BY <1>1
<1>4. s \in Seq(Seq(Byte))
  BY <1>1, <1>2
<1> QED BY <1>2, <1>3, <1>4

LEMMA BeginInMessage ==
    ASSUME NEW s \in Streams, Clean(s), NEW q \in Nat, q >= 1, q + 1 <= Len(FlattenSeq(s)),
           FlattenSeq(s)[q] = "8", FlattenSeq(s)[q + 1] = "="
    PROVE  \E k \in 1 .. Len(s) :
              s[k] \notin Noise /\ Offset(s, k - 1) < q /\ q + 1 <= Offset(s, k)
<1>1. s \in Seq(Seq(Byte)) /\ DOMAIN s = 1 .. Len(s)
  BY StreamIs
<1>2. q + 1 \in 1 .. Len(FlattenSeq(s))
  <2>1. Len(FlattenSeq(s)) \in Nat
    BY <1>1, Offsets
  <2> QED BY <2>1
<1>3. PICK k \in 1 .. Len(s) :
         /\ Offset(s, k - 1) < q + 1 /\ q + 1 <= Offset(s, k)
         /\ (q + 1) - Offset(s, k - 1) \in 1 .. Len(s[k])
  BY <1>1, <1>2, ItemAt
<1> DEFINE o == Offset(s, k - 1)
           i == (q + 1) - o
           x == s[k]
<1>4. o \in Nat /\ x \in Seq(Byte)
  <2>1. k - 1 \in 0 .. Len(s)
    BY <1>1
  <2> QED BY <1>1, <2>1, Offsets
<1>5. i \in 1 .. Len(x) /\ \A n \in 1 .. Len(x) : FlattenSeq(s)[o + n] = x[n]
  <2>1. \A n \in 1 .. Len(s[k]) : FlattenSeq(s)[Offset(s, k - 1) + n] = s[k][n]
    BY <1>1, AllItemBytes, Zenon
  <2> QED BY <1>3, <2>1, Zenon
<1> HIDE DEF o, x
<1>6. x[i] = "=" /\ (i # 1 => x[i - 1] = "8")
  <2>1. o + i = q + 1 /\ (i # 1 => o + (i - 1) = q /\ i - 1 \in 1 .. Len(x))
    BY <1>4, <1>5
  <2>2. FlattenSeq(s)[o + i] = x[i] /\ (i # 1 => FlattenSeq(s)[o + (i - 1)] = x[i - 1])
    BY <1>5, <2>1
  <2> HIDE DEF i
  <2> QED BY <2>1, <2>2
<1>7. i \in DOMAIN x /\ Misleads(x, i)
  <2> HIDE DEF i
  <2> QED BY <1>4, <1>5, <1>6 DEF Misleads
<1>8. x \notin Noise
  <2>1. x \notin Misleading
    BY <1>1 DEF Clean, x
  <2> HIDE DEF i
  <2> QED BY <1>7, <2>1 DEF Misleading
<1>9. i # 1
  <2>1. x[1] = "8"
    BY <1>8, StreamIs DEF x, IsMessage
  <2> HIDE DEF i
  <2> QED BY <1>6, <2>1
<1>10. o < q
  BY <1>4, <1>5, <1>9
<1> QED BY <1>3, <1>8, <1>10 DEF o, x

LEMMA Tag10InMessage ==
    ASSUME NEW s \in Streams, Clean(s), NEW q \in Nat, q >= 1, q + 2 <= Len(FlattenSeq(s)),
           FlattenSeq(s)[q] = "1", FlattenSeq(s)[q + 1] = "0", FlattenSeq(s)[q + 2] = "="
    PROVE  \E k \in 1 .. Len(s) :
              s[k] \notin Noise /\ Offset(s, k - 1) < q /\ q + 2 <= Offset(s, k)
<1>1. s \in Seq(Seq(Byte)) /\ DOMAIN s = 1 .. Len(s)
  BY StreamIs
<1>2. q + 2 \in 1 .. Len(FlattenSeq(s))
  <2>1. Len(FlattenSeq(s)) \in Nat
    BY <1>1, Offsets
  <2> QED BY <2>1
<1>3. PICK k \in 1 .. Len(s) :
         /\ Offset(s, k - 1) < q + 2 /\ q + 2 <= Offset(s, k)
         /\ (q + 2) - Offset(s, k - 1) \in 1 .. Len(s[k])
  BY <1>1, <1>2, ItemAt
<1> DEFINE o == Offset(s, k - 1)
           i == (q + 2) - o
           x == s[k]
<1>4. o \in Nat /\ x \in Seq(Byte)
  <2>1. k - 1 \in 0 .. Len(s)
    BY <1>1
  <2> QED BY <1>1, <2>1, Offsets
<1>5. i \in 1 .. Len(x) /\ \A n \in 1 .. Len(x) : FlattenSeq(s)[o + n] = x[n]
  <2>1. \A n \in 1 .. Len(s[k]) : FlattenSeq(s)[Offset(s, k - 1) + n] = s[k][n]
    BY <1>1, AllItemBytes, Zenon
  <2> QED BY <1>3, <2>1, Zenon
<1> HIDE DEF o, x
<1>6. x[i] = "=" /\ (i # 1 => x[i - 1] = "0") /\ (i > 2 => x[i - 2] = "1")
  <2>1. /\ o + i = q + 2 /\ (i # 1 => o + (i - 1) = q + 1 /\ i - 1 \in 1 .. Len(x))
        /\ (i > 2 => o + (i - 2) = q /\ i - 2 \in 1 .. Len(x))
    BY <1>4, <1>5
  <2>2. /\ FlattenSeq(s)[o + i] = x[i] /\ (i # 1 => FlattenSeq(s)[o + (i - 1)] = x[i - 1])
        /\ (i > 2 => FlattenSeq(s)[o + (i - 2)] = x[i - 2])
    BY <1>5, <2>1
  <2> HIDE DEF i
  <2> QED BY <2>1, <2>2
<1>7. i \in DOMAIN x /\ Misleads(x, i)
  <2> HIDE DEF i
  <2>1. i \in Nat /\ (i = 1 \/ i = 2 \/ i > 2)
    BY <1>4, <1>5
  <2> QED BY <1>4, <1>5, <1>6, <2>1 DEF Misleads
<1>8. x \notin Noise
  <2>1. x \notin Misleading
    BY <1>1 DEF Clean, x
  <2> HIDE DEF i
  <2> QED BY <1>7, <2>1 DEF Misleading
<1>9. i # 1 /\ i # 2
  <2>1. x[1] = "8"
    BY <1>8, StreamIs DEF x, IsMessage
  <2> HIDE DEF i
  <2> QED BY <1>6, <2>1
<1>10. o < q
  BY <1>4, <1>5, <1>9
<1> QED BY <1>3, <1>8, <1>10 DEF o, x

(* The bytes of a stream after the first b of them, up to the r-th.        *)
Window(s, b, r) == SubSeq(FlattenSeq(s), b + 1, r)

LEMMA WindowBytes ==
    ASSUME NEW s \in Seq(Seq(Byte)), NEW b \in Nat, NEW r \in Nat, b <= r,
           r <= Len(FlattenSeq(s))
    PROVE  /\ Window(s, b, r) \in Seq(Byte) /\ Len(Window(s, b, r)) = r - b
           /\ \A n \in 1 .. r - b : Window(s, b, r)[n] = FlattenSeq(s)[b + n]
<1> DEFINE w == SubSeq(FlattenSeq(s), b + 1, r)
<1>1. FlattenSeq(s) \in Seq(Byte)
  BY Offsets
<1>2. /\ w \in Seq(Byte) /\ Len(w) = r - (b + 1) + 1
      /\ \A n \in 1 .. r - (b + 1) + 1 : w[n] = FlattenSeq(s)[(b + 1) + n - 1]
  <2>1. b + 1 \in Nat /\ b + 1 >= 1 /\ b + 1 <= r + 1
    OBVIOUS
  <2> QED BY <1>1, <2>1, WindowIs
<1> HIDE DEF w
<1>3. r - (b + 1) + 1 = r - b
  OBVIOUS
<1>4. ASSUME NEW n \in 1 .. r - b PROVE w[n] = FlattenSeq(s)[b + n]
  <2>1. (b + 1) + n - 1 = b + n /\ n \in 1 .. r - (b + 1) + 1
    OBVIOUS
  <2> QED BY <1>2, <2>1
<1> QED BY <1>2, <1>3, <1>4 DEF w, Window

LEMMA ItemInWindow ==
    ASSUME NEW s \in Seq(Seq(Byte)), NEW b \in Nat, NEW r \in Nat, b <= r,
           r <= Len(FlattenSeq(s)), NEW k \in 1 .. Len(s), b <= Offset(s, k - 1)
    PROVE  \A i \in 1 .. Len(s[k]) : Offset(s, k - 1) + i <= r =>
              Window(s, b, r)[(Offset(s, k - 1) - b) + i] = s[k][i]
<1> DEFINE o == Offset(s, k - 1)
<1>1. SUFFICES ASSUME NEW i \in 1 .. Len(s[k]), o + i <= r
               PROVE  Window(s, b, r)[(o - b) + i] = s[k][i]
  OBVIOUS
<1>2. o \in Nat
  <2>1. k - 1 \in 0 .. Len(s)
    OBVIOUS
  <2> QED BY <2>1, Offsets
<1>3. FlattenSeq(s)[o + i] = s[k][i]
  BY ItemBytes
<1>4. b <= o
  OBVIOUS
<1> HIDE DEF o
<1>5. (o - b) + i \in 1 .. r - b /\ b + ((o - b) + i) = o + i
  BY <1>1, <1>2, <1>4
<1>6. Window(s, b, r)[(o - b) + i] = FlattenSeq(s)[b + ((o - b) + i)]
  BY <1>5, WindowBytes
<1> QED BY <1>3, <1>5, <1>6

(* A message that was received completely has its tag 10 in the buffer.    *)
LEMMA CompleteMessage ==
    ASSUME NEW s \in Streams, NEW b \in Nat, NEW r \in Nat, b <= r,
           r <= Len(FlattenSeq(s)), NEW k \in 1 .. Len(s), s[k] \notin Noise,
           b <= Offset(s, k - 1), Offset(s, k) <= r
    PROVE  \E f \in Nat : /\ f > Offset(s, k - 1) - b
                          /\ Tag10Ended(Window(s, b, r), f, Offset(s, k) - b)
<1> DEFINE o == Offset(s, k - 1)
           m == s[k]
           w == Window(s, b, r)
           d == o - b
<1>1. s \in Seq(Seq(Byte)) /\ IsMessage(m)
  BY StreamIs
<1>2. o \in Nat /\ Offset(s, k) = o + Len(m) /\ Offset(s, k) \in Nat
  <2>1. k - 1 \in 0 .. Len(s) /\ k \in 0 .. Len(s)
    BY <1>1
  <2> QED BY <1>1, <2>1, Offsets
<1>3. w \in Seq(Byte) /\ Len(w) = r - b
  BY <1>1, WindowBytes
<1>4. \A i \in 1 .. Len(m) : o + i <= r => w[d + i] = m[i]
  BY <1>1, ItemInWindow
<1>5. m \in Seq(Byte) /\ Len(m) \in Nat
  BY <1>1, MessageTag10
<1>6. PICK f \in Nat : f >= 1 /\ Tag10Field(m, 1, f, Len(m))
  BY <1>1, MessageTag10
<1>7. b <= o /\ o + Len(m) <= r
  BY <1>2
<1> HIDE DEF o, m, w
<1>8. d \in Nat /\ d + Len(m) <= Len(w)
  BY <1>2, <1>3, <1>5, <1>7
<1>9. \A i \in 1 .. Len(m) : w[d + i] = m[i]
  <2> TAKE i \in 1 .. Len(m)
  <2>1. o + i <= r
    BY <1>2, <1>5, <1>7
  <2> QED BY <1>4, <2>1
<1> HIDE DEF d
<1>10. Tag10Field(w, d + 1, d + f, d + Len(m))
  <2>1. Len(m) <= Len(m)
    BY <1>5
  <2> QED BY <1>3, <1>5, <1>6, <1>8, <1>9, <2>1, FieldShifts
<1>11. Tag10Ended(w, d + f, d + Len(m))
  <2>1. /\ (d + f) + 2 <= Len(w) /\ w[d + f] = "1" /\ w[(d + f) + 1] = "0" /\ w[(d + f) + 2] = "="
        /\ d + f <= d + Len(m) /\ d + Len(m) <= Len(w) /\ w[d + Len(m)] = "|"
    BY <1>3, <1>5, <1>8, <1>10 DEF Tag10Field, Field
  <2>2. d + f \in Nat /\ d + f >= 1
    BY <1>6, <1>8
  <2>3. IsTag10At(w, d + f)
    BY <1>3, <2>1, <2>2, Tag10Bytes
  <2> QED BY <2>1, <2>2, <2>3 DEF Tag10Ended
<1>12. d + f \in Nat /\ d + f > d /\ d + Len(m) = Offset(s, k) - b
  BY <1>2, <1>5, <1>6, <1>7, <1>8 DEF d
<1> QED BY <1>11, <1>12 DEF d, o, w

(* Between byte b and byte r of a clean stream.                            *)
Received(s, b, r) ==
    /\ s \in Streams /\ Clean(s) /\ Len(s) \in Nat
    /\ b <= r /\ r <= Len(FlattenSeq(s)) /\ Len(FlattenSeq(s)) \in Nat

IsWindow(s, b, r, w) == w = Window(s, b, r)
Item(s, k) == k \in 0 .. Len(s)
IsOffset(s, k, o) == k \in 0 .. Len(s) /\ o = Offset(s, k)

(* The next message of the stream after item k.                            *)
IsNext(s, k, j) ==
    /\ k + 1 <= j /\ j <= Len(s) /\ s[j] \notin Noise
    /\ \A i \in k + 1 .. j - 1 : s[i] \in Noise

LEMMA OffsetOrder ==
    ASSUME NEW s \in Streams, NEW j \in 0 .. Len(s), NEW k \in 0 .. Len(s)
    PROVE  /\ Offset(s, j) \in Nat /\ Offset(s, k) \in Nat
           /\ j <= k => Offset(s, j) <= Offset(s, k)
           /\ Offset(s, j) < Offset(s, k) => j < k
           /\ Len(FlattenSeq(s)) \in Nat /\ Offset(s, j) <= Len(FlattenSeq(s))
<1>1. s \in Seq(Seq(Byte)) /\ Len(s) \in Nat
  BY StreamIs
<1>2. /\ FlattenSeq(s) \in Seq(Byte)
      /\ \A i \in 0 .. Len(s) : Offset(s, i) \in 0 .. Len(FlattenSeq(s))
      /\ \A h, i \in 0 .. Len(s) : h <= i => Offset(s, h) <= Offset(s, i)
  BY <1>1, Offsets, Zenon
<1>3. /\ Offset(s, j) \in 0 .. Len(FlattenSeq(s)) /\ Offset(s, k) \in 0 .. Len(FlattenSeq(s))
      /\ j <= k => Offset(s, j) <= Offset(s, k)
      /\ k <= j => Offset(s, k) <= Offset(s, j)
  BY <1>2
<1>4. Len(FlattenSeq(s)) \in Nat
  BY <1>2
<1> QED BY <1>1, <1>3, <1>4

LEMMA OffsetExists ==
    ASSUME NEW s, NEW b \in Nat, NEW r \in Nat, Received(s, b, r), NEW k \in Nat, Item(s, k)
    PROVE  \E o \in Nat : IsOffset(s, k, o)
<1>1. s \in Streams /\ k \in 0 .. Len(s)
  BY DEF Received, Item
<1> QED BY <1>1, OffsetOrder DEF IsOffset

LEMMA OffsetsOrdered ==
    ASSUME NEW s, NEW b \in Nat, NEW r \in Nat, Received(s, b, r),
           NEW j \in Nat, NEW k \in Nat, NEW o \in Nat, NEW p \in Nat,
           IsOffset(s, j, o), IsOffset(s, k, p)
    PROVE  (j <= k => o <= p) /\ (o < p => j < k)
<1>1. s \in Streams /\ j \in 0 .. Len(s) /\ k \in 0 .. Len(s) /\ o = Offset(s, j) /\ p = Offset(s, k)
  BY DEF Received, IsOffset
<1> QED BY <1>1, OffsetOrder

(* w holds the bytes of the stream between b and r.                        *)
HasBytes(s, b, r, w) ==
    /\ w \in Seq(Byte) /\ Len(w) = r - b
    /\ \A n \in 1 .. r - b : w[n] = FlattenSeq(s)[b + n]

LEMMA WindowHas ==
    ASSUME NEW s \in Seq(Seq(Byte)), NEW b \in Nat, NEW r \in Nat, b <= r,
           r <= Len(FlattenSeq(s))
    PROVE  HasBytes(s, b, r, Window(s, b, r))
<1> DEFINE w == Window(s, b, r)
<1>1. /\ w \in Seq(Byte) /\ Len(w) = r - b
      /\ \A n \in 1 .. r - b : w[n] = FlattenSeq(s)[b + n]
  BY WindowBytes
<1> HIDE DEF w
<1>2. HasBytes(s, b, r, w)
  BY <1>1, Zenon DEF HasBytes
<1> QED BY <1>2 DEF w

LEMMA ReceivedAre ==
    ASSUME NEW s, NEW b \in Nat, NEW r \in Nat, Received(s, b, r), NEW w, IsWindow(s, b, r, w)
    PROVE  HasBytes(s, b, r, w)
<1>1. s \in Seq(Seq(Byte)) /\ b <= r /\ r <= Len(FlattenSeq(s)) /\ w = Window(s, b, r)
  BY StreamIs DEF Received, IsWindow
<1>2. HasBytes(s, b, r, Window(s, b, r))
  BY <1>1, WindowHas
<1> QED BY <1>1, <1>2

LEMMA ReceivedBytes ==
    ASSUME NEW s, NEW b \in Nat, NEW r \in Nat, Received(s, b, r), NEW w, IsWindow(s, b, r, w)
    PROVE  /\ w \in Seq(Byte) /\ Len(w) = r - b /\ b <= r
           /\ \A n \in 1 .. r - b : w[n] = FlattenSeq(s)[b + n]
<1>1. HasBytes(s, b, r, w)
  BY ReceivedAre
<1>2. b <= r
  BY DEF Received
<1> QED BY <1>1, <1>2, Zenon DEF HasBytes

(* The bytes of item j, which begins after byte o, in the buffer.          *)
LEMMA ReceivedItem ==
    ASSUME NEW s, NEW b \in Nat, NEW r \in Nat, Received(s, b, r), NEW w, IsWindow(s, b, r, w),
           NEW j \in Nat, 1 <= j, Item(s, j), NEW o \in Nat, IsOffset(s, j - 1, o), b <= o
    PROVE  \A i \in 1 .. Len(s[j]) : o + i <= r => w[(o - b) + i] = s[j][i]
<1>1. /\ s \in Seq(Seq(Byte)) /\ b <= r /\ r <= Len(FlattenSeq(s)) /\ w = Window(s, b, r)
      /\ j \in 1 .. Len(s) /\ o = Offset(s, j - 1)
  BY StreamIs DEF Received, IsWindow, IsOffset, Item
<1> QED BY <1>1, ItemInWindow

LEMMA ReceivedBegin ==
    ASSUME NEW s, NEW b \in Nat, NEW r \in Nat, Received(s, b, r), NEW w, IsWindow(s, b, r, w),
           NEW i \in Nat, 1 <= i, i + 1 <= r - b, w[i] = "8", w[i + 1] = "="
    PROVE  \E g \in Nat, o \in Nat, e \in Nat :
              /\ 1 <= g /\ Item(s, g) /\ s[g] \notin Noise
              /\ IsOffset(s, g - 1, o) /\ o < b + i /\ IsOffset(s, g, e) /\ b + i < e
<1> DEFINE B == FlattenSeq(s)
           p == b + i
<1>1. s \in Streams /\ Clean(s) /\ r <= Len(B) /\ Len(B) \in Nat /\ Len(s) \in Nat
  BY DEF Received
<1>2. \A n \in 1 .. r - b : w[n] = B[b + n]
  BY ReceivedBytes
<1>3. B[p] = "8" /\ B[p + 1] = "="
  <2>1. i \in 1 .. r - b /\ i + 1 \in 1 .. r - b /\ b + (i + 1) = p + 1
    OBVIOUS
  <2>2. w[i] = B[b + i] /\ w[i + 1] = B[b + (i + 1)]
    BY <1>2, <2>1
  <2> QED BY <2>1, <2>2
<1>4. p \in Nat /\ p >= 1 /\ p + 1 <= Len(B)
  BY <1>1
<1> HIDE DEF p
<1>5. PICK g \in 1 .. Len(s) : s[g] \notin Noise /\ Offset(s, g - 1) < p /\ p + 1 <= Offset(s, g)
  BY <1>1, <1>3, <1>4, BeginInMessage
<1>6. g \in Nat /\ 1 <= g /\ g \in 0 .. Len(s) /\ g - 1 \in 0 .. Len(s)
  BY <1>1
<1>7. Offset(s, g - 1) \in Nat /\ Offset(s, g) \in Nat
  BY <1>1, <1>6, OffsetOrder
<1>8. p < Offset(s, g)
  BY <1>4, <1>5, <1>7
<1> QED BY <1>5, <1>6, <1>7, <1>8 DEF p, IsOffset, Item

LEMMA ReceivedTag10 ==
    ASSUME NEW s, NEW b \in Nat, NEW r \in Nat, Received(s, b, r), NEW w, IsWindow(s, b, r, w),
           NEW f \in Nat, 1 <= f, IsTag10At(w, f)
    PROVE  \E g \in Nat, o \in Nat, e \in Nat :
              /\ 1 <= g /\ Item(s, g) /\ s[g] \notin Noise
              /\ IsOffset(s, g - 1, o) /\ o < b + f /\ o + 3 <= r
              /\ IsOffset(s, g, e) /\ b + f < e
<1> DEFINE B == FlattenSeq(s)
           p == b + f
<1>1. s \in Streams /\ Clean(s) /\ r <= Len(B) /\ Len(B) \in Nat /\ Len(s) \in Nat
  BY DEF Received
<1>2. w \in Seq(Byte) /\ Len(w) = r - b
  BY ReceivedBytes
<1>3. \A n \in 1 .. r - b : w[n] = B[b + n]
  BY ReceivedBytes
<1>4. f + 2 <= r - b /\ w[f] = "1" /\ w[f + 1] = "0" /\ w[f + 2] = "="
  BY <1>2, Tag10Bytes
<1>5. B[p] = "1" /\ B[p + 1] = "0" /\ B[p + 2] = "="
  <2>1. f \in 1 .. r - b /\ f + 1 \in 1 .. r - b /\ f + 2 \in 1 .. r - b
        /\ b + (f + 1) = p + 1 /\ b + (f + 2) = p + 2
    BY <1>4
  <2>2. w[f] = B[b + f] /\ w[f + 1] = B[b + (f + 1)] /\ w[f + 2] = B[b + (f + 2)]
    BY <1>3, <2>1
  <2> QED BY <1>4, <2>1, <2>2
<1>6. p \in Nat /\ p >= 1 /\ p + 2 <= r /\ p + 2 <= Len(B)
  BY <1>1, <1>4
<1> HIDE DEF p
<1>7. PICK g \in 1 .. Len(s) : s[g] \notin Noise /\ Offset(s, g - 1) < p /\ p + 2 <= Offset(s, g)
  BY <1>1, <1>5, <1>6, Tag10InMessage
<1>8. g \in Nat /\ 1 <= g /\ g \in 0 .. Len(s) /\ g - 1 \in 0 .. Len(s)
  BY <1>1
<1>9. Offset(s, g - 1) \in Nat /\ Offset(s, g) \in Nat
  BY <1>1, <1>8, OffsetOrder
<1>10. Offset(s, g - 1) + 3 <= r /\ p < Offset(s, g)
  BY <1>6, <1>7, <1>9
<1> QED BY <1>7, <1>8, <1>9, <1>10 DEF p, IsOffset, Item

(* If the buffer holds the end of a message after the read index, there is *)
(* a next message, and its beginning is in the buffer.                     *)
LEMMA MessageAhead ==
    ASSUME NEW s, NEW b \in Nat, NEW r \in Nat, Received(s, b, r), NEW w, IsWindow(s, b, r, w),
           NEW k \in Nat, NEW o \in Nat, IsOffset(s, k, o), b <= o, o <= r,
           NEW at \in Nat, at = (o - b) + 1, FinalTag10(w) # 0, at <= FinalTag10(w),
           at = 1 \/ w[at - 1] = "|"
    PROVE  \E j \in Nat, n \in Nat : IsNext(s, k, j) /\ IsOffset(s, j - 1, n) /\ n + 3 <= r
<1>1. w \in Seq(Byte) /\ Len(w) = r - b /\ b <= r
  BY ReceivedBytes
<1>2. PICK f \in Nat :
         /\ FinalTag10(w) \in Nat /\ Tag10Ended(w, f, FinalTag10(w)) /\ f + 2 < FinalTag10(w)
         /\ \A j \in 1 .. Len(w) : w[j] = "|" /\ j >= f => FinalTag10(w) <= j
  BY <1>1, FinalTag10Is
<1>3. f >= 1 /\ IsTag10At(w, f) /\ FinalTag10(w) <= r - b
  BY <1>1, <1>2 DEF Tag10Ended
<1>4. f >= at
  <2>1. SUFFICES ASSUME f < at PROVE FALSE
    OBVIOUS
  <2>2. at # 1 /\ at - 1 \in 1 .. Len(w) /\ at - 1 >= f
    BY <1>1, <1>3, <2>1
  <2>3. FinalTag10(w) <= at - 1
    BY <1>2, <2>2
  <2> QED BY <1>2, <2>3
<1>5. PICK g \in Nat, h \in Nat, e \in Nat :
         /\ 1 <= g /\ Item(s, g) /\ s[g] \notin Noise
         /\ IsOffset(s, g - 1, h) /\ h < b + f /\ h + 3 <= r
         /\ IsOffset(s, g, e) /\ b + f < e
  BY <1>3, ReceivedTag10
<1>6. k < g
  <2>1. o < e
    BY <1>4, <1>5
  <2> QED BY <1>5, <2>1, OffsetsOrdered
<1> DEFINE S == {i \in k + 1 .. g : s[i] \notin Noise}
<1>7. S \subseteq Nat /\ g \in S
  BY <1>5, <1>6
<1>8. PICK j \in S : \A i \in S : j <= i
  <2> HIDE DEF S
  <2> QED BY <1>7, NatMinimum
<1>9. j \in Nat /\ k + 1 <= j /\ j <= g /\ s[j] \notin Noise
  BY <1>7, <1>8
<1>10. ASSUME NEW i \in k + 1 .. j - 1 PROVE s[i] \in Noise
  <2>1. i \in k + 1 .. g /\ ~(j <= i)
    BY <1>9
  <2> QED BY <1>8, <2>1
<1>11. Item(s, j) /\ Item(s, j - 1) /\ j - 1 \in Nat /\ g - 1 \in Nat /\ j - 1 <= g - 1
  <2>1. j - 1 \in Nat /\ g - 1 \in Nat /\ j - 1 <= g - 1 /\ j \in 0 .. g /\ j - 1 \in 0 .. g
    BY <1>5, <1>9
  <2>2. g <= Len(s) /\ Len(s) \in Nat
    BY <1>5 DEF Item, Received
  <2>3. j \in 0 .. Len(s) /\ j - 1 \in 0 .. Len(s)
    BY <2>1, <2>2
  <2> QED BY <2>1, <2>3 DEF Item
<1>12. IsNext(s, k, j)
  BY <1>9, <1>10, <1>11 DEF IsNext, Item
<1>13. PICK n \in Nat : IsOffset(s, j - 1, n)
  BY <1>11, OffsetExists
<1>14. n <= h
  BY <1>5, <1>11, <1>13, OffsetsOrdered
<1>15. n + 3 <= r
  BY <1>5, <1>14
<1> QED BY <1>9, <1>12, <1>13, <1>15

(* The search for "8=" passes over noise and finds the next message.       *)
LEMMA BeginFound ==
    ASSUME NEW s, NEW b \in Nat, NEW r \in Nat, Received(s, b, r), NEW w, IsWindow(s, b, r, w),
           NEW k \in Nat, NEW h \in Nat, IsOffset(s, k, h), b <= h,
           NEW j \in Nat, IsNext(s, k, j), NEW o \in Nat, IsOffset(s, j - 1, o), o + 3 <= r,
           NEW at \in Nat, at = (h - b) + 1
    PROVE  find_begin_string_position(w, at) = (o - b) + 1
<1> DEFINE m == s[j]
           T == {i \in at .. Len(w) - 1 : w[i] = "8" /\ w[i + 1] = "="}
<1>1. w \in Seq(Byte) /\ Len(w) = r - b /\ b <= r
  BY ReceivedBytes
<1>2. k + 1 <= j /\ Item(s, j) /\ m \notin Noise
  <2>1. k + 1 <= j /\ j <= Len(s) /\ Len(s) \in Nat
    BY DEF IsNext, Received
  <2>2. m \notin Noise
    BY DEF IsNext
  <2> QED BY <2>1, <2>2 DEF Item
<1>3. h <= o
  <2>1. j - 1 \in Nat /\ k <= j - 1
    BY <1>2
  <2> QED BY <2>1, OffsetsOrdered
<1>4. Len(m) \in Nat /\ Len(m) >= 4 /\ m[1] = "8" /\ m[2] = "="
  <2>1. IsMessage(m)
    <3>1. s \in Streams /\ j \in 1 .. Len(s)
      BY <1>2 DEF Item, Received
    <3> QED BY <1>2, <3>1, StreamIs
  <2> HIDE DEF m
  <2> QED BY <2>1, MessageTag10 DEF IsMessage
<1>5. \A i \in 1 .. Len(m) : o + i <= r => w[(o - b) + i] = m[i]
  <2>1. b <= o /\ 1 <= j
    BY <1>2, <1>3
  <2> QED BY <1>2, <2>1, ReceivedItem
<1>6. PICK d \in Nat : d = o - b
  BY <1>3
<1>7. at <= d + 1 /\ d + 2 <= Len(w) /\ b + d = o /\ at >= 1
  BY <1>1, <1>3, <1>6
<1> HIDE DEF m
<1>8. d + 1 \in T
  <2>1. 1 \in 1 .. Len(m) /\ 2 \in 1 .. Len(m) /\ o + 1 <= r /\ o + 2 <= r
    BY <1>4
  <2>2. w[d + 1] = m[1] /\ w[d + 2] = m[2]
    BY <1>5, <1>6, <2>1
  <2>3. d + 1 \in at .. Len(w) - 1 /\ (d + 1) + 1 = d + 2
    BY <1>1, <1>7
  <2> QED BY <1>4, <2>2, <2>3
<1>9. T \subseteq Nat
  BY <1>1
<1>10. ASSUME NEW i \in T PROVE d + 1 <= i
  <2>1. i \in Nat /\ i >= at /\ 1 <= i /\ i + 1 <= r - b /\ w[i] = "8" /\ w[i + 1] = "="
    BY <1>1, <1>7
  <2>2. PICK g \in Nat, e \in Nat, x \in Nat :
           /\ 1 <= g /\ Item(s, g) /\ s[g] \notin Noise
           /\ IsOffset(s, g - 1, e) /\ e < b + i /\ IsOffset(s, g, x) /\ b + i < x
    BY <2>1, ReceivedBegin
  <2>3. j <= g
    <3>1. SUFFICES ASSUME g < j PROVE FALSE
      OBVIOUS
    <3>2. h < x
      BY <2>1, <2>2
    <3>3. k < g
      BY <2>2, <3>2, OffsetsOrdered
    <3>4. g \in k + 1 .. j - 1
      BY <3>1, <3>3
    <3> QED BY <2>2, <3>4 DEF IsNext
  <2>4. o <= e
    <3>1. j - 1 \in Nat /\ g - 1 \in Nat /\ j - 1 <= g - 1
      BY <1>2, <2>2, <2>3
    <3> QED BY <2>2, <3>1, OffsetsOrdered
  <2> QED BY <1>7, <2>1, <2>2, <2>4
<1> DEFINE x == FirstOf(T)
<1>11. x \in T /\ x <= d + 1
  <2>1. T # {}
    BY <1>8
  <2> HIDE DEF T
  <2> QED BY <1>8, <1>9, <2>1, FirstOfIs
<1>12. d + 1 <= x /\ x \in Nat
  BY <1>9, <1>10, <1>11
<1>13. find_begin_string_position(w, at) = x
  BY DEF find_begin_string_position
<1> HIDE DEF x
<1>14. x = d + 1
  BY <1>11, <1>12
<1> QED BY <1>6, <1>13, <1>14

(* The loop over the tags of a message ends where the stream says if the   *)
(* message was received completely, and not at all otherwise.              *)
LEMMA TagsFollowed ==
    ASSUME NEW s \in Streams, NEW b \in Nat, NEW r \in Nat, b <= r,
           r <= Len(FlattenSeq(s)), NEW j \in 1 .. Len(s), s[j] \notin Noise,
           b <= Offset(s, j - 1), Offset(s, j - 1) <= r
    PROVE  TagLoop(Window(s, b, r), (Offset(s, j - 1) - b) + 1) =
              IF Offset(s, j) <= r THEN Offset(s, j) - b ELSE 0
<1> DEFINE w == Window(s, b, r)
           o == Offset(s, j - 1)
           m == s[j]
           d == o - b
<1>1. s \in Seq(Seq(Byte)) /\ j - 1 \in 0 .. Len(s)
  BY StreamIs
<1>2. w \in Seq(Byte) /\ Len(w) = r - b
  BY <1>1, WindowBytes
<1>3. o \in Nat /\ Offset(s, j) = o + Len(m)
  BY <1>1, Offsets
<1>4. IsMessage(m)
  BY StreamIs
<1>5. Len(m) \in Nat
  <2> HIDE DEF m
  <2> QED BY <1>4, MessageTag10
<1>6. \A i \in 1 .. Len(m) : o + i <= r => w[d + i] = m[i]
  BY <1>1, ItemInWindow
<1>7. b <= o /\ o <= r
  OBVIOUS
<1> HIDE DEF w, o, m
<1>8. d \in Nat /\ b + d = o /\ d <= Len(w)
  BY <1>2, <1>3, <1>7
<1>9. CASE o + Len(m) <= r
  <2>1. d + Len(m) <= Len(w)
    BY <1>2, <1>3, <1>5, <1>8, <1>9
  <2>2. \A i \in 1 .. Len(m) : w[d + i] = m[i]
    <3> TAKE i \in 1 .. Len(m)
    <3>1. o + i <= r
      BY <1>3, <1>5, <1>9
    <3> QED BY <1>6, <3>1
  <2>3. d + Len(m) = (o + Len(m)) - b
    BY <1>3, <1>5, <1>8
  <2> HIDE DEF d
  <2>4. TagLoop(w, d + 1) = d + Len(m)
    BY <1>2, <1>4, <1>8, <2>1, <2>2, MessageEnds
  <2> QED BY <1>3, <1>9, <2>3, <2>4 DEF d, o, w
<1>10. CASE ~(o + Len(m) <= r)
  <2>1. Len(w) < d + Len(m)
    BY <1>2, <1>3, <1>5, <1>8, <1>10
  <2>2. \A i \in 1 .. Len(w) - d : w[d + i] = m[i]
    <3> TAKE i \in 1 .. Len(w) - d
    <3>1. o + i <= r /\ i \in 1 .. Len(m)
      BY <1>2, <1>3, <1>5, <1>8, <1>10
    <3> QED BY <1>6, <3>1
  <2> HIDE DEF d
  <2>3. TagLoop(w, d + 1) = 0
    BY <1>2, <1>4, <1>8, <2>1, <2>2, MessageCut
  <2> QED BY <1>3, <1>10, <2>3 DEF d, o, w
<1> QED BY <1>9, <1>10
-----------------------------------------------------------------------------
(* Where the framing loop stands in the stream                             *)

(* After item k no further message was received completely.                *)
Awaited(s, k, r) ==
    \A j \in Nat, e \in Nat : IsOffset(s, j, e) /\ k < j /\ s[j] \notin Noise => r < e

(* The connection waits: everything up to item k is done, and what follows *)
(* is the incomplete buffer w.                                             *)
Waits(s, k, r, w) ==
    \E o \in Nat : Received(s, o, r) /\ IsOffset(s, k, o) /\ IsWindow(s, o, r, w) /\ Awaited(s, k, r)

(* The buffer w, that begins after byte b, is done up to item k and the    *)
(* loop goes on at the index at.                                           *)
Loops(s, k, b, r, w, at) ==
    \E o \in Nat :
        /\ Received(s, b, r) /\ IsOffset(s, k, o) /\ b <= o /\ o <= r /\ IsWindow(s, b, r, w)
        /\ at = (o - b) + 1 /\ at <= FinalTag10(w)

Parses(s, k, r, w, at, end) ==
    /\ \E b \in Nat : Loops(s, k, b, r, w, at)
    /\ end = FinalTag10(w) /\ end # 0 /\ at \in Nat
    /\ at = 1 \/ w[at - 1] = "|"

(* A message of the stream that was just found in the buffer, up to end.   *)
Found(s, k, b, r, w, end) ==
    \E e \in Nat :
        /\ Received(s, b, r) /\ IsOffset(s, k, e) /\ b <= e /\ e <= r /\ IsWindow(s, b, r, w)
        /\ end = e - b /\ w[end] = "|" /\ k \in Nat

(* The bytes of two windows that follow each other.                        *)
LEMMA WindowsJoin ==
    ASSUME NEW s, NEW o \in Nat, NEW r \in Nat, Received(s, o, r), NEW w, IsWindow(s, o, r, w),
           NEW n \in Nat, r + n <= Len(FlattenSeq(s))
    PROVE  /\ Received(s, o, r + n)
           /\ IsWindow(s, o, r + n, w \o SubSeq(FlattenSeq(s), r + 1, r + n))
<1> DEFINE B == FlattenSeq(s)
           t == SubSeq(B, r + 1, r + n)
           u == Window(s, o, r + n)
<1>1. s \in Seq(Seq(Byte)) /\ o <= r /\ Len(B) \in Nat
  BY StreamIs DEF Received
<1>2. w \in Seq(Byte) /\ Len(w) = r - o /\ \A i \in 1 .. r - o : w[i] = B[o + i]
  BY ReceivedBytes
<1>3. Received(s, r, r + n) /\ Received(s, o, r + n)
  BY <1>1 DEF Received
<1>4. t \in Seq(Byte) /\ Len(t) = n /\ \A i \in 1 .. n : t[i] = B[r + i]
  <2>1. IsWindow(s, r, r + n, t)
    BY DEF IsWindow, Window
  <2>2. r + n \in Nat /\ (r + n) - r = n
    OBVIOUS
  <2> HIDE DEF t, B
  <2>3. t \in Seq(Byte) /\ Len(t) = (r + n) - r /\ \A i \in 1 .. (r + n) - r : t[i] = FlattenSeq(s)[r + i]
    BY <1>3, <2>1, <2>2, ReceivedBytes
  <2> QED BY <2>2, <2>3 DEF B
<1>5. /\ u \in Seq(Byte) /\ Len(u) = (r + n) - o
      /\ \A i \in 1 .. (r + n) - o : u[i] = B[o + i]
  <2>1. IsWindow(s, o, r + n, u) /\ r + n \in Nat
    BY DEF IsWindow
  <2> HIDE DEF u
  <2>2. HasBytes(s, o, r + n, u)
    BY <1>3, <2>1, ReceivedAre
  <2> QED BY <2>2 DEF HasBytes
<1> HIDE DEF B, t, u
<1> DEFINE v == w \o t
<1>6. v \in Seq(Byte) /\ Len(v) = (r - o) + n
  <2>1. v \in Seq(Byte) /\ Len(v) = Len(w) + Len(t)
    BY <1>2, <1>4, ConcatProperties
  <2> QED BY <1>2, <1>4, <2>1
<1>7. ASSUME NEW i \in 1 .. (r - o) + n PROVE v[i] = u[i]
  <2>1. CASE i <= r - o
    <3>1. v[i] = w[i]
      BY <1>1, <1>2, <1>4, <2>1
    <3> HIDE DEF v
    <3>2. i \in 1 .. r - o /\ i \in 1 .. (r + n) - o
      BY <1>1, <2>1
    <3> QED BY <1>2, <1>5, <3>1, <3>2
  <2>2. CASE i > r - o
    <3>1. v[i] = t[i - (r - o)]
      <4>1. ASSUME NEW x \in Seq(Byte), NEW y \in Seq(Byte), NEW h \in Nat, Len(x) < h, h <= Len(x) + Len(y)
            PROVE  (x \o y)[h] = y[h - Len(x)]
        BY <4>1
      <4>2. Len(w) < i /\ i <= Len(w) + Len(t) /\ i \in Nat
        BY <1>1, <1>2, <1>4, <2>2
      <4>3. (w \o t)[i] = t[i - Len(w)]
        BY <1>2, <1>4, <4>1, <4>2
      <4> QED BY <1>2, <4>3
    <3> HIDE DEF v
    <3>2. i - (r - o) \in 1 .. n /\ i \in 1 .. (r + n) - o /\ r + (i - (r - o)) = o + i
      BY <1>1, <2>2
    <3> QED BY <1>4, <1>5, <3>1, <3>2
  <2> HIDE DEF v
  <2> QED BY <1>1, <2>1, <2>2
<1>8. v = u
  <2> HIDE DEF v
  <2>1. Len(v) = Len(u) /\ Len(v) \in Nat /\ Len(v) = (r - o) + n
    BY <1>1, <1>5, <1>6
  <2> QED BY <1>5, <1>6, <1>7, <2>1, SeqEqual
<1> QED BY <1>3, <1>8 DEF IsWindow, u, t, B

(* The end of a window is a window.                                        *)
LEMMA WindowTail ==
    ASSUME NEW s, NEW b \in Nat, NEW r \in Nat, Received(s, b, r), NEW w, IsWindow(s, b, r, w),
           NEW o \in Nat, b <= o, o <= r
    PROVE  /\ Received(s, o, r)
           /\ IsWindow(s, o, r, SubSeq(w, (o - b) + 1, Len(w)))
<1> DEFINE B == FlattenSeq(s)
           d == o - b
           v == SubSeq(w, d + 1, Len(w))
           u == Window(s, o, r)
<1>1. Received(s, o, r) /\ d \in Nat
  BY DEF Received
<1>2. w \in Seq(Byte) /\ Len(w) = r - b /\ \A i \in 1 .. r - b : w[i] = B[b + i]
  <2>1. HasBytes(s, b, r, w)
    BY ReceivedAre
  <2> QED BY <2>1 DEF HasBytes
<1>3. u \in Seq(Byte) /\ Len(u) = r - o /\ \A i \in 1 .. r - o : u[i] = B[o + i]
  <2>1. IsWindow(s, o, r, u)
    BY DEF IsWindow
  <2> HIDE DEF u
  <2>2. HasBytes(s, o, r, u)
    BY <1>1, <2>1, ReceivedAre
  <2> QED BY <2>2 DEF HasBytes
<1> HIDE DEF u, B
<1>4. /\ v \in Seq(Byte) /\ Len(v) = Len(w) - (d + 1) + 1
      /\ \A i \in 1 .. Len(w) - (d + 1) + 1 : v[i] = w[(d + 1) + i - 1]
  <2>1. d + 1 \in Nat /\ d + 1 >= 1 /\ d + 1 <= Len(w) + 1 /\ Len(w) \in Nat /\ Len(w) <= Len(w)
    BY <1>1, <1>2
  <2>2. ASSUME NEW i \in Nat, i >= 1, i <= Len(w) + 1
        PROVE  /\ SubSeq(w, i, Len(w)) \in Seq(Byte) /\ Len(SubSeq(w, i, Len(w))) = Len(w) - i + 1
               /\ \A n \in 1 .. Len(w) - i + 1 : SubSeq(w, i, Len(w))[n] = w[i + n - 1]
    BY <1>2, <2>1, <2>2, WindowIs
  <2> HIDE DEF d
  <2> QED BY <2>1, <2>2
<1> HIDE DEF v
<1>5. Len(w) - (d + 1) + 1 = r - o
  BY <1>1, <1>2
<1>6. ASSUME NEW i \in 1 .. r - o PROVE v[i] = u[i]
  <2>1. (d + 1) + i - 1 \in 1 .. r - b /\ b + ((d + 1) + i - 1) = o + i
    BY <1>1
  <2> QED BY <1>2, <1>3, <1>4, <1>5, <2>1
<1>7. v = u
  <2>1. Len(v) = Len(u) /\ Len(v) = r - o
    BY <1>3, <1>4, <1>5
  <2> QED BY <1>3, <1>4, <1>6, <2>1, SeqEqual
<1> QED BY <1>1, <1>7 DEF IsWindow, u, v, d

(* A complete message after item k has its tag 10 in the buffer, after     *)
(* that item.                                                              *)
LEMMA MessageInBuffer ==
    ASSUME NEW s, NEW b \in Nat, NEW r \in Nat, Received(s, b, r), NEW w, IsWindow(s, b, r, w),
           NEW k \in Nat, NEW o \in Nat, IsOffset(s, k, o), b <= o,
           NEW j \in Nat, NEW e \in Nat, IsOffset(s, j, e), k < j, s[j] \notin Noise, e <= r
    PROVE  \E f \in Nat, i \in Nat : f > o - b /\ Tag10Ended(w, f, i)
<1>1. /\ s \in Streams /\ b <= r /\ r <= Len(FlattenSeq(s)) /\ w = Window(s, b, r)
      /\ j \in 0 .. Len(s) /\ e = Offset(s, j) /\ Len(s) \in Nat
  BY DEF Received, IsWindow, IsOffset
<1>2. j \in 1 .. Len(s) /\ j - 1 \in Nat
  BY <1>1
<1>3. Item(s, j - 1)
  BY <1>1, <1>2 DEF Item
<1>4. PICK p \in Nat : IsOffset(s, j - 1, p)
  BY <1>2, <1>3, OffsetExists
<1>5. o <= p
  <2>1. k <= j - 1
    BY <1>2
  <2> QED BY <1>2, <1>4, <2>1, OffsetsOrdered
<1>6. p = Offset(s, j - 1)
  BY <1>4 DEF IsOffset
<1>7. b <= p
  BY <1>5
<1>8. PICK f \in Nat : f > p - b /\ Tag10Ended(w, f, e - b)
  <2>1. b <= Offset(s, j - 1) /\ Offset(s, j) <= r
    BY <1>1, <1>6, <1>7
  <2>2. \E f \in Nat : f > Offset(s, j - 1) - b /\ Tag10Ended(Window(s, b, r), f, Offset(s, j) - b)
    BY <1>1, <1>2, <2>1, CompleteMessage
  <2> QED BY <1>1, <1>6, <2>2
<1>9. f > o - b
  BY <1>5, <1>8
<1>10. e - b \in Nat
  <2>1. p <= e
    <3>1. j - 1 <= j
      BY <1>2
    <3> QED BY <1>2, <1>4, <3>1, OffsetsOrdered
  <2> QED BY <1>7, <2>1
<1> QED BY <1>8, <1>9, <1>10

(* The shortcut with FinalTag10 misses no complete message.                *)
LEMMA NothingMissed ==
    ASSUME NEW s, NEW b \in Nat, NEW r \in Nat, Received(s, b, r), NEW w, IsWindow(s, b, r, w),
           NEW k \in Nat, NEW o \in Nat, IsOffset(s, k, o), b <= o,
           FinalTag10(w) = 0 \/ FinalTag10(w) <= o - b
    PROVE  Awaited(s, k, r)
<1>1. SUFFICES ASSUME NEW j \in Nat, NEW e \in Nat, IsOffset(s, j, e), k < j, s[j] \notin Noise, e <= r
               PROVE  FALSE
  BY DEF Awaited
<1>2. PICK f \in Nat, i \in Nat : f > o - b /\ Tag10Ended(w, f, i)
  BY <1>1, MessageInBuffer
<1>3. w \in Seq(Byte)
  BY ReceivedBytes
<1>4. FinalTag10(w) # 0
  BY <1>2, <1>3, FinalTag10Is
<1>5. PICK g \in Nat : /\ FinalTag10(w) \in Nat /\ g + 2 < FinalTag10(w)
                       /\ \A h, q \in Nat : Tag10Ended(w, h, q) => h <= g
  BY <1>3, <1>4, FinalTag10Is
<1>6. f <= g
  BY <1>2, <1>5
<1> QED BY <1>2, <1>4, <1>5, <1>6

LEMMA Begins ==
    ASSUME NEW s \in Streams, Clean(s)
    PROVE  Waits(s, 0, 0, <<>>)
<1>1. s \in Seq(Seq(Byte)) /\ Len(s) \in Nat
  BY StreamIs
<1>2. Offset(s, 0) = 0 /\ FlattenSeq(s) \in Seq(Byte)
  BY <1>1, Offsets
<1>3. Received(s, 0, 0) /\ IsOffset(s, 0, 0)
  BY <1>1, <1>2 DEF Received, IsOffset
<1>4. IsWindow(s, 0, 0, <<>>)
  <2>1. SubSeq(FlattenSeq(s), 1, 0) = <<>>
    BY <1>2
  <2> QED BY <2>1 DEF IsWindow, Window
<1>5. FinalTag10(<<>>) = 0
  BY DEF FinalTag10, MINIMUM_REQUIRED_INITIAL_BUFFER_FOR_PARSING
<1>6. Awaited(s, 0, 0)
  BY <1>3, <1>4, <1>5, NothingMissed
<1> QED BY <1>3, <1>4, <1>6 DEF Waits

(* n more bytes                                                            *)
LEMMA Receives ==
    ASSUME NEW s, NEW k \in Nat, NEW r \in Nat, NEW w, Waits(s, k, r, w),
           NEW n \in Nat, r + n <= Len(FlattenSeq(s)),
           NEW joined, joined = w \o SubSeq(FlattenSeq(s), r + 1, r + n)
    PROVE  /\ FinalTag10(joined) = 0 => Waits(s, k, r + n, joined)
           /\ FinalTag10(joined) # 0 => Parses(s, k, r + n, joined, 1, FinalTag10(joined))
<1>1. PICK o \in Nat : Received(s, o, r) /\ IsOffset(s, k, o) /\ IsWindow(s, o, r, w)
  BY DEF Waits
<1>2. Received(s, o, r + n) /\ IsWindow(s, o, r + n, joined)
  BY <1>1, WindowsJoin
<1>3. ASSUME FinalTag10(joined) = 0 PROVE Waits(s, k, r + n, joined)
  <2>1. r + n \in Nat /\ o <= o
    OBVIOUS
  <2>2. Awaited(s, k, r + n)
    BY <1>1, <1>2, <1>3, <2>1, NothingMissed
  <2> QED BY <1>1, <1>2, <2>2 DEF Waits
<1>4. ASSUME FinalTag10(joined) # 0 PROVE Parses(s, k, r + n, joined, 1, FinalTag10(joined))
  <2>1. joined \in Seq(Byte) /\ o <= r + n
    <3>1. r + n \in Nat
      OBVIOUS
    <3> QED BY <1>2, <3>1, ReceivedBytes
  <2>2. FinalTag10(joined) \in Nat
    BY <1>4, <2>1, FinalTag10Is
  <2>3. 1 = (o - o) + 1 /\ 1 <= FinalTag10(joined) /\ o <= o
    BY <1>4, <2>2
  <2>4. Loops(s, k, o, r + n, joined, 1)
    BY <1>1, <1>2, <2>1, <2>3 DEF Loops
  <2> QED BY <1>4, <2>4 DEF Parses
<1> QED BY <1>3, <1>4

(* The loop is at message j, which the stream has between bytes o and e.   *)
Finds(s, k, b, r, w, j, o, e) ==
    /\ Received(s, b, r) /\ IsWindow(s, b, r, w) /\ b <= o /\ o <= r
    /\ 1 <= j /\ IsNext(s, k, j) /\ IsOffset(s, j - 1, o) /\ IsOffset(s, j, e)

LEMMA LoopFinds ==
    ASSUME NEW s, NEW k \in Nat, NEW r \in Nat, NEW w, NEW at, NEW end,
           Parses(s, k, r, w, at, end)
    PROVE  \E b \in Nat, j \in Nat, o \in Nat, e \in Nat :
              /\ Finds(s, k, b, r, w, j, o, e)
              /\ find_begin_string_position(w, at) = (o - b) + 1
              /\ TagLoop(w, (o - b) + 1) = IF e <= r THEN e - b ELSE 0
<1>1. PICK b \in Nat : Loops(s, k, b, r, w, at)
  BY DEF Parses
<1>2. at \in Nat /\ FinalTag10(w) # 0 /\ (at = 1 \/ w[at - 1] = "|")
  BY DEF Parses
<1>3. PICK h \in Nat :
        /\ Received(s, b, r) /\ IsOffset(s, k, h) /\ b <= h /\ h <= r /\ IsWindow(s, b, r, w)
        /\ at = (h - b) + 1 /\ at <= FinalTag10(w)
  BY <1>1 DEF Loops
<1>4. PICK j \in Nat, o \in Nat : IsNext(s, k, j) /\ IsOffset(s, j - 1, o) /\ o + 3 <= r
  BY <1>2, <1>3, MessageAhead
<1>5. find_begin_string_position(w, at) = (o - b) + 1
  BY <1>2, <1>3, <1>4, BeginFound
<1>6. 1 <= j /\ k <= j - 1 /\ j - 1 \in Nat
  <2>1. k + 1 <= j
    BY <1>4 DEF IsNext
  <2> QED BY <2>1
<1>7. b <= o /\ o <= r
  <2>1. h <= o
    BY <1>3, <1>4, <1>6, OffsetsOrdered
  <2> QED BY <1>3, <1>4, <2>1
<1>8. Item(s, j)
  <2>1. j <= Len(s) /\ Len(s) \in Nat
    BY <1>3, <1>4 DEF IsNext, Received
  <2> QED BY <2>1 DEF Item
<1>9. PICK e \in Nat : IsOffset(s, j, e)
  BY <1>3, <1>8, OffsetExists
<1>10. TagLoop(w, (o - b) + 1) = IF e <= r THEN e - b ELSE 0
  <2>1. /\ s \in Streams /\ b <= r /\ r <= Len(FlattenSeq(s)) /\ w = Window(s, b, r)
        /\ o = Offset(s, j - 1) /\ e = Offset(s, j) /\ Len(s) \in Nat
    BY <1>3, <1>4, <1>9 DEF Received, IsWindow, IsOffset
  <2>2. s[j] \notin Noise
    BY <1>4 DEF IsNext
  <2>3. j \in 1 .. Len(s)
    BY <1>6, <1>8, <2>1 DEF Item
  <2>4. b <= Offset(s, j - 1) /\ Offset(s, j - 1) <= r
    BY <1>7, <2>1
  <2>5. TagLoop(Window(s, b, r), (Offset(s, j - 1) - b) + 1) =
              IF Offset(s, j) <= r THEN Offset(s, j) - b ELSE 0
    BY <2>1, <2>2, <2>3, <2>4, TagsFollowed
  <2> QED BY <2>1, <2>5, Zenon
<1>11. Finds(s, k, b, r, w, j, o, e)
  BY <1>3, <1>4, <1>6, <1>7, <1>9 DEF Finds
<1> QED BY <1>5, <1>10, <1>11

(* What the loop skips before the message is noise.                        *)
LEMMA LoopSkipsNoise ==
    ASSUME NEW s, NEW k \in Nat, NEW r \in Nat, NEW w,
           NEW b \in Nat, NEW j \in Nat, NEW o \in Nat, NEW e \in Nat,
           Finds(s, k, b, r, w, j, o, e)
    PROVE  SentUpTo(s, j - 1) = SentUpTo(s, k)
<1>1. Received(s, b, r) /\ IsNext(s, k, j)
  BY DEF Finds
<1>2. s \in Seq(Seq(Byte)) /\ Len(s) \in Nat
  BY <1>1, StreamIs DEF Received
<1>3. k + 1 <= j /\ j <= Len(s) /\ \A i \in k + 1 .. j - 1 : s[i] \in Noise
  BY <1>1 DEF IsNext
<1>4. k \in 0 .. Len(s) /\ j - 1 \in k .. Len(s)
  BY <1>2, <1>3
<1> QED BY <1>2, <1>3, <1>4, NoiseAddsNothing

(* The message is not complete: it is what the connection waits for.       *)
LEMMA LoopStops ==
    ASSUME NEW s, NEW k \in Nat, NEW r \in Nat, NEW w,
           NEW b \in Nat, NEW j \in Nat, NEW o \in Nat, NEW e \in Nat,
           Finds(s, k, b, r, w, j, o, e), r < e
    PROVE  j - 1 \in Nat /\ Waits(s, j - 1, r, SubSeq(w, (o - b) + 1, Len(w)))
<1>1. /\ Received(s, b, r) /\ IsWindow(s, b, r, w) /\ b <= o /\ o <= r
      /\ 1 <= j /\ IsOffset(s, j - 1, o) /\ IsOffset(s, j, e)
  BY DEF Finds
<1>2. j - 1 \in Nat
  BY <1>1
<1>3. Received(s, o, r) /\ IsWindow(s, o, r, SubSeq(w, (o - b) + 1, Len(w)))
  BY <1>1, WindowTail
<1>4. Awaited(s, j - 1, r)
  <2>1. SUFFICES ASSUME NEW i \in Nat, NEW p \in Nat, IsOffset(s, i, p), j - 1 < i PROVE r < p
    BY DEF Awaited
  <2>2. j <= i
    BY <2>1
  <2>3. e <= p
    BY <1>1, <2>1, <2>2, OffsetsOrdered
  <2> QED BY <2>3
<1> QED BY <1>1, <1>2, <1>3, <1>4 DEF Waits

(* The message is complete: it is what was sent.                           *)
LEMMA LoopTakes ==
    ASSUME NEW s, NEW k \in Nat, NEW r \in Nat, NEW w,
           NEW b \in Nat, NEW j \in Nat, NEW o \in Nat, NEW e \in Nat,
           Finds(s, k, b, r, w, j, o, e), e <= r
    PROVE  /\ SubSeq(w, (o - b) + 1, e - b) = s[j]
           /\ SentUpTo(s, j) = Append(SentUpTo(s, k), s[j])
           /\ Found(s, j, b, r, w, e - b)
<1> DEFINE m == s[j]
           d == o - b
           v == SubSeq(w, d + 1, e - b)
<1>1. /\ Received(s, b, r) /\ IsWindow(s, b, r, w) /\ b <= o /\ o <= r
      /\ 1 <= j /\ IsNext(s, k, j) /\ IsOffset(s, j - 1, o) /\ IsOffset(s, j, e)
  BY DEF Finds
<1>2. s \in Streams /\ s \in Seq(Seq(Byte)) /\ Len(s) \in Nat
  BY <1>1, StreamIs DEF Received
<1>3. j <= Len(s) /\ m \notin Noise
  BY <1>1 DEF IsNext
<1>4. j \in 1 .. Len(s) /\ Item(s, j)
  BY <1>1, <1>2, <1>3 DEF Item
<1>5. IsMessage(m) /\ o = Offset(s, j - 1) /\ e = Offset(s, j)
  BY <1>1, <1>2, <1>3, <1>4, StreamIs DEF IsOffset
<1>6. e = o + Len(m)
  BY <1>2, <1>4, <1>5, Offsets
<1>7. SentUpTo(s, j) = Append(SentUpTo(s, k), m)
  <2>1. SentUpTo(s, j - 1) = SentUpTo(s, k)
    BY LoopSkipsNoise
  <2>2. SentUpTo(s, j) = IF s[j] \in Noise THEN SentUpTo(s, j - 1)
                         ELSE Append(SentUpTo(s, j - 1), s[j])
    BY <1>2, <1>4, SentStep
  <2> QED BY <1>3, <2>1, <2>2
<1>8. \A i \in 1 .. Len(m) : o + i <= r => w[d + i] = m[i]
  BY <1>1, <1>4, ReceivedItem
<1>9. m \in Seq(Byte) /\ Len(m) \in Nat /\ Len(m) >= 4 /\ m[Len(m)] = "|"
  <2> HIDE DEF m
  <2>1. m \in Seq(Byte) /\ Len(m) \in Nat /\ Len(m) >= 4
    BY <1>5, MessageTag10
  <2>2. PICK f \in Nat : f >= 1 /\ Tag10Field(m, 1, f, Len(m))
    BY <1>5, MessageTag10
  <2>3. m[Len(m)] = "|"
    BY <2>2 DEF Tag10Field, Field
  <2> QED BY <2>1, <2>3
<1>10. w \in Seq(Byte) /\ Len(w) = r - b
  BY <1>1, ReceivedBytes
<1> HIDE DEF m
<1>11. d \in Nat /\ e - b = d + Len(m) /\ d + Len(m) <= Len(w) /\ b <= e
  BY <1>1, <1>6, <1>9, <1>10
<1>12. \A i \in 1 .. Len(m) : w[d + i] = m[i]
  <2> TAKE i \in 1 .. Len(m)
  <2>1. o + i <= r
    BY <1>6, <1>9
  <2> QED BY <1>8, <2>1
<1>13. v = m
  <2> HIDE DEF d
  <2>1. /\ v \in Seq(Byte) /\ Len(v) = (d + Len(m)) - (d + 1) + 1
        /\ \A i \in 1 .. (d + Len(m)) - (d + 1) + 1 : v[i] = w[(d + 1) + i - 1]
    <3>1. d + 1 \in Nat /\ d + Len(m) \in Nat /\ d + 1 >= 1 /\ d + 1 <= (d + Len(m)) + 1
      BY <1>9, <1>11
    <3> QED BY <1>10, <1>11, <3>1, WindowIs
  <2>2. (d + Len(m)) - (d + 1) + 1 = Len(m)
    BY <1>9, <1>11
  <2> HIDE DEF v
  <2>3. ASSUME NEW i \in 1 .. Len(m) PROVE v[i] = m[i]
    <3>1. (d + 1) + i - 1 = d + i
      BY <1>9, <1>11
    <3>2. v[i] = w[d + i]
      BY <2>1, <2>2, <3>1
    <3> QED BY <1>12, <3>2
  <2> QED BY <1>9, <2>1, <2>2, <2>3, SeqEqual
<1>14. Found(s, j, b, r, w, e - b)
  <2>1. w[e - b] = "|"
    <3>1. Len(m) \in 1 .. Len(m)
      BY <1>9
    <3>2. w[d + Len(m)] = "|"
      BY <1>9, <1>12, <3>1
    <3> QED BY <1>11, <3>2
  <2> QED BY <1>1, <1>11, <2>1 DEF Found
<1> QED BY <1>7, <1>13, <1>14 DEF m, v, d

(* After a message: the three ways of Continue.                            *)
LEMMA LoopContinues ==
    ASSUME NEW s, NEW k, NEW b \in Nat, NEW r \in Nat, NEW w, NEW end,
           Found(s, k, b, r, w, end), FinalTag10(w) # 0
    PROVE  /\ k \in Nat
           /\ end = Len(w) => Waits(s, k, r, <<>>)
           /\ end + 1 > FinalTag10(w) => Waits(s, k, r, SubSeq(w, end + 1, Len(w)))
           /\ end + 1 <= FinalTag10(w) => Parses(s, k, r, w, end + 1, FinalTag10(w))
<1>1. k \in Nat
  BY DEF Found
<1>2. PICK e \in Nat :
        /\ Received(s, b, r) /\ IsOffset(s, k, e) /\ b <= e /\ e <= r /\ IsWindow(s, b, r, w)
        /\ end = e - b /\ w[end] = "|"
  BY DEF Found
<1>3. w \in Seq(Byte) /\ Len(w) = r - b
  BY <1>2, ReceivedBytes
<1>4. PICK last \in Nat : last = FinalTag10(w) /\ last >= 1
  <2>1. FinalTag10(w) \in Nat
    BY <1>3, FinalTag10Is
  <2> QED BY <2>1
<1>5. Received(s, e, r) /\ IsWindow(s, e, r, SubSeq(w, end + 1, Len(w)))
  BY <1>2, WindowTail
<1>6. end \in Nat /\ end <= Len(w)
  BY <1>2, <1>3
<1>7. ASSUME end = Len(w) PROVE Waits(s, k, r, <<>>)
  <2>1. SubSeq(w, end + 1, Len(w)) = <<>>
    BY <1>3, <1>6, <1>7
  <2>2. IsWindow(s, e, r, <<>>)
    BY <1>5, <2>1
  <2>3. FinalTag10(<<>>) = 0
    BY DEF FinalTag10, MINIMUM_REQUIRED_INITIAL_BUFFER_FOR_PARSING
  <2>4. Awaited(s, k, r)
    <3>1. e <= e
      OBVIOUS
    <3> QED BY <1>1, <1>2, <1>5, <2>2, <2>3, <3>1, NothingMissed
  <2> QED BY <1>2, <1>5, <2>2, <2>4 DEF Waits
<1>8. ASSUME end + 1 > last PROVE Waits(s, k, r, SubSeq(w, end + 1, Len(w)))
  <2>1. FinalTag10(w) <= e - b
    BY <1>2, <1>4, <1>6, <1>8
  <2>2. Awaited(s, k, r)
    BY <1>1, <1>2, <2>1, NothingMissed
  <2> QED BY <1>2, <1>5, <2>2 DEF Waits
<1>9. ASSUME end + 1 <= last PROVE Parses(s, k, r, w, end + 1, FinalTag10(w))
  <2>1. end + 1 = (e - b) + 1 /\ end + 1 \in Nat /\ (end + 1) - 1 = end
    BY <1>2, <1>6
  <2>2. Loops(s, k, b, r, w, end + 1)
    BY <1>2, <1>4, <1>9, <2>1 DEF Loops
  <2>3. w[(end + 1) - 1] = "|"
    BY <1>2, <2>1
  <2> QED BY <2>1, <2>2, <2>3 DEF Parses
<1> QED BY <1>1, <1>4, <1>7, <1>8, <1>9

-----------------------------------------------------------------------------
(* The invariant                                                           *)

FrameTypes ==
    /\ stream \in Streams
    /\ received \in Nat /\ received <= Len(FlattenSeq(stream))
    /\ pc \in {"idle", "parsing", "closed", "overrun"}
    /\ pc # "parsing" => buffer = <<>>
    /\ pc = "closed" => incomplete = <<>>

(* Up to item k of the stream everything was found and nothing else.       *)
AtItem(k) ==
    /\ delivered = SentUpTo(stream, k) /\ k \in Nat /\ Item(stream, k)
    /\ pc = "idle" => Waits(stream, k, received, incomplete)
    /\ pc = "parsing" => Parses(stream, k, received, buffer, read, final)

FrameInv ==
    /\ FrameTypes
    /\ Clean(stream) => \E k : AtItem(k)

LEMMA FrameInit == Init => FrameInv
<1> SUFFICES ASSUME Init PROVE FrameInv
  OBVIOUS
<1>1. stream \in Streams /\ received = 0 /\ incomplete = <<>> /\ pc = "idle" /\ buffer = <<>> /\ delivered = <<>>
  BY DEF Init
<1>2. stream \in Seq(Seq(Byte)) /\ Len(stream) \in Nat
  BY <1>1, StreamIs
<1>3. FlattenSeq(stream) \in Seq(Byte) /\ SentUpTo(stream, 0) = <<>>
  BY <1>2, Offsets, SentSteps
<1>4. FrameTypes
  BY <1>1, <1>3 DEF FrameTypes
<1>5. ASSUME Clean(stream) PROVE AtItem(0)
  <2>1. Waits(stream, 0, 0, <<>>)
    BY <1>1, <1>5, Begins
  <2> QED BY <1>1, <1>2, <1>3, <2>1 DEF AtItem, Item
<1> QED BY <1>4, <1>5 DEF FrameInv

LEMMA FrameReceive ==
    ASSUME FrameInv, NEW n \in 1 .. receive_size, on_data_ready(n)
    PROVE  FrameInv'
<1> DEFINE B == FlattenSeq(stream)
           joined == incomplete \o SubSeq(B, received + 1, received + n)
<1>1. /\ pc = "idle" /\ received + n <= Len(B) /\ received' = received + n
      /\ stream' = stream /\ delivered' = delivered
      /\ \/ /\ pc' = "overrun" /\ buffer' = buffer
         \/ /\ FinalTag10(joined) = 0
            /\ incomplete' = joined
            /\ pc' = pc /\ buffer' = buffer
         \/ /\ FinalTag10(joined) # 0
            /\ pc' = "parsing"
            /\ buffer' = joined /\ read' = 1 /\ final' = FinalTag10(joined)
            /\ incomplete' = incomplete
  BY DEF on_data_ready, Bytes, parsing
<1>2. n \in Nat /\ received \in Nat
  BY ReceiveAssumption DEF FrameInv, FrameTypes
<1>3. FrameTypes'
  <2> HIDE DEF joined
  <2>1. received + n \in Nat
    BY <1>2
  <2> QED BY <1>1, <2>1 DEF FrameInv, FrameTypes
<1>4. ASSUME Clean(stream) PROVE \E k : AtItem(k)'
  <2>1. PICK k : AtItem(k)
    BY <1>4 DEF FrameInv
  <2>2. k \in Nat /\ Waits(stream, k, received, incomplete) /\ Item(stream, k) /\ delivered = SentUpTo(stream, k)
    BY <1>1, <2>1 DEF AtItem
  <2>3. /\ FinalTag10(joined) = 0 => Waits(stream, k, received + n, joined)
        /\ FinalTag10(joined) # 0 =>
              Parses(stream, k, received + n, joined, 1, FinalTag10(joined))
    <3> DEFINE j == joined
    <3>1. received + n <= Len(FlattenSeq(stream)) /\ j = incomplete \o SubSeq(FlattenSeq(stream), received + 1, received + n)
      BY <1>1
    <3> HIDE DEF j
    <3>2. /\ FinalTag10(j) = 0 => Waits(stream, k, received + n, j)
          /\ FinalTag10(j) # 0 => Parses(stream, k, received + n, j, 1, FinalTag10(j))
      BY <1>2, <2>2, <3>1, Receives
    <3> QED BY <3>2 DEF j
  <2> HIDE DEF joined
  <2>4. AtItem(k)'
    BY <1>1, <2>2, <2>3 DEF AtItem
  <2> QED BY <2>4
<1>5. stream' = stream
  BY <1>1
<1> QED BY <1>3, <1>4, <1>5 DEF FrameInv, Clean

LEMMA MessageNotEmpty ==
    ASSUME NEW s, NEW k \in Nat, NEW r \in Nat, NEW w,
           NEW b \in Nat, NEW j \in Nat, NEW o \in Nat, NEW e \in Nat,
           Finds(s, k, b, r, w, j, o, e)
    PROVE  o < e
<1>1. /\ s \in Streams /\ 1 <= j /\ j <= Len(s) /\ s[j] \notin Noise
      /\ o = Offset(s, j - 1) /\ e = Offset(s, j) /\ Len(s) \in Nat
  BY DEF Finds, Received, IsNext, IsOffset
<1>2. j \in 1 .. Len(s) /\ s \in Seq(Seq(Byte)) /\ IsMessage(s[j])
  BY <1>1, StreamIs
<1>3. Len(s[j]) \in Nat /\ Len(s[j]) >= 4
  BY <1>2, MessageTag10
<1>4. e = o + Len(s[j])
  BY <1>1, <1>2, Offsets
<1> QED BY <1>3, <1>4

(* On a clean stream the loop always finds the beginning of a message.     *)
LEMMA FrameNoBegin ==
    ASSUME FrameInv, NoBeginString
    PROVE  FrameInv'
<1>1. /\ pc = "parsing" /\ find_begin_string_position(buffer, read) = 0
      /\ pc' = "idle" /\ buffer' = <<>> /\ stream' = stream /\ received' = received
  BY DEF NoBeginString, NotParsing, connection
<1>2. FrameTypes'
  BY <1>1 DEF FrameInv, FrameTypes
<1>3. ASSUME Clean(stream) PROVE FALSE
  <2>1. PICK k : AtItem(k)
    BY <1>3 DEF FrameInv
  <2>2. k \in Nat /\ received \in Nat /\ Parses(stream, k, received, buffer, read, final)
    BY <1>1, <2>1 DEF AtItem, FrameInv, FrameTypes
  <2>3. PICK b \in Nat, j \in Nat, o \in Nat, e \in Nat :
          /\ Finds(stream, k, b, received, buffer, j, o, e)
          /\ find_begin_string_position(buffer, read) = (o - b) + 1
    BY <2>2, LoopFinds
  <2>4. b <= o
    BY <2>3 DEF Finds
  <2> QED BY <1>1, <2>3, <2>4
<1> QED BY <1>1, <1>2, <1>3 DEF FrameInv, Clean

LEMMA FrameIncomplete ==
    ASSUME FrameInv, MessageIncomplete
    PROVE  FrameInv'
<1> DEFINE begin == find_begin_string_position(buffer, read)
<1>1. /\ pc = "parsing" /\ TagLoop(buffer, begin) = 0
      /\ incomplete' = SubSeq(buffer, begin, Len(buffer)) /\ pc' = "idle" /\ buffer' = <<>>
      /\ stream' = stream /\ received' = received /\ delivered' = delivered
  BY DEF MessageIncomplete, set_incomplete_buffer, NotParsing, connection
<1>2. FrameTypes'
  BY <1>1 DEF FrameInv, FrameTypes
<1>3. ASSUME Clean(stream) PROVE \E k : AtItem(k)'
  <2>1. PICK k : AtItem(k)
    BY <1>3 DEF FrameInv
  <2>2. /\ k \in Nat /\ received \in Nat /\ Parses(stream, k, received, buffer, read, final)
        /\ delivered = SentUpTo(stream, k)
    BY <1>1, <2>1 DEF AtItem, FrameInv, FrameTypes
  <2>3. PICK b \in Nat, j \in Nat, o \in Nat, e \in Nat :
          /\ Finds(stream, k, b, received, buffer, j, o, e)
          /\ begin = (o - b) + 1
          /\ TagLoop(buffer, (o - b) + 1) = IF e <= received THEN e - b ELSE 0
    BY <2>2, LoopFinds
  <2> HIDE DEF begin
  <2>4. IsOffset(stream, j - 1, o) /\ IsOffset(stream, j, e) /\ b <= o /\ 1 <= j /\ IsNext(stream, k, j)
        /\ Received(stream, b, received)
    BY <2>3 DEF Finds
  <2>5. ~(e <= received)
    <3>1. ASSUME e <= received PROVE FALSE
      <4>1. e - b = 0
        BY <1>1, <2>3, <3>1
      <4>2. o < e
        BY <2>2, <2>3, <3>1, MessageNotEmpty
      <4> QED BY <2>4, <4>1, <4>2
    <3> QED BY <3>1
  <2>6. received < e
    BY <2>2, <2>5
  <2>7. j - 1 \in Nat /\ Waits(stream, j - 1, received, incomplete')
    <3>1. j - 1 \in Nat /\ Waits(stream, j - 1, received, SubSeq(buffer, (o - b) + 1, Len(buffer)))
      BY <2>2, <2>3, <2>6, LoopStops
    <3> QED BY <1>1, <2>3, <3>1
  <2>8. SentUpTo(stream, j - 1) = SentUpTo(stream, k)
    BY <2>2, <2>3, LoopSkipsNoise
  <2>9. Item(stream, j - 1)
    BY <2>4 DEF IsOffset, Item
  <2>10. AtItem(j - 1)'
    BY <1>1, <2>2, <2>7, <2>8, <2>9 DEF AtItem
  <2> QED BY <2>10
<1> QED BY <1>1, <1>2, <1>3 DEF FrameInv, Clean

(* What process_incoming_throttling does to the loop.                      *)
LEMMA LoopGoesOn ==
    ASSUME NEW end, process_incoming_throttling(end)
    PROVE  \/ /\ end = Len(buffer) /\ incomplete' = <<>> /\ pc' = "idle" /\ buffer' = <<>>
           \/ /\ end + 1 > final /\ incomplete' = SubSeq(buffer, end + 1, Len(buffer))
              /\ pc' = "idle" /\ buffer' = <<>>
           \/ /\ end + 1 <= final /\ read' = end + 1 /\ incomplete' = incomplete
              /\ pc' = pc /\ buffer' = buffer /\ final' = final
           \/ pc' = "closed" /\ incomplete' = <<>> /\ buffer' = <<>>
<1>1. Continue(end) \/ close
  BY Zenon DEF process_incoming_throttling
<1>2. CASE Continue(end)
  BY <1>2 DEF Continue, set_incomplete_buffer, NotParsing
<1>3. CASE close
  BY <1>3 DEF close, NotParsing
<1> QED BY <1>1, <1>2, <1>3

LEMMA FrameMessage ==
    ASSUME FrameInv, ProcessMessage
    PROVE  FrameInv'
<1> DEFINE begin == find_begin_string_position(buffer, read)
           end == TagLoop(buffer, begin)
<1>1. /\ pc = "parsing" /\ end # 0
      /\ delivered' = Append(delivered, SubSeq(buffer, begin, end))
      /\ stream' = stream /\ received' = received
  BY DEF ProcessMessage, AtMessage, MessageBegin, connection
<1>2. process_incoming_throttling(end)
  BY DEF ProcessMessage, MessageBegin
<1>3. \/ /\ end = Len(buffer) /\ incomplete' = <<>> /\ pc' = "idle" /\ buffer' = <<>>
      \/ /\ end + 1 > final /\ incomplete' = SubSeq(buffer, end + 1, Len(buffer))
         /\ pc' = "idle" /\ buffer' = <<>>
      \/ /\ end + 1 <= final /\ read' = end + 1 /\ incomplete' = incomplete
         /\ pc' = pc /\ buffer' = buffer /\ final' = final
      \/ pc' = "closed" /\ incomplete' = <<>> /\ buffer' = <<>>
  <2> HIDE DEF end
  <2> QED BY <1>2, LoopGoesOn
<1> HIDE DEF end, begin
<1>4. FrameTypes'
  BY <1>1, <1>3 DEF FrameInv, FrameTypes
<1>5. ASSUME Clean(stream) PROVE \E k : AtItem(k)'
  <2>1. PICK k : AtItem(k)
    BY <1>5 DEF FrameInv
  <2>2. /\ k \in Nat /\ received \in Nat /\ Parses(stream, k, received, buffer, read, final)
        /\ delivered = SentUpTo(stream, k)
    BY <1>1, <2>1 DEF AtItem, FrameInv, FrameTypes
  <2>3. PICK b \in Nat, j \in Nat, o \in Nat, e \in Nat :
          /\ Finds(stream, k, b, received, buffer, j, o, e)
          /\ begin = (o - b) + 1
          /\ TagLoop(buffer, (o - b) + 1) = IF e <= received THEN e - b ELSE 0
    BY <2>2, LoopFinds DEF begin
  <2>4. e <= received /\ end = e - b
    BY <1>1, <2>3 DEF end
  <2>5. /\ SubSeq(buffer, (o - b) + 1, e - b) = stream[j]
        /\ SentUpTo(stream, j) = Append(SentUpTo(stream, k), stream[j])
        /\ Found(stream, j, b, received, buffer, e - b)
    BY <2>2, <2>3, <2>4, LoopTakes
  <2>6. delivered' = SentUpTo(stream, j)
    BY <1>1, <2>2, <2>3, <2>4, <2>5
  <2>7. Found(stream, j, b, received, buffer, end) /\ FinalTag10(buffer) # 0 /\ final = FinalTag10(buffer)
    BY <2>2, <2>4, <2>5 DEF Parses
  <2>8. /\ end = Len(buffer) => Waits(stream, j, received, <<>>)
        /\ end + 1 > final => Waits(stream, j, received, SubSeq(buffer, end + 1, Len(buffer)))
        /\ end + 1 <= final => Parses(stream, j, received, buffer, end + 1, final)
    BY <2>2, <2>7, LoopContinues
  <2>9. Item(stream, j)
    BY <2>3 DEF Finds, IsOffset, Item
  <2>10. AtItem(j)'
    BY <1>1, <1>3, <2>6, <2>8, <2>9 DEF AtItem
  <2> QED BY <2>10
<1> QED BY <1>1, <1>4, <1>5 DEF FrameInv, Clean

LEMMA FrameLost ==
    ASSUME FrameInv, ConnectionLost
    PROVE  FrameInv'
<1>1. /\ pc' = "closed" /\ incomplete' = <<>> /\ buffer' = <<>>
      /\ stream' = stream /\ received' = received /\ delivered' = delivered
  BY DEF ConnectionLost, close, NotParsing, connection
<1>2. FrameTypes'
  BY <1>1 DEF FrameInv, FrameTypes
<1>3. ASSUME Clean(stream) PROVE \E k : AtItem(k)'
  <2>1. PICK k : AtItem(k)
    BY <1>3 DEF FrameInv
  <2>2. AtItem(k)'
    BY <1>1, <2>1 DEF AtItem
  <2> QED BY <2>2
<1> QED BY <1>1, <1>2, <1>3 DEF FrameInv, Clean

LEMMA FrameConnect ==
    ASSUME FrameInv, Connect
    PROVE  FrameInv'
<1>1. /\ pc = "closed" /\ stream' \in Streams /\ received' = 0
      /\ pc' = "idle" /\ delivered' = <<>> /\ incomplete' = incomplete /\ buffer' = buffer
  BY DEF Connect, parsing
<1>2. incomplete = <<>> /\ buffer = <<>>
  BY <1>1 DEF FrameInv, FrameTypes
<1>3. stream' \in Seq(Seq(Byte)) /\ Len(stream') \in Nat
  BY <1>1, StreamIs
<1>4. FlattenSeq(stream') \in Seq(Byte) /\ SentUpTo(stream', 0) = <<>>
  <2> DEFINE s == stream'
  <2>1. s \in Seq(Seq(Byte))
    BY <1>3
  <2> HIDE DEF s
  <2>2. FlattenSeq(s) \in Seq(Byte) /\ SentUpTo(s, 0) = <<>>
    BY <2>1, Offsets, SentSteps
  <2> QED BY <2>2 DEF s
<1>5. FrameTypes'
  BY <1>1, <1>2, <1>4 DEF FrameTypes
<1>6. ASSUME Clean(stream') PROVE \E k : AtItem(k)'
  <2>1. Waits(stream', 0, 0, <<>>)
    BY <1>1, <1>6, Begins
  <2>2. AtItem(0)'
    BY <1>1, <1>2, <1>3, <1>4, <2>1 DEF AtItem, Item
  <2> QED BY <2>2
<1> QED BY <1>5, <1>6 DEF FrameInv, Clean

LEMMA FrameStep == FrameInv /\ [Next]_vars => FrameInv'
<1> SUFFICES ASSUME FrameInv, [Next]_vars PROVE FrameInv'
  OBVIOUS
<1>1. CASE \E n \in 1 .. receive_size : on_data_ready(n)
  BY <1>1, FrameReceive
<1>2. CASE NoBeginString
  BY <1>2, FrameNoBegin
<1>3. CASE MessageIncomplete
  BY <1>3, FrameIncomplete
<1>4. CASE ProcessMessage
  BY <1>4, FrameMessage
<1>5. CASE ConnectionLost
  BY <1>5, FrameLost
<1>6. CASE Connect
  BY <1>6, FrameConnect
<1>7. CASE Tick \/ UNCHANGED vars
  <2>1. UNCHANGED <<stream, received, incomplete, pc, buffer, read, final, delivered>>
    BY <1>7 DEF Tick, vars, connection, parsing
  <2>2. FrameTypes'
    BY <2>1 DEF FrameInv, FrameTypes
  <2>3. ASSUME Clean(stream) PROVE \E k : AtItem(k)'
    <3>1. PICK k : AtItem(k)
      BY <2>3 DEF FrameInv
    <3>2. AtItem(k)'
      BY <2>1, <3>1 DEF AtItem
    <3> QED BY <3>2
  <2> QED BY <2>1, <2>2, <2>3 DEF FrameInv, Clean
<1> QED BY <1>1, <1>2, <1>3, <1>4, <1>5, <1>6, <1>7 DEF Next

(* process_rx_buffer and the incomplete buffer always stand between two    *)
(* items of the stream: what was delivered is what was sent up to there,   *)
(* and the buffer is the stream from there on.                             *)
THEOREM FrameInvariance == Spec => []FrameInv
<1>1. Init => FrameInv
  BY FrameInit
<1>2. FrameInv /\ [Next]_vars => FrameInv'
  BY FrameStep
<1> QED BY <1>1, <1>2, PTL DEF Spec

-----------------------------------------------------------------------------
(* The properties                                                          *)

(* While a connection waits after item k, the complete messages are those  *)
(* up to item k.                                                           *)
LEMMA CompleteUpTo ==
    ASSUME NEW s, NEW k \in Nat, NEW r \in Nat, NEW w, Waits(s, k, r, w),
           NEW i \in 1 .. Len(s), s[i] \notin Noise
    PROVE  Offset(s, i) <= r <=> i <= k
<1>1. PICK o \in Nat : Received(s, o, r) /\ IsOffset(s, k, o) /\ Awaited(s, k, r)
  BY DEF Waits
<1>2. Len(s) \in Nat /\ o <= r
  BY <1>1 DEF Received
<1>3. i \in Nat /\ Item(s, i)
  BY <1>2 DEF Item
<1>4. PICK e \in Nat : IsOffset(s, i, e)
  BY <1>1, <1>3, OffsetExists
<1>5. e = Offset(s, i)
  BY <1>4 DEF IsOffset
<1>6. i <= k => e <= o
  BY <1>1, <1>3, <1>4, OffsetsOrdered
<1>7. k < i => r < e
  BY <1>1, <1>3, <1>4 DEF Awaited
<1>8. e <= r <=> i <= k
  BY <1>2, <1>3, <1>6, <1>7
<1> QED BY <1>5, <1>8

LEMMA AllDelivered ==
    ASSUME FrameInv, Clean(stream)
    PROVE  /\ IsPrefix(delivered, Sent)
           /\ pc = "idle" => Len(delivered) = Cardinality(Complete)
<1>1. PICK k : AtItem(k)
  BY DEF FrameInv
<1>2. /\ delivered = SentUpTo(stream, k) /\ k \in Nat /\ k \in 0 .. Len(stream)
      /\ stream \in Streams /\ received \in Nat
  BY <1>1 DEF AtItem, Item, FrameInv, FrameTypes
<1>3. stream \in Seq(Seq(Byte)) /\ Len(stream) \in Nat
  BY <1>2, StreamIs
<1>4. IsPrefix(delivered, Sent)
  BY <1>2, <1>3, SentPrefix DEF Sent
<1>5. ASSUME pc = "idle" PROVE Len(delivered) = Cardinality(Complete)
  <2> DEFINE C == {i \in 1 .. k : stream[i] \notin Noise}
             D == {i \in 1 .. Len(stream) : stream[i] \notin Noise /\ Offset(stream, i) <= received}
  <2>1. Waits(stream, k, received, incomplete)
    BY <1>1, <1>5 DEF AtItem
  <2>2. Complete = D
    BY DEF Complete, BytesUpTo, Offset, Flat
  <2>3. ASSUME NEW i \in 1 .. Len(stream), stream[i] \notin Noise
        PROVE  Offset(stream, i) <= received <=> i <= k
    BY <1>2, <2>1, <2>3, CompleteUpTo
  <2>4. C = D
    BY <1>2, <1>3, <2>3
  <2>5. Len(SentUpTo(stream, k)) = Cardinality(C)
    BY <1>2, <1>3, SentCounts
  <2> HIDE DEF C, D
  <2> QED BY <1>2, <2>2, <2>4, <2>5
<1> QED BY <1>4, <1>5

(* Wherever TCP cuts a stream, and whatever an earlier connection left     *)
(* behind, process_rx_buffer of fix_server.h and fix_client.h delivers     *)
(* exactly the messages of the stream, in order, and goes back to waiting  *)
(* with none of them left in the buffer: for messages and noise of every   *)
(* length, every receive size and every stream without misleading noise,   *)
(* up to an overrun of the incomplete buffer (OnlyLargeMessagesOverrun).   *)
THEOREM FramingIsExact == Spec => []FramesExact
<1>1. FrameInv => FramesExact
  BY AllDelivered DEF FramesExact, Clean
<1> QED BY <1>1, FrameInvariance, PTL

-----------------------------------------------------------------------------
(* The room in the incomplete buffer                                       *)

(* Items i + 1 to j of a stream: a message and the noise before it, or     *)
(* noise at the end of the stream.                                         *)
Stretch(s, i, j) ==
    /\ i \in 0 .. Len(s) /\ j \in 0 .. Len(s) /\ i < j
    /\ \A k \in i + 1 .. j - 1 : s[k] \in Noise

(* A connection that waits has received less than the next message and the *)
(* noise before it.                                                        *)
LEMMA WaitingFits ==
    ASSUME NEW s, NEW k \in Nat, NEW r \in Nat, NEW w, Waits(s, k, r, w)
    PROVE  /\ w \in Seq(Byte)
           /\ \/ Len(w) = 0
              \/ \E j \in Nat, o \in Nat, e \in Nat :
                    Stretch(s, k, j) /\ IsOffset(s, k, o) /\ IsOffset(s, j, e) /\ Len(w) <= e - o
<1>1. PICK o \in Nat : Received(s, o, r) /\ IsOffset(s, k, o) /\ IsWindow(s, o, r, w) /\ Awaited(s, k, r)
  BY DEF Waits
<1>2. w \in Seq(Byte) /\ Len(w) = r - o /\ o <= r
  BY <1>1, ReceivedBytes
<1>3. /\ s \in Streams /\ s \in Seq(Seq(Byte)) /\ Len(s) \in Nat
      /\ r <= Len(FlattenSeq(s)) /\ k \in 0 .. Len(s) /\ o = Offset(s, k)
  BY <1>1, StreamIs DEF Received, IsOffset
<1>4. PICK z \in Nat : IsOffset(s, Len(s), z) /\ r <= z
  <2>1. Offset(s, Len(s)) = Len(FlattenSeq(s)) /\ Len(FlattenSeq(s)) \in Nat
    BY <1>3, Offsets
  <2>2. Len(s) \in 0 .. Len(s)
    BY <1>3
  <2> QED BY <1>3, <2>1, <2>2 DEF IsOffset
<1>5. CASE k = Len(s)
  <2>1. z = o
    BY <1>3, <1>4, <1>5 DEF IsOffset
  <2>2. Len(w) = 0
    BY <1>2, <1>4, <2>1
  <2> QED BY <1>2, <2>2
<1>6. CASE k # Len(s) /\ \A i \in k + 1 .. Len(s) : s[i] \in Noise
  <2>1. Stretch(s, k, Len(s))
    BY <1>3, <1>6 DEF Stretch
  <2>2. Len(w) <= z - o
    BY <1>2, <1>4
  <2> QED BY <1>1, <1>2, <1>3, <1>4, <2>1, <2>2
<1>7. CASE k # Len(s) /\ ~ \A i \in k + 1 .. Len(s) : s[i] \in Noise
  <2> DEFINE S == {i \in k + 1 .. Len(s) : s[i] \notin Noise}
  <2>1. S \subseteq Nat /\ S # {}
    <3>1. \E i \in k + 1 .. Len(s) : s[i] \notin Noise
      BY <1>7
    <3>2. S # {}
      BY <3>1
    <3>3. \A i \in k + 1 .. Len(s) : i \in Nat
      BY <1>3
    <3>4. S \subseteq Nat
      BY <3>3
    <3> QED BY <3>2, <3>4
  <2>2. PICK j \in S : \A i \in S : j <= i
    <3> HIDE DEF S
    <3> QED BY <2>1, NatMinimum
  <2>3. /\ j \in Nat /\ k < j /\ j <= Len(s) /\ s[j] \notin Noise /\ 1 <= j
        /\ \A i \in k + 1 .. j - 1 : s[i] \in Noise
    BY <1>3, <2>2
  <2>4. Stretch(s, k, j) /\ Item(s, j)
    BY <1>3, <2>3 DEF Stretch, Item
  <2>5. PICK e \in Nat : IsOffset(s, j, e)
    BY <1>1, <2>3, <2>4, OffsetExists
  <2>6. r < e
    BY <1>1, <2>3, <2>4, <2>5 DEF Awaited
  <2>7. Len(w) <= e - o
    BY <1>2, <2>6
  <2> QED BY <1>1, <1>2, <2>3, <2>4, <2>5, <2>7
<1> QED BY <1>5, <1>6, <1>7

(* Only on_data_ready leads to the overrun, from a connection that waits.  *)
LEMMA WhenOverrun ==
    ASSUME [Next]_vars, pc' = "overrun"
    PROVE  \/ pc = "overrun" /\ stream' = stream
           \/ /\ pc = "idle" /\ stream' = stream
              /\ \E n \in 1 .. receive_size :
                    LET joined == incomplete \o SubSeq(FlattenSeq(stream), received + 1, received + n)
                    IN  /\ received + n <= Len(FlattenSeq(stream))
                        /\ Len(joined) > 2 * rx_buffer_capacity
<1>1. CASE \E n \in 1 .. receive_size : on_data_ready(n)
  <2>1. PICK n \in 1 .. receive_size : on_data_ready(n)
    BY <1>1
  <2> DEFINE joined == incomplete \o SubSeq(Bytes, received + 1, received + n)
  <2>2. /\ pc = "idle" /\ received + n <= Len(Bytes) /\ stream' = stream
        /\ (pc' = pc \/ pc' = "parsing" \/ Len(joined) > 2 * rx_buffer_capacity)
    BY <2>1 DEF on_data_ready
  <2> HIDE DEF joined
  <2>3. Len(joined) > 2 * rx_buffer_capacity
    BY <2>2
  <2> QED BY <2>2, <2>3 DEF joined, Bytes
<1>2. CASE NoBeginString
  BY <1>2 DEF NoBeginString
<1>3. CASE MessageIncomplete
  BY <1>3 DEF MessageIncomplete, set_incomplete_buffer
<1>4. CASE ProcessMessage
  <2> DEFINE end == TagLoop(buffer, MessageBegin)
  <2>1. process_incoming_throttling(end) /\ pc = "parsing"
    BY <1>4 DEF ProcessMessage, AtMessage
  <2> HIDE DEF end
  <2>2. Continue(end) \/ close
    BY <2>1 DEF process_incoming_throttling
  <2> QED BY <2>1, <2>2 DEF Continue, close, set_incomplete_buffer
<1>5. CASE ConnectionLost
  BY <1>5 DEF ConnectionLost, close
<1>6. CASE Connect
  BY <1>6 DEF Connect
<1>7. CASE Tick \/ UNCHANGED vars
  BY <1>7 DEF Tick, vars, connection, parsing, AtMessage
<1> QED BY <1>1, <1>2, <1>3, <1>4, <1>5, <1>6, <1>7 DEF Next

LEMMA JoinedLength ==
    ASSUME FrameInv, Clean(stream), pc = "idle", NEW n \in 1 .. receive_size,
           received + n <= Len(FlattenSeq(stream))
    PROVE  Len(incomplete \o SubSeq(FlattenSeq(stream), received + 1, received + n)) = Len(incomplete) + n
<1> DEFINE t == SubSeq(FlattenSeq(stream), received + 1, received + n)
<1>1. n \in Nat /\ received \in Nat /\ stream \in Streams /\ Len(FlattenSeq(stream)) \in Nat
  <2>1. stream \in Seq(Seq(Byte))
    BY StreamIs DEF FrameInv, FrameTypes
  <2>2. FlattenSeq(stream) \in Seq(Byte)
    BY <2>1, Offsets
  <2> QED BY <2>2, ReceiveAssumption DEF FrameInv, FrameTypes
<1>2. Received(stream, received, received + n) /\ IsWindow(stream, received, received + n, t)
  <2>1. Len(stream) \in Nat
    BY <1>1, StreamIs
  <2>2. received <= received + n
    BY <1>1
  <2> QED BY <1>1, <2>1, <2>2 DEF Received, IsWindow, Window
<1> HIDE DEF t
<1>3. t \in Seq(Byte) /\ Len(t) = n
  <2>1. received + n \in Nat
    BY <1>1
  <2>2. t \in Seq(Byte) /\ Len(t) = (received + n) - received
    BY <1>1, <1>2, <2>1, ReceivedBytes
  <2> QED BY <1>1, <2>2
<1>4. incomplete \in Seq(Byte)
  <2>1. PICK k : AtItem(k)
    BY DEF FrameInv
  <2>2. Waits(stream, k, received, incomplete)
    BY <2>1 DEF AtItem
  <2>3. PICK o \in Nat : Received(stream, o, received) /\ IsWindow(stream, o, received, incomplete)
    BY <2>2 DEF Waits
  <2> QED BY <1>1, <2>3, ReceivedBytes
<1>5. Len(incomplete \o t) = Len(incomplete) + Len(t)
  BY <1>3, <1>4, ConcatProperties
<1> QED BY <1>3, <1>5 DEF t

(* What waits leaves no room for n bytes more: a stretch is too large.     *)
LEMMA TooLarge ==
    ASSUME FrameInv, Clean(stream), pc = "idle", NEW n \in 1 .. receive_size,
           received + n <= Len(FlattenSeq(stream)),
           Len(incomplete \o SubSeq(FlattenSeq(stream), received + 1, received + n))
              > 2 * rx_buffer_capacity
    PROVE  \E i \in Nat, j \in Nat, o \in Nat, e \in Nat :
              /\ Stretch(stream, i, j) /\ IsOffset(stream, i, o) /\ IsOffset(stream, j, e)
              /\ (e - o) + receive_size > 2 * rx_buffer_capacity
<1>1. Len(incomplete) + n > 2 * rx_buffer_capacity
  BY JoinedLength
<1>2. /\ rx_buffer_capacity \in Nat /\ receive_size \in Nat /\ receive_size <= rx_buffer_capacity
      /\ n \in Nat /\ 1 <= n /\ n <= receive_size
  BY ReceiveAssumption
<1>3. PICK k : AtItem(k)
  BY DEF FrameInv
<1>4. k \in Nat /\ received \in Nat /\ Waits(stream, k, received, incomplete)
  BY <1>3 DEF AtItem, FrameInv, FrameTypes
<1>5. /\ incomplete \in Seq(Byte)
      /\ \/ Len(incomplete) = 0
         \/ \E j \in Nat, o \in Nat, e \in Nat :
               /\ Stretch(stream, k, j) /\ IsOffset(stream, k, o) /\ IsOffset(stream, j, e)
               /\ Len(incomplete) <= e - o
  BY <1>4, WaitingFits
<1>6. Len(incomplete) \in Nat /\ Len(incomplete) # 0
  BY <1>1, <1>2, <1>5
<1>7. PICK j \in Nat, o \in Nat, e \in Nat :
         /\ Stretch(stream, k, j) /\ IsOffset(stream, k, o) /\ IsOffset(stream, j, e)
         /\ Len(incomplete) <= e - o
  BY <1>5, <1>6
<1>8. (e - o) + receive_size > 2 * rx_buffer_capacity
  BY <1>1, <1>2, <1>6, <1>7
<1> QED BY <1>4, <1>7, <1>8

LEMMA FitStep == FrameInv /\ BufferFits /\ [Next]_vars => BufferFits'
<1> SUFFICES ASSUME FrameInv, BufferFits, [Next]_vars, Clean(stream)', pc' = "overrun"
             PROVE  (\E i, j \in 0 .. Len(stream) :
                       /\ i < j /\ \A k \in i + 1 .. j - 1 : stream[k] \in Noise
                       /\ (BytesUpTo(j) - BytesUpTo(i)) + receive_size > 2 * rx_buffer_capacity)'
  BY DEF BufferFits
<1>1. stream' = stream
  BY WhenOverrun
<1>2. Clean(stream)
  BY <1>1 DEF Clean
<1>3. \E i, j \in 0 .. Len(stream) :
         /\ i < j /\ \A k \in i + 1 .. j - 1 : stream[k] \in Noise
         /\ (BytesUpTo(j) - BytesUpTo(i)) + receive_size > 2 * rx_buffer_capacity
  <2>1. CASE pc = "overrun"
    BY <1>2, <2>1 DEF BufferFits
  <2>2. CASE pc # "overrun"
    <3>1. PICK n \in 1 .. receive_size :
            /\ pc = "idle" /\ received + n <= Len(FlattenSeq(stream))
            /\ Len(incomplete \o SubSeq(FlattenSeq(stream), received + 1, received + n))
                  > 2 * rx_buffer_capacity
      BY <2>2, WhenOverrun
    <3>2. PICK i \in Nat, j \in Nat, o \in Nat, e \in Nat :
            /\ Stretch(stream, i, j) /\ IsOffset(stream, i, o) /\ IsOffset(stream, j, e)
            /\ (e - o) + receive_size > 2 * rx_buffer_capacity
      BY <1>2, <3>1, TooLarge
    <3>3. BytesUpTo(i) = o /\ BytesUpTo(j) = e
      BY <3>2 DEF IsOffset, BytesUpTo, Offset, Flat
    <3> QED BY <3>2, <3>3 DEF Stretch
  <2> QED BY <2>1, <2>2
<1> QED BY <1>1, <1>3 DEF BytesUpTo

(* get_rx_buffer copies what was received behind the incomplete buffer     *)
(* without looking at its size.  On a stream without misleading noise this *)
(* leaves the buffer, twice rx_buffer_capacity, only for a message that,   *)
(* with the noise before it and one receive more, is larger than that:     *)
(* what it left of earlier messages and connections never adds to it.      *)
THEOREM OnlyLargeMessagesOverrun == Spec => []BufferFits
<1>1. Init => BufferFits
  BY DEF Init, BufferFits
<1>2. FrameInv /\ BufferFits /\ [Next]_vars => BufferFits'
  BY FitStep
<1> QED BY <1>1, <1>2, FrameInvariance, PTL DEF Spec
=============================================================================
