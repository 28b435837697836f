------------------------- MODULE EditorContentProofs --------------------------
(***************************************************************************)
(* What the text saved in the editor is taken to mean, for any number of     *)
(* pairs, lines and rounds of editing.                                       *)
(***************************************************************************)
EXTENDS EditorContent, PrivilegeDiffProofs, SequenceTheorems, FiniteSetTheorems,
        WellFoundedInduction, NaturalsInduction, TLAPS

(* Induction over the naturals, for a set of them. *)
LEMMA SetInduction ==
    ASSUME NEW T, 0 \in T, \A n \in Nat : n \in T => n + 1 \in T
    PROVE  Nat \subseteq T
<1> SUFFICES ASSUME NEW m \in Nat \ T
             PROVE  FALSE
  OBVIOUS
<1>1. PICK x \in Nat \ T : \A y \in Nat \ T : ~(<<y, x>> \in OpToRel(<, Nat))
  <2>1. IsWellFoundedOn(OpToRel(<, Nat), Nat)
    BY NatLessThanWellFounded
  <2>2. Nat \ T \subseteq Nat /\ Nat \ T # {}
    OBVIOUS
  <2> QED BY <2>1, <2>2, WFMin
<1>2. x # 0 /\ x - 1 \in Nat /\ x - 1 < x /\ (x - 1) + 1 = x
  OBVIOUS
<1>3. x - 1 \notin Nat \ T
  BY <1>1, <1>2 DEF OpToRel
<1> QED BY <1>1, <1>2, <1>3

(* The same up to a bound. *)
LEMMA IntervalInduction ==
    ASSUME NEW n \in Nat, NEW T, 0 \in T, \A i \in 0..n - 1 : i \in T => i + 1 \in T
    PROVE  \A i \in 0..n : i \in T
<1> DEFINE U == {i \in Nat : i <= n => i \in T}
<1>1. 0 \in U
  OBVIOUS
<1>2. ASSUME NEW i \in Nat, i \in U
      PROVE  i + 1 \in U
  <2>1. CASE i + 1 <= n
    <3>1. i \in 0..n - 1 /\ i \in T
      BY <1>2, <2>1
    <3> QED BY <3>1
  <2>2. CASE ~(i + 1 <= n)
    BY <2>2
  <2> QED BY <2>1, <2>2
<1>3. Nat \subseteq U
  <2> HIDE DEF U
  <2> QED BY <1>1, <1>2, SetInduction
<1> QED BY <1>3

(* Every nonempty set of naturals has a least element. *)
LEMMA LeastElement ==
    ASSUME NEW T \in SUBSET Nat, T # {}
    PROVE  \E x \in T : \A y \in T : x <= y
<1>1. PICK x \in T : \A y \in T : ~(<<y, x>> \in OpToRel(<, Nat))
  BY NatLessThanWellFounded, WFMin
<1>2. \A y \in T : ~(y < x)
  BY <1>1 DEF OpToRel
<1>3. x \in Nat /\ \A y \in T : y \in Nat
  OBVIOUS
<1>4. \A y \in T : x <= y
  BY <1>2, <1>3
<1> QED BY <1>4

-----------------------------------------------------------------------------
(* Flattening a sequence of sequences. *)

(* The flattenings of the beginnings of ss. *)
Sums(ss, f) == f[0] = <<>> /\ \A i \in 1..Len(ss) : f[i] = f[i - 1] \o ss[i]

(* A function that satisfies the equation FlattenSeq is defined by. *)
IsFlatten(ss, n, f) ==
    f = [i \in 1..n |-> IF i = 1 THEN ss[i] ELSE f[i - 1] \o ss[i]]

(* The function that FlattenSeq defines by recursion exists. *)
LEMMA FlattenExists ==
    ASSUME NEW ss
    PROVE  \A n \in Nat : \E f : IsFlatten(ss, n, f)
<1> DEFINE T == {n \in Nat : \E f : IsFlatten(ss, n, f)}
<1>1. 0 \in T
  <2>1. IsFlatten(ss, 0, [i \in 1..0 |-> <<>>])
    BY DEF IsFlatten
  <2> QED BY <2>1
<1>2. ASSUME NEW n \in Nat, n \in T
      PROVE  n + 1 \in T
  <2>1. PICK f : IsFlatten(ss, n, f)
    BY <1>2
  <2> DEFINE g == [i \in 1..n + 1 |-> IF i = n + 1 THEN IF i = 1 THEN ss[i] ELSE f[i - 1] \o ss[i]
                                      ELSE f[i]]
  <2>2. \A i \in 1..n : f[i] = IF i = 1 THEN ss[i] ELSE f[i - 1] \o ss[i]
    BY <2>1 DEF IsFlatten
  <2>3. \A i \in 1..n : g[i] = f[i]
    OBVIOUS
  <2>4. \A i \in 1..n + 1 : g[i] = IF i = 1 THEN ss[i] ELSE g[i - 1] \o ss[i]
    <3> TAKE i \in 1..n + 1
    <3>1. CASE i = 1
      BY <3>1, <2>2
    <3>2. CASE i # 1
      <4>1. i - 1 \in 1..n /\ (i # n + 1 => i \in 1..n)
        BY <3>2
      <4>2. g[i - 1] = f[i - 1]
        BY <4>1, <2>3
      <4> QED BY <4>1, <4>2, <2>2, <3>2
    <3> QED BY <3>1, <3>2
  <2>5. g = [i \in 1..n + 1 |-> IF i = 1 THEN ss[i] ELSE g[i - 1] \o ss[i]]
    BY <2>4
  <2>6. IsFlatten(ss, n + 1, g)
    BY <2>5 DEF IsFlatten
  <2> HIDE DEF g
  <2> QED BY <2>6
<1>3. Nat \subseteq T
  <2> HIDE DEF T
  <2> QED BY <1>1, <1>2, SetInduction
<1> QED BY <1>3

(* A flattened sequence is the last of its partial sums. *)
LEMMA FlattenSums ==
    ASSUME NEW S, NEW ss \in Seq(Seq(S))
    PROVE  \E f \in [0..Len(ss) -> Seq(S)] : Sums(ss, f) /\ FlattenSeq(ss) = f[Len(ss)]
<1> DEFINE n == Len(ss)
<1>0. n \in Nat /\ \A i \in 1..n : ss[i] \in Seq(S)
  OBVIOUS
<1>1. CASE n = 0
  <2>1. FlattenSeq(ss) = ss /\ ss = <<>>
    BY <1>1, EmptySeq DEF FlattenSeq
  <2> DEFINE f == [i \in 0..0 |-> <<>>]
  <2>2. f \in [0..n -> Seq(S)] /\ f[0] = <<>>
    BY <1>1, EmptySeq
  <2>3. Sums(ss, f)
    BY <1>1, <2>2 DEF Sums
  <2> HIDE DEF f
  <2> QED BY <1>1, <2>1, <2>2, <2>3
<1>2. CASE n # 0
  <2>0. n \in Nat
    BY <1>0
  <2> DEFINE h == CHOOSE g : g = [i \in 1..n |-> IF i = 1 THEN ss[i] ELSE g[i - 1] \o ss[i]]
  <2>1. FlattenSeq(ss) = h[n]
    BY <1>2 DEF FlattenSeq
  <2>2. IsFlatten(ss, n, h)
    BY <1>0, FlattenExists DEF IsFlatten
  <2>3. \A i \in 1..n : h[i] = IF i = 1 THEN ss[i] ELSE h[i - 1] \o ss[i]
    <3> HIDE DEF h
    <3> QED BY <2>2 DEF IsFlatten
  <2> HIDE DEF h, n
  <2> DEFINE T == {m \in 0..n : m # 0 => h[m] \in Seq(S)}
  <2>4. \A m \in 0..n : m \in T <=> (m # 0 => h[m] \in Seq(S))
    OBVIOUS
  <2> HIDE DEF T
  <2>5. ASSUME NEW m \in 0..n - 1, m \in T
        PROVE  m + 1 \in T
    <3>0. m + 1 \in 1..n /\ m + 1 \in 0..n /\ m \in 0..n /\ (m + 1) - 1 = m
      BY <1>0
    <3>1. CASE m # 0
      <4>1. m + 1 # 1
        BY <3>1, <2>0
      <4>2. h[m + 1] = h[m] \o ss[m + 1]
        BY <4>1, <3>0, <2>3, Zenon
      <4>3. h[m] \in Seq(S) /\ ss[m + 1] \in Seq(S)
        BY <3>0, <3>1, <2>4, <2>5, <1>0
      <4>4. h[m] \o ss[m + 1] \in Seq(S)
        BY <4>3, ConcatProperties
      <4> QED BY <3>0, <4>2, <4>4, <2>4
    <3>2. CASE m = 0
      BY <3>0, <3>2, <2>3, <2>4, <1>0
    <3> QED BY <3>1, <3>2
  <2>6. \A m \in 0..n : m \in T
    <3>1. 0 \in T
      BY <2>0, <2>4
    <3> QED BY <3>1, <2>0, <2>5, IntervalInduction, Zenon
  <2>7. \A m \in 1..n : h[m] \in Seq(S)
    BY <2>4, <2>6, <1>0
  <2> DEFINE f == [i \in 0..n |-> IF i = 0 THEN <<>> ELSE h[i]]
  <2>8. f \in [0..n -> Seq(S)]
    BY <2>7, <1>0, EmptySeq
  <2>9. Sums(ss, f)
    <3>1. f[0] = <<>>
      BY <1>0
    <3>2. ASSUME NEW i \in 1..n
          PROVE  f[i] = f[i - 1] \o ss[i]
      <4>1. CASE i = 1
        <5>1. f[i] = ss[1] /\ f[i - 1] = <<>>
          BY <4>1, <2>3, <1>0
        <5> QED BY <5>1, <4>1, <1>0, ConcatEmptySeq
      <4>2. CASE i # 1
        <5>1. i - 1 \in 0..n /\ i - 1 # 0 /\ i # 0 /\ i \in 0..n
          BY <4>2, <1>0
        <5> QED BY <5>1, <4>2, <2>3
      <4> QED BY <4>1, <4>2
    <3> HIDE DEF f
    <3> QED BY <3>1, <3>2 DEF Sums, n
  <2>10. f[n] = h[n]
    BY <1>2, <1>0
  <2> USE DEF n
  <2> HIDE DEF f
  <2> QED BY <2>1, <2>8, <2>9, <2>10
<1> QED BY <1>1, <1>2

(* Flattening sequences of elements of S gives such a sequence. *)
LEMMA FlattenType ==
    ASSUME NEW S, NEW ss \in Seq(Seq(S))
    PROVE  FlattenSeq(ss) \in Seq(S)
<1>1. PICK f \in [0..Len(ss) -> Seq(S)] : FlattenSeq(ss) = f[Len(ss)]
  BY FlattenSums
<1>2. Len(ss) \in 0..Len(ss)
  OBVIOUS
<1> QED BY <1>1, <1>2

(* Concatenation is associative, in the form in which it is used below. *)
LEMMA ConcatAssoc ==
    ASSUME NEW S
    PROVE  \A x, y, z \in Seq(S) : (x \o y) \o z = x \o (y \o z)
  BY ConcatAssociative

(* Flattening distributes over concatenation, ... *)
LEMMA FlattenConcat ==
    ASSUME NEW S, NEW aa \in Seq(Seq(S)), NEW bb \in Seq(Seq(S))
    PROVE  FlattenSeq(aa \o bb) = FlattenSeq(aa) \o FlattenSeq(bb)
<1>10. \A x, y, z \in Seq(S) : (x \o y) \o z = x \o (y \o z)
  BY ConcatAssoc, SMTT(60)
<1> DEFINE m == Len(aa)
           n == Len(bb)
<1>0. /\ m \in Nat /\ n \in Nat
      /\ aa \o bb \in Seq(Seq(S)) /\ Len(aa \o bb) = m + n
      /\ \A i \in 1..m : (aa \o bb)[i] = aa[i]
      /\ \A j \in 1..n : (aa \o bb)[m + j] = bb[j] /\ bb[j] \in Seq(S)
  OBVIOUS
<1>1. PICK f \in [0..m -> Seq(S)] : Sums(aa, f) /\ FlattenSeq(aa) = f[m]
  BY FlattenSums
<1>2. PICK g \in [0..n -> Seq(S)] : Sums(bb, g) /\ FlattenSeq(bb) = g[n]
  BY FlattenSums
<1>3. PICK h : Sums(aa \o bb, h) /\ FlattenSeq(aa \o bb) = h[m + n]
  <2> DEFINE cc == aa \o bb
  <2>1. cc \in Seq(Seq(S)) /\ Len(cc) = m + n
    BY <1>0
  <2> HIDE DEF cc, m, n
  <2>2. \E h : Sums(cc, h) /\ FlattenSeq(cc) = h[Len(cc)]
    BY <2>1, FlattenSums
  <2> QED BY <2>1, <2>2 DEF cc
<1>4. /\ f[0] = <<>> /\ \A i \in 1..m : f[i] = f[i - 1] \o aa[i]
      /\ g[0] = <<>> /\ \A i \in 1..n : g[i] = g[i - 1] \o bb[i]
      /\ h[0] = <<>> /\ \A i \in 1..m + n : h[i] = h[i - 1] \o (aa \o bb)[i]
  BY <1>0, <1>1, <1>2, <1>3 DEF Sums
<1> HIDE DEF m, n
<1>5. h[m] = f[m]
  <2> DEFINE T == {i \in 0..m : h[i] = f[i]}
  <2>1. \A i \in 0..m : i \in T <=> h[i] = f[i]
    OBVIOUS
  <2> HIDE DEF T
  <2>2. 0 \in T
    BY <2>1, <1>0, <1>4
  <2>3. ASSUME NEW i \in 0..m - 1, i \in T
        PROVE  i + 1 \in T
    <3>1. i + 1 \in 1..m /\ i + 1 \in 1..m + n /\ (i + 1) - 1 = i /\ i \in 0..m /\ i + 1 \in 0..m
      BY <1>0
    <3>2. h[i + 1] = h[i] \o aa[i + 1]
      BY <3>1, <1>0, <1>4
    <3>3. f[i + 1] = f[i] \o aa[i + 1]
      BY <3>1, <1>4
    <3> QED BY <3>1, <3>2, <3>3, <2>1, <2>3
  <2>4. m \in Nat /\ m \in 0..m
    BY <1>0
  <2>5. m \in T
    BY <2>2, <2>3, <2>4, IntervalInduction, Zenon
  <2> QED BY <2>1, <2>4, <2>5, Zenon
<1>6. f[m] \in Seq(S)
  BY <1>0, <1>1
<1>7. h[m + n] = f[m] \o g[n]
  <2> DEFINE U == {j \in 0..n : h[m + j] = f[m] \o g[j]}
  <2>1. \A j \in 0..n : j \in U <=> h[m + j] = f[m] \o g[j]
    OBVIOUS
  <2> HIDE DEF U
  <2>2. 0 \in U
    <3>1. m + 0 = m /\ 0 \in 0..n
      BY <1>0
    <3>2. f[m] \o <<>> = f[m]
      BY <1>6, ConcatEmptySeq
    <3> QED BY <3>1, <3>2, <2>1, <1>4, <1>5
  <2>3. ASSUME NEW j \in 0..n - 1, j \in U
        PROVE  j + 1 \in U
    <3>1. /\ j + 1 \in 1..n /\ m + (j + 1) \in 1..m + n /\ (j + 1) - 1 = j
          /\ (m + (j + 1)) - 1 = m + j /\ j \in 0..n /\ j + 1 \in 0..n
      BY <1>0
    <3>2. h[m + (j + 1)] = h[m + j] \o bb[j + 1]
      BY <3>1, <1>0, <1>4
    <3>3. g[j + 1] = g[j] \o bb[j + 1]
      BY <3>1, <1>4
    <3>4. h[m + j] = f[m] \o g[j]
      BY <3>1, <2>1, <2>3
    <3>5. g[j] \in Seq(S) /\ bb[j + 1] \in Seq(S)
      BY <3>1, <1>0, <1>2
    <3>6. (f[m] \o g[j]) \o bb[j + 1] = f[m] \o (g[j] \o bb[j + 1])
      <4> DEFINE x == f[m]
                 y == g[j]
                 z == bb[j + 1]
      <4>1. x \in Seq(S) /\ y \in Seq(S) /\ z \in Seq(S)
        BY <3>5, <1>6
      <4> HIDE DEF x, y, z
      <4>2. (x \o y) \o z = x \o (y \o z)
        BY <4>1, <1>10, Zenon
      <4> QED BY <4>2 DEF x, y, z
    <3>7. h[m + (j + 1)] = f[m] \o g[j + 1]
      BY <3>2, <3>3, <3>4, <3>6
    <3> QED BY <3>1, <3>7, <2>1
  <2>4. n \in Nat /\ n \in 0..n
    BY <1>0
  <2>5. n \in U
    BY <2>2, <2>3, <2>4, IntervalInduction, Zenon
  <2> QED BY <2>1, <2>4, <2>5, Zenon
<1> QED BY <1>1, <1>2, <1>3, <1>7

-----------------------------------------------------------------------------
(* Leaving lines out of a text. *)

Pieces(t, lines) == [i \in DOMAIN t |-> IF t[i] \in lines THEN <<>> ELSE <<t[i]>>]

(* Without as a flattened sequence of pieces of at most one line. *)
LEMMA WithoutIsFlat ==
    ASSUME NEW S, NEW t \in Seq(S), NEW lines
    PROVE  /\ Pieces(t, lines) \in Seq(Seq(S))
           /\ Len(Pieces(t, lines)) = Len(t)
           /\ Without(t, lines) = FlattenSeq(Pieces(t, lines))
           /\ Without(t, lines) \in Seq(S)
<1>1. \A i \in 1..Len(t) : (IF t[i] \in lines THEN <<>> ELSE <<t[i]>>) \in Seq(S)
  OBVIOUS
<1>2. Pieces(t, lines) \in Seq(Seq(S)) /\ Len(Pieces(t, lines)) = Len(t)
  <2>1. Pieces(t, lines) \in [1..Len(t) -> Seq(S)] /\ Len(t) \in Nat
    BY <1>1 DEF Pieces
  <2>2. Pieces(t, lines) \in Seq(Seq(S))
    BY <2>1, SeqDef
  <2> QED BY <2>1, <2>2
<1>3. Without(t, lines) = FlattenSeq(Pieces(t, lines))
  BY DEF Pieces, Without
<1> QED BY <1>2, <1>3, FlattenType

(* ... and so does leaving out lines. *)
LEMMA WithoutConcat ==
    ASSUME NEW S, NEW s \in Seq(S), NEW t \in Seq(S), NEW lines
    PROVE  Without(s \o t, lines) = Without(s, lines) \o Without(t, lines)
<1> DEFINE P == Pieces(s, lines)
           Q == Pieces(t, lines)
           R == Pieces(s \o t, lines)
<1>0. s \o t \in Seq(S) /\ Len(s \o t) = Len(s) + Len(t)
  OBVIOUS
<1>1. /\ P \in Seq(Seq(S)) /\ Len(P) = Len(s)
      /\ Q \in Seq(Seq(S)) /\ Len(Q) = Len(t)
      /\ R \in Seq(Seq(S)) /\ Len(R) = Len(s) + Len(t)
  BY <1>0, WithoutIsFlat
<1>5. \A i \in 1..Len(s) + Len(t) : (P \o Q)[i] = IF i <= Len(s) THEN P[i] ELSE Q[i - Len(s)]
  <2> HIDE DEF P, Q
  <2>1. \A x, y \in Seq(Seq(S)) : \A i \in 1..Len(x) + Len(y) :
            (x \o y)[i] = IF i <= Len(x) THEN x[i] ELSE y[i - Len(x)]
    BY ConcatProperties
  <2>2. \A i \in 1..Len(P) + Len(Q) : (P \o Q)[i] = IF i <= Len(P) THEN P[i] ELSE Q[i - Len(P)]
    BY <1>1, <2>1, Zenon
  <2> QED BY <1>1, <2>2, Zenon
<1>2. \A i \in 1..Len(s) + Len(t) : R[i] = (P \o Q)[i]
  <2> TAKE i \in 1..Len(s) + Len(t)
  <2>1. R[i] = IF (s \o t)[i] \in lines THEN <<>> ELSE <<(s \o t)[i]>>
    BY <1>0 DEF Pieces
  <2>2. CASE i <= Len(s)
    <3>1. (s \o t)[i] = s[i] /\ i \in DOMAIN s
      BY <2>2
    <3>2. (P \o Q)[i] = P[i]
      BY <2>2, <1>5
    <3>3. P[i] = IF s[i] \in lines THEN <<>> ELSE <<s[i]>>
      BY <3>1 DEF Pieces
    <3> QED BY <2>1, <3>1, <3>2, <3>3
  <2>3. CASE i > Len(s)
    <3>1. (s \o t)[i] = t[i - Len(s)] /\ i - Len(s) \in DOMAIN t
      BY <2>3
    <3>2. (P \o Q)[i] = Q[i - Len(s)]
      <4>1. ~(i <= Len(s))
        BY <1>0, <2>3
      <4> HIDE DEF P, Q
      <4> QED BY <4>1, <1>5
    <3>3. Q[i - Len(s)] = IF t[i - Len(s)] \in lines THEN <<>> ELSE <<t[i - Len(s)]>>
      BY <3>1 DEF Pieces
    <3> QED BY <2>1, <3>1, <3>2, <3>3
  <2>4. i <= Len(s) \/ i > Len(s)
    BY <1>0
  <2> QED BY <2>2, <2>3, <2>4
<1>3. R = P \o Q
  <2>1. P \o Q \in Seq(Seq(S)) /\ Len(P \o Q) = Len(s) + Len(t)
    BY <1>1, ConcatProperties
  <2> HIDE DEF P, Q, R
  <2> QED BY <1>1, <1>2, <2>1, SeqEqual
<1>4. /\ Without(s, lines) = FlattenSeq(P) /\ Without(t, lines) = FlattenSeq(Q)
      /\ Without(s \o t, lines) = FlattenSeq(R)
  BY <1>0, WithoutIsFlat
<1> HIDE DEF P, Q, R
<1> QED BY <1>1, <1>3, <1>4, FlattenConcat

(* Leaving lines out of a text of at most one line. *)
LEMMA WithoutShort ==
    ASSUME NEW lines
    PROVE  /\ Without(<<>>, lines) = <<>>
           /\ \A x : Without(<<x>>, lines) = IF x \in lines THEN <<>> ELSE <<x>>
<1>1. Without(<<>>, lines) = <<>>
  <2>1. [i \in DOMAIN <<>> |-> IF <<>>[i] \in lines THEN <<>> ELSE <<<<>>[i]>>] = <<>>
    OBVIOUS
  <2>2. FlattenSeq(<<>>) = <<>>
    BY DEF FlattenSeq
  <2> QED BY <2>1, <2>2 DEF Without
<1>2. ASSUME NEW x
      PROVE  Without(<<x>>, lines) = IF x \in lines THEN <<>> ELSE <<x>>
  <2> DEFINE P == Pieces(<<x>>, lines)
  <2>1. <<x>> \in Seq({x}) /\ Len(<<x>>) = 1 /\ <<x>>[1] = x /\ 1 \in DOMAIN <<x>>
    OBVIOUS
  <2>2. P \in Seq(Seq({x})) /\ Len(P) = 1 /\ Without(<<x>>, lines) = FlattenSeq(P)
    BY <2>1, WithoutIsFlat
  <2>3. P[1] = IF x \in lines THEN <<>> ELSE <<x>>
    BY <2>1 DEF Pieces
  <2> HIDE DEF P
  <2>4. PICK f \in [0..1 -> Seq({x})] : Sums(P, f) /\ FlattenSeq(P) = f[1]
    BY <2>2, FlattenSums
  <2>5. f[0] = <<>> /\ f[1] = f[0] \o P[1]
    <3>1. 1 \in 1..Len(P) /\ 1 - 1 = 0
      BY <2>2
    <3> QED BY <3>1, <2>4 DEF Sums
  <2>6. P[1] \in Seq({x})
    <3>1. <<>> \in Seq({x})
      BY EmptySeq
    <3> QED BY <3>1, <2>1, <2>3, Zenon
  <2>7. <<>> \o P[1] = P[1]
    BY <2>6, ConcatEmptySeq
  <2> QED BY <2>2, <2>3, <2>4, <2>5, <2>7
<1> QED BY <1>1, <1>2

(* Lines are left out of each part of a text by itself. *)
LEMMA WithoutFlatten ==
    ASSUME NEW S, NEW ss \in Seq(Seq(S)), NEW lines
    PROVE  Without(FlattenSeq(ss), lines) = FlattenSeq([i \in DOMAIN ss |-> Without(ss[i], lines)])
<1> DEFINE n  == Len(ss)
           tt == [i \in DOMAIN ss |-> Without(ss[i], lines)]
<1>1. n \in Nat /\ DOMAIN ss = 1..n /\ \A i \in 1..n : ss[i] \in Seq(S)
  OBVIOUS
<1>2. \A i \in 1..n : tt[i] = Without(ss[i], lines) /\ tt[i] \in Seq(S)
  BY <1>1, WithoutIsFlat
<1>3. tt \in Seq(Seq(S)) /\ Len(tt) = n
  <2>1. tt \in [1..n -> Seq(S)]
    BY <1>1, <1>2
  <2>2. tt \in Seq(Seq(S))
    BY <1>1, <2>1, SeqDef
  <2> HIDE DEF n, tt
  <2> QED BY <1>1, <2>1, <2>2
<1>4. PICK f \in [0..n -> Seq(S)] : Sums(ss, f) /\ FlattenSeq(ss) = f[n]
  BY FlattenSums
<1>5. PICK g \in [0..n -> Seq(S)] : Sums(tt, g) /\ FlattenSeq(tt) = g[n]
  BY <1>3, FlattenSums
<1>6. /\ f[0] = <<>> /\ \A i \in 1..n : f[i] = f[i - 1] \o ss[i]
      /\ g[0] = <<>> /\ \A i \in 1..n : g[i] = g[i - 1] \o tt[i]
  BY <1>3, <1>4, <1>5 DEF Sums
<1> HIDE DEF n, tt
<1> DEFINE T == {i \in 0..n : Without(f[i], lines) = g[i]}
<1>7. \A i \in 0..n : i \in T <=> Without(f[i], lines) = g[i]
  OBVIOUS
<1> HIDE DEF T
<1>8. 0 \in 0..n /\ n \in 0..n /\ n \in Nat
  BY <1>1
<1>9. 0 \in T
  BY <1>6, <1>7, <1>8, WithoutShort
<1>10. ASSUME NEW i \in 0..n - 1, i \in T
       PROVE  i + 1 \in T
  <2>1. i + 1 \in 1..n /\ (i + 1) - 1 = i /\ i \in 0..n /\ i + 1 \in 0..n
    BY <1>1
  <2>2. f[i + 1] = f[i] \o ss[i + 1] /\ g[i + 1] = g[i] \o tt[i + 1]
    BY <1>6, <2>1, Zenon
  <2>3. f[i] \in Seq(S) /\ ss[i + 1] \in Seq(S)
    BY <1>1, <1>4, <2>1
  <2>4. Without(f[i] \o ss[i + 1], lines) = Without(f[i], lines) \o Without(ss[i + 1], lines)
    <3>1. \A x, y \in Seq(S) : Without(x \o y, lines) = Without(x, lines) \o Without(y, lines)
      BY WithoutConcat
    <3> QED BY <3>1, <2>3, Zenon
  <2>5. Without(f[i], lines) = g[i] /\ tt[i + 1] = Without(ss[i + 1], lines)
    BY <1>2, <1>7, <1>10, <2>1
  <2>6. Without(f[i + 1], lines) = g[i + 1]
    BY <2>2, <2>4, <2>5, Zenon
  <2> QED BY <1>7, <2>1, <2>6
<1>11. Without(f[n], lines) = g[n]
  BY <1>7, <1>8, <1>9, <1>10, IntervalInduction, Zenon
<1>12. Without(FlattenSeq(ss), lines) = FlattenSeq(tt)
  BY <1>4, <1>5, <1>11, Zenon
<1> QED BY <1>12 DEF tt

(* Nothing is left of a text whose lines are all left out. *)
LEMMA WithoutAll ==
    ASSUME NEW lines, NEW t \in Seq(lines)
    PROVE  Without(t, lines) = <<>>
<1> DEFINE P == Pieces(t, lines)
           n == Len(t)
<1>1. n \in Nat /\ P \in Seq(Seq(lines)) /\ Len(P) = n /\ Without(t, lines) = FlattenSeq(P)
  BY WithoutIsFlat
<1>2. \A i \in 1..n : P[i] = <<>>
  BY DEF Pieces
<1>3. PICK f \in [0..n -> Seq(lines)] : Sums(P, f) /\ FlattenSeq(P) = f[n]
  BY <1>1, FlattenSums
<1>4. f[0] = <<>> /\ \A i \in 1..n : f[i] = f[i - 1] \o P[i]
  BY <1>1, <1>3 DEF Sums
<1> HIDE DEF n, P
<1> DEFINE T == {i \in 0..n : f[i] = <<>>}
<1>5. \A i \in 0..n : i \in T <=> f[i] = <<>>
  OBVIOUS
<1> HIDE DEF T
<1>6. 0 \in 0..n /\ n \in 0..n /\ n \in Nat
  BY <1>1
<1>7. 0 \in T
  BY <1>4, <1>5, <1>6
<1>8. ASSUME NEW i \in 0..n - 1, i \in T
      PROVE  i + 1 \in T
  <2>1. i + 1 \in 1..n /\ (i + 1) - 1 = i /\ i \in 0..n /\ i + 1 \in 0..n
    BY <1>1
  <2>2. f[i + 1] = f[i] \o P[i + 1]
    BY <1>4, <2>1, Zenon
  <2>3. f[i] = <<>> /\ P[i + 1] = <<>>
    BY <1>2, <1>5, <1>8, <2>1
  <2>4. f[i + 1] = <<>>
    BY <2>2, <2>3
  <2> QED BY <1>5, <2>1, <2>4
<1>9. f[n] = <<>>
  BY <1>5, <1>6, <1>7, <1>8, IntervalInduction, Zenon
<1> QED BY <1>1, <1>3, <1>9

-----------------------------------------------------------------------------
(* The lines of the text, and what is made of them. *)

Line == UserLines \cup {Header, Marker}

(* strip_inlined_errors leaves no marker, and takes only lines that look like  *)
(* a part of an error.                                                       *)
LEMMA StripTakesErrors ==
    ASSUME NEW t \in Seq(Line)
    PROVE  /\ Strip(t) \in Seq(Line \ {Marker})
           /\ Without(Strip(t), {Indented}) = Without(t, {Marker, Indented})
<1> DEFINE InBlock(i) == \E j \in 1..i : t[j] = Marker /\ \A m \in j + 1 .. i : t[m] = Indented
           kept == [i \in DOMAIN t |-> IF InBlock(i) THEN <<>> ELSE <<t[i]>>]
           n == Len(t)
<1>0. n \in Nat /\ DOMAIN t = 1..n /\ \A i \in 1..n : t[i] \in Line
  OBVIOUS
<1>1. Strip(t) = FlattenSeq(kept)
  BY DEF Strip
<1>2. ASSUME NEW i \in 1..n
      PROVE  /\ t[i] = Marker => InBlock(i)
             /\ InBlock(i) => t[i] \in {Marker, Indented}
  <2>1. i \in 1..i /\ i + 1 .. i = {}
    OBVIOUS
  <2>2. ASSUME NEW j \in 1..i, t[j] = Marker, \A m \in j + 1 .. i : t[m] = Indented
        PROVE  t[i] \in {Marker, Indented}
    <3>1. i = j \/ i \in j + 1 .. i
      OBVIOUS
    <3> QED BY <2>2, <3>1
  <2> QED BY <2>1, <2>2
<1>3. \A i \in 1..n : kept[i] = IF InBlock(i) THEN <<>> ELSE <<t[i]>>
  BY <1>0
<1> HIDE DEF InBlock
<1>4. \A i \in 1..n : kept[i] \in Seq(Line \ {Marker})
  <2> TAKE i \in 1..n
  <2>1. CASE InBlock(i)
    <3>1. kept[i] = <<>>
      BY <1>3, <2>1
    <3> QED BY <3>1, EmptySeq
  <2>2. CASE ~InBlock(i)
    <3>1. kept[i] = <<t[i]>> /\ t[i] \in Line \ {Marker}
      BY <1>0, <1>2, <1>3, <2>2
    <3> HIDE DEF kept
    <3> QED BY <3>1
  <2> QED BY <2>1, <2>2
<1>5. kept \in Seq(Seq(Line \ {Marker})) /\ DOMAIN kept = 1..n
  <2>1. kept \in [1..n -> Seq(Line \ {Marker})]
    BY <1>0, <1>4
  <2> HIDE DEF kept, n
  <2> QED BY <1>0, <2>1, SeqDef
<1>6. Strip(t) \in Seq(Line \ {Marker})
  BY <1>1, <1>5, FlattenType
<1>7. Without(Strip(t), {Indented}) = FlattenSeq([i \in 1..n |-> Without(kept[i], {Indented})])
  <2> HIDE DEF kept, n
  <2>1. Without(FlattenSeq(kept), {Indented})
            = FlattenSeq([i \in DOMAIN kept |-> Without(kept[i], {Indented})])
    BY <1>5, WithoutFlatten
  <2> QED BY <1>1, <1>5, <2>1
<1>8. \A i \in 1..n : Without(kept[i], {Indented})
                       = IF t[i] \in {Marker, Indented} THEN <<>> ELSE <<t[i]>>
  <2> TAKE i \in 1..n
  <2>1. CASE InBlock(i)
    <3>1. kept[i] = <<>> /\ t[i] \in {Marker, Indented}
      BY <1>2, <1>3, <2>1
    <3> HIDE DEF kept
    <3> QED BY <3>1, WithoutShort
  <2>2. CASE ~InBlock(i)
    <3>1. kept[i] = <<t[i]>> /\ t[i] # Marker
      BY <1>2, <1>3, <2>2
    <3>2. Without(<<t[i]>>, {Indented}) = IF t[i] \in {Indented} THEN <<>> ELSE <<t[i]>>
      BY WithoutShort
    <3> HIDE DEF kept
    <3> QED BY <3>1, <3>2
  <2> QED BY <2>1, <2>2
<1>9. Without(t, {Marker, Indented})
          = FlattenSeq([i \in 1..n |-> IF t[i] \in {Marker, Indented} THEN <<>> ELSE <<t[i]>>])
  BY <1>0 DEF Without
<1>10. [i \in 1..n |-> Without(kept[i], {Indented})]
           = [i \in 1..n |-> IF t[i] \in {Marker, Indented} THEN <<>> ELSE <<t[i]>>]
  <2> HIDE DEF kept, n
  <2> QED BY <1>8
<1> HIDE DEF kept, n
<1> QED BY <1>6, <1>7, <1>9, <1>10

(* inline_errors_into_editor_content only adds lines of errors. *)
LEMMA InlineAddsErrors ==
    ASSUME NEW t \in Seq(Line \ {Marker}), NEW errs
    PROVE  /\ Inline(t, errs) \in Seq(Line)
           /\ Without(Inline(t, errs), {Marker, Indented}) = Without(t, {Indented})
<1> DEFINE About(i)   == {e.about : e \in {x \in errs : x.line = i}}
           Message(i) == (IF "text" \in About(i) THEN 1 ELSE 0) + (IF "names" \in About(i) THEN 2 ELSE 0)
           Added(i)   == [j \in 1..Message(i) |-> IF j = 1 THEN Marker ELSE Indented]
           shown == [i \in DOMAIN t |-> <<t[i]>> \o Added(i)]
           n == Len(t)
           E == {Marker, Indented}
<1>0. n \in Nat /\ DOMAIN t = 1..n /\ \A i \in 1..n : t[i] \in Line /\ t[i] # Marker
  OBVIOUS
<1>1. Inline(t, errs) = FlattenSeq(shown)
  BY DEF Inline
<1>2. \A i : Added(i) \in Seq(E)
  <2> TAKE i
  <2>1. Message(i) \in Nat
    OBVIOUS
  <2> HIDE DEF Message
  <2>2. Added(i) \in [1..Message(i) -> E]
    OBVIOUS
  <2> HIDE DEF Added
  <2> QED BY <2>1, <2>2, SeqDef
<1>3. E \subseteq Line
  BY DEF Line, UserLines
<1> HIDE DEF Added, E
<1>4. \A i \in 1..n : Added(i) \in Seq(Line) /\ <<t[i]>> \in Seq(Line)
  BY <1>0, <1>2, <1>3, SeqMonotonic
<1>5. \A i \in 1..n : shown[i] = <<t[i]>> \o Added(i) /\ shown[i] \in Seq(Line)
  BY <1>0, <1>4, ConcatProperties
<1>6. shown \in Seq(Seq(Line)) /\ DOMAIN shown = 1..n
  <2>1. shown \in [1..n -> Seq(Line)]
    BY <1>0, <1>5
  <2> HIDE DEF shown, n
  <2> QED BY <1>0, <2>1, SeqDef
<1> HIDE DEF shown, n
<1>7. Inline(t, errs) \in Seq(Line)
  BY <1>1, <1>6, FlattenType
<1>8. Without(FlattenSeq(shown), E) = FlattenSeq([i \in 1..n |-> Without(shown[i], E)])
  <2>1. Without(FlattenSeq(shown), E) = FlattenSeq([i \in DOMAIN shown |-> Without(shown[i], E)])
    BY <1>6, WithoutFlatten
  <2> QED BY <1>6, <2>1
<1>9. ASSUME NEW i \in 1..n
      PROVE  Without(shown[i], E) = IF t[i] \in {Indented} THEN <<>> ELSE <<t[i]>>
  <2>1. Without(shown[i], E) = Without(<<t[i]>>, E) \o Without(Added(i), E)
    <3>1. \A x, y \in Seq(Line) : Without(x \o y, E) = Without(x, E) \o Without(y, E)
      BY WithoutConcat
    <3> QED BY <3>1, <1>4, <1>5, Zenon
  <2>2. Without(Added(i), E) = <<>>
    BY <1>2, WithoutAll
  <2>3. Without(<<t[i]>>, E) = IF t[i] \in E THEN <<>> ELSE <<t[i]>>
    BY WithoutShort
  <2>4. t[i] \in E <=> t[i] \in {Indented}
    BY <1>0 DEF E
  <2>5. Without(<<t[i]>>, E) \o <<>> = Without(<<t[i]>>, E)
    BY <1>4, WithoutIsFlat, ConcatEmptySeq
  <2> QED BY <2>1, <2>2, <2>3, <2>4, <2>5
<1>10. Without(t, {Indented})
           = FlattenSeq([i \in 1..n |-> IF t[i] \in {Indented} THEN <<>> ELSE <<t[i]>>])
  BY <1>0 DEF Without
<1>11. [i \in 1..n |-> Without(shown[i], E)]
           = [i \in 1..n |-> IF t[i] \in {Indented} THEN <<>> ELSE <<t[i]>>]
  BY <1>9
<1> QED BY <1>1, <1>7, <1>8, <1>10, <1>11 DEF E

(* generate_editor_content_from_privilege_data: one line for each row there is. *)
LEMMA GenerateShowsRows ==
    ASSUME NEW data \in [Pairs -> MaybeRow]
    PROVE  /\ Generate(data) \in Seq(Line)
           /\ \A i \in DOMAIN Generate(data) :
                  /\ Generate(data)[i].kind \notin {"broken", "garbage"}
                  /\ Generate(data)[i].kind = "row" =>
                         /\ Generate(data)[i].pair \in Pairs
                         /\ data[Generate(data)[i].pair] # NoRow
                         /\ Generate(data)[i].row = data[Generate(data)[i].pair]
           /\ \A k \in Pairs : data[k] # NoRow =>
                  \E i \in DOMAIN Generate(data) : Generate(data)[i] = RowLine(k, data[k])
<1> DEFINE S == {k \in Pairs : data[k] # NoRow}
           present == SetToSeq(S)
           n == Cardinality(S)
           shown == [i \in DOMAIN present |-> RowLine(present[i], data[present[i]])]
           tail == IF present = <<>> THEN <<Comment>> ELSE shown
<1>1. IsFiniteSet(S) /\ n \in Nat
  BY EditorAssumption, FS_Subset, FS_CardinalityType
<1>2. \E f \in [1..n -> S] : IsInjective(f)
  <2>1. PICK f : f \in Bijection(1..n, S)
    BY <1>1, FS_CardinalityType DEF ExistsBijection
  <2> QED BY <2>1 DEF Bijection, Injection
<1>3. present \in [1..n -> S] /\ IsInjective(present)
  BY <1>2 DEF SetToSeq
<1>4. \A k \in S : \E i \in 1..n : present[i] = k
  <2>1. present \in Injection(1..n, S)
    BY <1>3 DEF Injection
  <2>2. IsFiniteSet(1..n) /\ Cardinality(1..n) = n
    BY <1>1, FS_Interval
  <2>3. present \in Surjection(1..n, S)
    BY <1>1, <2>1, <2>2, FS_Injection
  <2> QED BY <2>3 DEF Surjection
<1> HIDE DEF present, n
<1>5. \A i \in 1..n : shown[i] = RowLine(present[i], data[present[i]]) /\ shown[i] \in Line
  BY <1>3 DEF Line, UserLines, MaybeRow
<1>6. shown \in Seq(Line) /\ DOMAIN shown = 1..n /\ Len(shown) = n
  <2>1. shown \in [1..n -> Line]
    BY <1>3, <1>5
  <2> HIDE DEF shown
  <2> QED BY <1>1, <2>1, SeqDef
<1> HIDE DEF shown
<1>7. Comment \in Line /\ Header \in Line
  BY DEF Line, UserLines
<1>8. tail \in Seq(Line) /\ \A i \in DOMAIN tail : tail[i] = Comment \/ \E j \in 1..n : tail[i] = shown[j]
  BY <1>6, <1>7
<1>9. \A k \in S : \E i \in DOMAIN tail : tail[i] = RowLine(k, data[k])
  <2> TAKE k \in S
  <2>1. PICK i \in 1..n : present[i] = k
    BY <1>4
  <2>2. present # <<>>
    <3>1. DOMAIN present = 1..n /\ DOMAIN <<>> = {}
      BY <1>3
    <3> QED BY <2>1, <3>1
  <2>3. tail = shown
    BY <2>2
  <2> HIDE DEF tail
  <2> QED BY <1>5, <1>6, <2>1, <2>3
<1>10. Generate(data) = <<Comment, Header>> \o tail
  BY DEF Generate, present, shown
<1> HIDE DEF tail
<1> DEFINE head == <<Comment, Header>>
<1>11. head \in Seq(Line) /\ Len(head) = 2 /\ head[1] = Comment /\ head[2] = Header
  BY <1>7
<1> HIDE DEF head
<1>12. /\ head \o tail \in Seq(Line)
       /\ DOMAIN (head \o tail) = 1..2 + Len(tail)
       /\ \A i \in 1..2 + Len(tail) : (head \o tail)[i] = IF i <= 2 THEN head[i] ELSE tail[i - 2]
  <2>1. Len(tail) \in Nat
    BY <1>8
  <2>0. \A x, y \in Seq(Line) :
            /\ x \o y \in Seq(Line) /\ Len(x \o y) = Len(x) + Len(y)
            /\ \A i \in 1..Len(x) + Len(y) : (x \o y)[i] = IF i <= Len(x) THEN x[i] ELSE y[i - Len(x)]
    BY ConcatProperties
  <2>2. head \o tail \in Seq(Line) /\ Len(head \o tail) = 2 + Len(tail)
    BY <1>8, <1>11, <2>0, Zenon
  <2>3. \A i \in 1..2 + Len(tail) : (head \o tail)[i] = IF i <= 2 THEN head[i] ELSE tail[i - 2]
    <3>1. \A i \in 1..Len(head) + Len(tail) :
              (head \o tail)[i] = IF i <= Len(head) THEN head[i] ELSE tail[i - Len(head)]
      BY <1>8, <1>11, <2>0, Zenon
    <3> QED BY <3>1, <1>11
  <2>4. DOMAIN (head \o tail) = 1..2 + Len(tail)
    BY <2>2, LenProperties
  <2> QED BY <2>2, <2>3, <2>4
<1>13. Generate(data) = head \o tail
  BY <1>10 DEF head
<1>14. ASSUME NEW i \in 1..2 + Len(tail)
       PROVE  \/ (head \o tail)[i] \in {Comment, Header}
              \/ \E j \in 1..n : (head \o tail)[i] = shown[j]
  <2>1. CASE i <= 2
    <3>1. i = 1 \/ i = 2
      BY <1>8, <2>1
    <3> QED BY <1>11, <1>12, <2>1, <3>1
  <2>2. CASE i > 2
    <3>1. i - 2 \in DOMAIN tail
      BY <1>8, <2>2
    <3>2. (head \o tail)[i] = tail[i - 2]
      BY <1>12, <2>2
    <3> QED BY <1>8, <3>1, <3>2
  <2>3. i <= 2 \/ i > 2
    BY <1>8
  <2> QED BY <2>1, <2>2, <2>3
<1>15. \A k \in S : \E i \in 1..2 + Len(tail) : (head \o tail)[i] = RowLine(k, data[k])
  <2> TAKE k \in S
  <2>1. PICK i \in DOMAIN tail : tail[i] = RowLine(k, data[k])
    BY <1>9
  <2>2. i + 2 \in 1..2 + Len(tail) /\ ~(i + 2 <= 2) /\ (i + 2) - 2 = i
    BY <1>8
  <2>3. (head \o tail)[i + 2] = tail[i]
    BY <1>12, <2>2
  <2> QED BY <2>1, <2>2, <2>3
<1>16. \A j \in 1..n : /\ shown[j].kind = "row" /\ shown[j].pair \in Pairs
                        /\ data[shown[j].pair] # NoRow /\ shown[j].row = data[shown[j].pair]
  <2> TAKE j \in 1..n
  <2>1. present[j] \in Pairs /\ data[present[j]] # NoRow
    BY <1>3
  <2>2. \A k, r : RowLine(k, r).kind = "row" /\ RowLine(k, r).pair = k /\ RowLine(k, r).row = r
    BY DEF RowLine
  <2>3. shown[j] = RowLine(present[j], data[present[j]])
    BY <1>5
  <2> QED BY <2>1, <2>2, <2>3
<1>17. Comment.kind \notin {"row", "broken", "garbage"} /\ Header.kind \notin {"row", "broken", "garbage"}
  BY DEF Comment, Header
<1>18. ASSUME NEW i \in 1..2 + Len(tail)
       PROVE  LET l == (head \o tail)[i]
              IN  /\ l.kind \notin {"broken", "garbage"}
                  /\ l.kind = "row" => l.pair \in Pairs /\ data[l.pair] # NoRow /\ l.row = data[l.pair]
  <2>1. CASE (head \o tail)[i] \in {Comment, Header}
    BY <1>17, <2>1
  <2>2. CASE \E j \in 1..n : (head \o tail)[i] = shown[j]
    BY <1>16, <2>2
  <2> QED BY <1>14, <2>1, <2>2
<1> QED BY <1>12, <1>13, <1>15, <1>18

-----------------------------------------------------------------------------
(* What the rows and the errors found in a text come to. *)

NameErrors(t, pairs) ==
    {[line |-> i, about |-> "names"] : i \in UNION {LinesByTarget(t, k) : k \in pairs}}

(* The rows that are left when the pairs bad are refused, ... *)
Kept(t, bad) == {x \in ParseRows(t) : x.pair \notin bad}

AllErrors(t, bad) == ParseErrors(t) \cup NameErrors(t, bad)

(* ... and those put back for lines in error that are ignored. *)
Restored(f, t, errs) ==
    {[pair |-> k, row |-> f[k]] :
        k \in {j \in Pairs : f[j] # NoRow /\ \E e \in errs : NamesPair(t[e.line], j)}}

(* Does an error name the pair k? *)
Named(t, bad, k) == \E e \in AllErrors(t, bad) : NamesPair(t[e.line], k)

RowsOf(k, to) == {x.row : x \in {y \in to : y.pair = k}}

Given(t, k) == {t[i].row : i \in {j \in Parsed(t) : t[j].pair = k}}

(* The rows parsed for a pair are those of its lines that are not dropped. *)
LEMMA RowsOfParsed ==
    ASSUME NEW t, NEW k
    PROVE  RowsOf(k, ParseRows(t)) = {t[i].row : i \in {j \in Parsed(t) \ Dropped(t) : t[j].pair = k}}
<1> DEFINE P == Parsed(t) \ Dropped(t)
<1>1. ASSUME NEW r \in RowsOf(k, ParseRows(t))
      PROVE  \E i \in P : t[i].pair = k /\ t[i].row = r
  <2>1. PICK x \in ParseRows(t) : x.pair = k /\ x.row = r
    BY DEF RowsOf
  <2>2. PICK i \in P : x = [pair |-> t[i].pair, row |-> t[i].row]
    BY <2>1 DEF ParseRows
  <2>3. x.pair = t[i].pair /\ x.row = t[i].row
    BY <2>2
  <2> QED BY <2>1, <2>2, <2>3
<1>2. ASSUME NEW i \in P, t[i].pair = k
      PROVE  t[i].row \in RowsOf(k, ParseRows(t))
  <2> DEFINE x == [pair |-> t[i].pair, row |-> t[i].row]
  <2>1. x \in ParseRows(t)
    BY DEF ParseRows
  <2>2. x.pair = k /\ x.row = t[i].row
    BY <1>2
  <2> HIDE DEF x
  <2> QED BY <2>1, <2>2 DEF RowsOf
<1> HIDE DEF P
<1>3. RowsOf(k, ParseRows(t)) = {t[i].row : i \in {j \in P : t[j].pair = k}}
  BY <1>1, <1>2
<1> QED BY <1>3 DEF P

EndRows(f, t, bad, k) ==
    (IF k \in bad THEN {} ELSE RowsOf(k, ParseRows(t)))
    \cup (IF f[k] # NoRow /\ Named(t, bad, k) THEN {f[k]} ELSE {})

(* The rows of a pair after the lines in error are ignored. *)
LEMMA RowsOfEnd ==
    ASSUME NEW f, NEW t, NEW bad, NEW k \in Pairs
    PROVE  RowsOf(k, Kept(t, bad) \cup Restored(f, t, AllErrors(t, bad)))
               = EndRows(f, t, bad, k)
<1>1. RowsOf(k, Kept(t, bad)) = IF k \in bad THEN {} ELSE RowsOf(k, ParseRows(t))
  BY DEF RowsOf, Kept
<1>2. RowsOf(k, Restored(f, t, AllErrors(t, bad)))
          = IF f[k] # NoRow /\ Named(t, bad, k) THEN {f[k]} ELSE {}
  <2> DEFINE J == {j \in Pairs : f[j] # NoRow /\ \E e \in AllErrors(t, bad) : NamesPair(t[e.line], j)}
  <2>1. Restored(f, t, AllErrors(t, bad)) = {[pair |-> j, row |-> f[j]] : j \in J}
    BY DEF Restored
  <2>2. k \in J <=> f[k] # NoRow /\ Named(t, bad, k)
    BY DEF Named
  <2> HIDE DEF J
  <2>3. RowsOf(k, {[pair |-> j, row |-> f[j]] : j \in J}) = IF k \in J THEN {f[k]} ELSE {}
    <3> DEFINE R == {[pair |-> j, row |-> f[j]] : j \in J}
    <3>1. ASSUME NEW x \in R, x.pair = k
          PROVE  k \in J /\ x.row = f[k]
      BY <3>1
    <3>2. ASSUME k \in J
          PROVE  \E x \in R : x.pair = k /\ x.row = f[k]
      <4> DEFINE x == [pair |-> k, row |-> f[k]]
      <4>1. x \in R /\ x.pair = k /\ x.row = f[k]
        BY <3>2
      <4> HIDE DEF x, R
      <4> QED BY <4>1
    <3> HIDE DEF R
    <3>3. RowsOf(k, R) = IF k \in J THEN {f[k]} ELSE {}
      BY <3>1, <3>2 DEF RowsOf
    <3> QED BY <3>3 DEF R
  <2> QED BY <2>1, <2>2, <2>3
<1>3. \A A, B : RowsOf(k, A \cup B) = RowsOf(k, A) \cup RowsOf(k, B)
  BY DEF RowsOf
<1> QED BY <1>1, <1>2, <1>3 DEF EndRows

(* DiffsFor and Meant, for rows, a text and refused pairs that are not the       *)
(* current ones.                                                              *)
DiffsFrom(f, k, to) ==
    {DiffPair(f[k], r) : r \in IF RowsOf(k, to) = {} THEN {NoRow} ELSE RowsOf(k, to)} \ {Noop}

MeantBy(f, t, bad, k) ==
    IF LinesByTarget(t, k) = {} THEN NoRow
    ELSE IF k \notin bad /\ \E r \in Given(t, k) : Given(t, k) = {r} THEN CHOOSE r \in Given(t, k) : TRUE
    ELSE f[k]

MeansText(f, to, t, bad) ==
    \A k \in Pairs : DiffsFrom(f, k, to) = {DiffPair(f[k], MeantBy(f, t, bad, k))} \ {Noop}

(* The property in terms of these operators, now and after a step. *)
LEMMA MeansItsText ==
    /\ EditorMeansItsText <=> (stage = "done" => MeansText(fetched, rows, saved, refused))
    /\ EditorMeansItsText' <=> (stage' = "done" => MeansText(fetched', rows', saved', refused'))
<1>1. /\ \A k : DiffsFor(k, rows) = DiffsFrom(fetched, k, rows)
      /\ \A k : DiffsFor(k, rows)' = DiffsFrom(fetched', k, rows')
  BY DEF DiffsFor, DiffsFrom, RowsOf
<1>2. /\ \A k : Meant(k) = MeantBy(fetched, saved, refused, k)
      /\ \A k : Meant(k)' = MeantBy(fetched', saved', refused', k)
  BY DEF Meant, MeantBy, Given
<1> QED BY <1>1, <1>2 DEF EditorMeansItsText, MeansText

(* Which errors name a pair: a broken line, a line that contradicts an earlier  *)
(* one, and any line of a pair that is refused.                               *)
LEMMA ErrorNames ==
    ASSUME NEW t, NEW bad, NEW k
    PROVE  Named(t, bad, k)
               <=> \/ \E i \in DOMAIN t : t[i].kind = "broken" /\ t[i].pair = k
                   \/ \E i \in DuplicateErrors(t) : t[i].pair = k
                   \/ \E b \in bad : LinesByTarget(t, b) \cap LinesByTarget(t, k) # {}
<1> DEFINE D == {j \in DOMAIN t : t[j].kind \in {"broken", "garbage"}} \cup DuplicateErrors(t)
           N == UNION {LinesByTarget(t, b) : b \in bad}
<1>1. Named(t, bad, k) <=> \E i \in D \cup N : NamesPair(t[i], k)
  <2>1. AllErrors(t, bad) = {[line |-> i, about |-> "text"] : i \in D} \cup {[line |-> i, about |-> "names"] : i \in N}
    BY DEF AllErrors, ParseErrors, NameErrors
  <2>2. ASSUME NEW e \in AllErrors(t, bad)
        PROVE  e.line \in D \cup N
    <3> HIDE DEF D, N
    <3>1. CASE \E i \in D : e = [line |-> i, about |-> "text"]
      BY <3>1
    <3>2. CASE \E i \in N : e = [line |-> i, about |-> "names"]
      BY <3>2
    <3> QED BY <2>1, <3>1, <3>2
  <2>3. ASSUME NEW i \in D \cup N
        PROVE  \E e \in AllErrors(t, bad) : e.line = i
    <3> HIDE DEF D, N
    <3>1. [line |-> i, about |-> "text"].line = i /\ [line |-> i, about |-> "names"].line = i
      OBVIOUS
    <3>2. [line |-> i, about |-> "text"] \in AllErrors(t, bad) \/ [line |-> i, about |-> "names"] \in AllErrors(t, bad)
      BY <2>1
    <3> QED BY <3>1, <3>2
  <2> HIDE DEF D, N
  <2> QED BY <2>2, <2>3 DEF Named
<1>2. \A i \in DuplicateErrors(t) : i \in DOMAIN t /\ t[i].kind = "row"
  BY DEF DuplicateErrors, Parsed
<1>3. (\E i \in D : NamesPair(t[i], k))
          <=> \/ \E i \in DOMAIN t : t[i].kind = "broken" /\ t[i].pair = k
              \/ \E i \in DuplicateErrors(t) : t[i].pair = k
  BY <1>2 DEF NamesPair
<1>4. (\E i \in N : NamesPair(t[i], k)) <=> \E b \in bad : LinesByTarget(t, b) \cap LinesByTarget(t, k) # {}
  BY DEF LinesByTarget
<1> QED BY <1>1, <1>3, <1>4

(* Of the lines that agree on the row of a pair one is kept, of lines that do    *)
(* not agree none, and one of these is an error.                               *)
LEMMA DuplicatesResolved ==
    ASSUME NEW t \in Seq(Line), NEW k
    PROVE  /\ \A r : Given(t, k) = {r} => RowsOf(k, ParseRows(t)) = {r}
           /\ Given(t, k) = {} => RowsOf(k, ParseRows(t)) = {}
           /\ \A r1, r2 \in Given(t, k) : r1 # r2 =>
                  RowsOf(k, ParseRows(t)) = {} /\ \E i \in DuplicateErrors(t) : t[i].pair = k
<1> DEFINE P == {j \in Parsed(t) : t[j].pair = k}
<1>1. P \in SUBSET Nat
  BY DEF Parsed
<1>2. Given(t, k) = {t[i].row : i \in P}
  BY DEF Given
<1>3. RowsOf(k, ParseRows(t)) = {t[i].row : i \in {j \in P : j \notin Dropped(t)}}
  BY RowsOfParsed
<1>4. \A i \in P : Occurrences(t, i) = P /\ i \in Parsed(t) /\ t[i].pair = k
  BY DEF Occurrences
<1> HIDE DEF P
<1>5. \A i \in P : i \in Dropped(t) <=> (\E j \in P : j < i) \/ \E j \in P : t[j].row # t[i].row
  BY <1>4 DEF Dropped, IsLater, AllEqual
<1>6. \A i \in P : (\E j \in P : j < i) /\ (\E j \in P : t[j].row # t[i].row)
                     => i \in DuplicateErrors(t) /\ t[i].pair = k
  BY <1>4 DEF DuplicateErrors, IsLater, AllEqual
<1>7. ASSUME NEW r, Given(t, k) = {r}
      PROVE  RowsOf(k, ParseRows(t)) = {r}
  <2>1. P # {} /\ \A i \in P : t[i].row = r
    BY <1>2, <1>7
  <2>2. PICK i \in P : \A j \in P : i <= j
    BY <1>1, <2>1, LeastElement
  <2>3. i \notin Dropped(t)
    BY <1>1, <1>5, <2>1, <2>2
  <2> QED BY <1>3, <2>1, <2>3
<1>8. ASSUME Given(t, k) = {}
      PROVE  RowsOf(k, ParseRows(t)) = {}
  BY <1>2, <1>3, <1>8
<1>9. ASSUME NEW r1 \in Given(t, k), NEW r2 \in Given(t, k), r1 # r2
      PROVE  RowsOf(k, ParseRows(t)) = {} /\ \E i \in DuplicateErrors(t) : t[i].pair = k
  <2>1. PICK i \in P, j \in P : t[i].row = r1 /\ t[j].row = r2
    BY <1>2, <1>9
  <2>2. i < j \/ j < i
    BY <1>1, <1>9, <2>1
  <2>3. \A m \in P : m \in Dropped(t)
    BY <1>5, <1>9, <2>1
  <2>4. \/ i \in DuplicateErrors(t) /\ t[i].pair = k
        \/ j \in DuplicateErrors(t) /\ t[j].pair = k
    BY <1>6, <1>9, <2>1, <2>2
  <2> QED BY <1>3, <2>3, <2>4
<1> QED BY <1>7, <1>8, <1>9

(* The text generate_editor_content_from_privilege_data makes of any rows is     *)
(* parsed without errors, and to these rows.                                    *)
THEOREM GeneratedTextParsesBack ==
    ASSUME NEW data \in [Pairs -> MaybeRow]
    PROVE  /\ ParseErrors(Generate(data)) = {}
           /\ ParseRows(Generate(data))
                  = {[pair |-> k, row |-> data[k]] : k \in {j \in Pairs : data[j] # NoRow}}
<1> DEFINE t == Generate(data)
           S == {j \in Pairs : data[j] # NoRow}
           back == {[pair |-> k, row |-> data[k]] : k \in S}
<1>1. /\ t \in Seq(Line)
      /\ \A i \in DOMAIN t : t[i].kind \notin {"broken", "garbage"}
      /\ \A i \in Parsed(t) : t[i].pair \in S /\ t[i].row = data[t[i].pair]
      /\ \A k \in S : \E i \in DOMAIN t : t[i] = RowLine(k, data[k])
  BY GenerateShowsRows DEF Parsed
<1> HIDE DEF t
<1>2. \A i \in Parsed(t) : AllEqual(t, i)
  BY <1>1 DEF AllEqual, Occurrences
<1>3. ParseErrors(t) = {}
  BY <1>1, <1>2 DEF ParseErrors, DuplicateErrors
<1>4. ASSUME NEW k \in S
      PROVE  [pair |-> k, row |-> data[k]] \in ParseRows(t)
  <2>1. PICK i \in DOMAIN t : t[i] = RowLine(k, data[k])
    BY <1>1
  <2>2. i \in Parsed(t) /\ t[i].pair = k
    BY <2>1 DEF RowLine, Parsed
  <2>3. Given(t, k) = {data[k]}
    BY <1>1, <2>2 DEF Given
  <2>4. RowsOf(k, ParseRows(t)) = {data[k]}
    <3>1. t \in Seq(Line)
      BY <1>1
    <3>2. \A r : Given(t, k) = {r} => RowsOf(k, ParseRows(t)) = {r}
      BY <3>1, DuplicatesResolved
    <3> QED BY <2>3, <3>2
  <2>5. PICK x \in ParseRows(t) : x.pair = k /\ x.row = data[k]
    BY <2>4 DEF RowsOf
  <2>6. PICK j : x = [pair |-> t[j].pair, row |-> t[j].row]
    BY <2>5 DEF ParseRows
  <2> QED BY <2>5, <2>6
<1>5. ASSUME NEW x \in ParseRows(t)
      PROVE  x \in back
  <2>1. PICK i \in Parsed(t) : x = [pair |-> t[i].pair, row |-> t[i].row]
    BY DEF ParseRows
  <2>2. t[i].pair \in S /\ x = [pair |-> t[i].pair, row |-> data[t[i].pair]]
    BY <1>1, <2>1
  <2> QED BY <2>2
<1>6. ParseRows(t) = back
  BY <1>4, <1>5
<1> QED BY <1>3, <1>6 DEF t

(* A row that stays as it is makes no diff. *)
LEMMA SameRow ==
    ASSUME NEW r \in MaybeRow
    PROVE  DiffPair(r, r) = Noop
  BY DEF DiffPair, ModifiedOrNoop, IsEmpty, FromRows, ChangeNew, MaybeRow, Row

(* The meaning of a text, when the lines in error are ignored. *)
LEMMA EndMeansText ==
    ASSUME NEW f \in [Pairs -> MaybeRow], NEW t \in Seq(Line), NEW bad \in SUBSET Pairs
    PROVE  MeansText(f, Kept(t, bad) \cup Restored(f, t, AllErrors(t, bad)), t, bad)
<1> DEFINE end == Kept(t, bad) \cup Restored(f, t, AllErrors(t, bad))
<1> SUFFICES ASSUME NEW k \in Pairs
             PROVE  DiffsFrom(f, k, end) = {DiffPair(f[k], MeantBy(f, t, bad, k))} \ {Noop}
  BY DEF MeansText
<1> DEFINE named == Named(t, bad, k)
           rs    == RowsOf(k, end)
           given == Given(t, k)
           was   == f[k]
           meant == MeantBy(f, t, bad, k)
<1>1. DiffsFrom(f, k, end) = {DiffPair(was, r) : r \in IF rs = {} THEN {NoRow} ELSE rs} \ {Noop}
  BY DEF DiffsFrom
<1>2. rs = (IF k \in bad THEN {} ELSE RowsOf(k, ParseRows(t)))
           \cup (IF was # NoRow /\ named THEN {was} ELSE {})
  <2>1. rs = EndRows(f, t, bad, k)
    BY RowsOfEnd
  <2> QED BY <2>1 DEF EndRows
<1>3. was \in MaybeRow /\ DiffPair(was, was) = Noop
  BY SameRow
<1>4. meant = IF LinesByTarget(t, k) = {} THEN NoRow
              ELSE IF k \notin bad /\ \E r \in given : given = {r} THEN CHOOSE r \in given : TRUE
              ELSE was
  BY DEF MeantBy
<1>5. \A i \in DOMAIN t : i \in LinesByTarget(t, k)
           <=> (t[i].kind = "row" \/ t[i].kind = "broken") /\ t[i].pair = k
  BY DEF LinesByTarget, NamesPair
<1>6. given # {} => LinesByTarget(t, k) # {}
  BY <1>5 DEF Given, Parsed
<1>7. LinesByTarget(t, k) # {} /\ given = {}
        => \E i \in DOMAIN t : t[i].kind = "broken" /\ t[i].pair = k
  BY <1>5 DEF Given, Parsed, LinesByTarget
<1>8. named <=> \/ \E i \in DOMAIN t : t[i].kind = "broken" /\ t[i].pair = k
                \/ \E i \in DuplicateErrors(t) : t[i].pair = k
                \/ \E b \in bad : LinesByTarget(t, b) \cap LinesByTarget(t, k) # {}
  BY ErrorNames
<1>9. /\ \A r : given = {r} => RowsOf(k, ParseRows(t)) = {r}
      /\ given = {} => RowsOf(k, ParseRows(t)) = {}
      /\ \A r1, r2 \in given : r1 # r2 =>
             RowsOf(k, ParseRows(t)) = {} /\ \E i \in DuplicateErrors(t) : t[i].pair = k
  BY DuplicatesResolved
<1>10. \A i \in DuplicateErrors(t) : i \in DOMAIN t /\ t[i].kind = "row"
  BY DEF DuplicateErrors, Parsed
<1> HIDE DEF end, named, rs, given, was, meant
<1>11. CASE LinesByTarget(t, k) = {}
  <2>1. ~named
    BY <1>5, <1>8, <1>10, <1>11
  <2>2. given = {}
    BY <1>6, <1>11
  <2>3. rs = {}
    BY <1>2, <1>9, <2>1, <2>2
  <2>4. meant = NoRow
    BY <1>4, <1>11
  <2> QED BY <1>1, <2>3, <2>4 DEF was, meant
(* Whenever the row is the one it was before, or none, and that is what it is    *)
(* meant to be.                                                               *)
<1>12. ASSUME rs = IF was # NoRow THEN {was} ELSE {}, meant = was
       PROVE  DiffsFrom(f, k, end) = {DiffPair(was, meant)} \ {Noop}
  <2>1. (IF rs = {} THEN {NoRow} ELSE rs) = {was}
    BY <1>12
  <2> QED BY <1>1, <1>12, <2>1
<1>13. CASE LinesByTarget(t, k) # {} /\ k \in bad
  <2>1. named
    BY <1>8, <1>13
  <2>2. rs = IF was # NoRow THEN {was} ELSE {}
    BY <1>2, <1>13, <2>1
  <2>3. meant = was
    BY <1>4, <1>13
  <2> QED BY <1>12, <2>2, <2>3 DEF was, meant
<1>14. CASE k \notin bad /\ \E r : given = {r}
  <2>1. PICK r : given = {r}
    BY <1>14
  <2>2. meant = r
    <3>1. (CHOOSE x \in {r} : TRUE) = r
      OBVIOUS
    <3> QED BY <1>4, <1>6, <1>14, <2>1, <3>1
  <2>3. rs = {r} \/ rs = {r, was}
    BY <1>2, <1>9, <1>14, <2>1
  <2>4. (IF rs = {} THEN {NoRow} ELSE rs) = rs
    BY <2>3
  <2>5. {DiffPair(was, x) : x \in rs} \ {Noop} = {DiffPair(was, r)} \ {Noop}
    BY <1>3, <2>3
  <2> QED BY <1>1, <2>2, <2>4, <2>5 DEF was, meant
<1>15. CASE LinesByTarget(t, k) # {} /\ k \notin bad /\ ~\E r : given = {r}
  <2>1. named /\ RowsOf(k, ParseRows(t)) = {}
    <3>1. CASE given = {}
      BY <1>7, <1>8, <1>9, <1>15, <3>1
    <3>2. CASE given # {}
      <4>1. PICK r1 \in given : TRUE
        BY <3>2
      <4>2. PICK r2 \in given : r1 # r2
        <5>1. given # {r1}
          BY <1>15
        <5> QED BY <4>1, <5>1
      <4> QED BY <1>8, <1>9, <4>1, <4>2
    <3> QED BY <3>1, <3>2
  <2>2. rs = IF was # NoRow THEN {was} ELSE {}
    BY <1>2, <1>15, <2>1
  <2>3. meant = was
    BY <1>4, <1>15
  <2> QED BY <1>12, <2>2, <2>3 DEF was, meant
<1>16. \/ LinesByTarget(t, k) = {}
       \/ LinesByTarget(t, k) # {} /\ k \in bad
       \/ k \notin bad /\ \E r : given = {r}
       \/ LinesByTarget(t, k) # {} /\ k \notin bad /\ ~\E r : given = {r}
  OBVIOUS
<1> QED BY <1>11, <1>13, <1>14, <1>15, <1>16

(* What it comes to when nothing was saved: the text that was shown, ... *)
LEMMA AbandonedMeansText ==
    ASSUME NEW f \in [Pairs -> MaybeRow]
    PROVE  MeansText(f, {[pair |-> j, row |-> f[j]] : j \in {i \in Pairs : f[i] # NoRow}}, Generate(f), {})
<1> DEFINE end == {[pair |-> j, row |-> f[j]] : j \in {i \in Pairs : f[i] # NoRow}}
           t   == Generate(f)
<1> SUFFICES ASSUME NEW k \in Pairs
             PROVE  DiffsFrom(f, k, end) = {DiffPair(f[k], MeantBy(f, t, {}, k))} \ {Noop}
  BY DEF MeansText
<1> DEFINE was   == f[k]
           rs    == RowsOf(k, end)
           given == Given(t, k)
           meant == MeantBy(f, t, {}, k)
<1>1. DiffsFrom(f, k, end) = {DiffPair(was, r) : r \in IF rs = {} THEN {NoRow} ELSE rs} \ {Noop}
  BY DEF DiffsFrom
<1>2. rs = IF was # NoRow THEN {was} ELSE {}
  <2>1. ASSUME NEW x \in end, x.pair = k
        PROVE  was # NoRow /\ x.row = was
    BY <2>1
  <2>2. ASSUME was # NoRow
        PROVE  \E x \in end : x.pair = k /\ x.row = was
    <3> DEFINE x == [pair |-> k, row |-> was]
    <3>1. x \in end /\ x.pair = k /\ x.row = was
      BY <2>2
    <3> HIDE DEF x, end
    <3> QED BY <3>1
  <2> HIDE DEF was, end
  <2> QED BY <2>1, <2>2 DEF RowsOf
<1>3. meant = IF LinesByTarget(t, k) = {} THEN NoRow
              ELSE IF \E r \in given : given = {r} THEN CHOOSE r \in given : TRUE
              ELSE was
  BY DEF MeantBy
<1>4. /\ \A i \in DOMAIN t : t[i].kind # "broken" /\
                              (t[i].kind = "row" => f[t[i].pair] # NoRow /\ t[i].row = f[t[i].pair])
      /\ was # NoRow => \E i \in DOMAIN t : t[i] = RowLine(k, was)
  BY GenerateShowsRows
<1> HIDE DEF t, end
<1>5. LinesByTarget(t, k) = {i \in DOMAIN t : t[i].kind = "row" /\ t[i].pair = k}
  BY <1>4 DEF LinesByTarget, NamesPair
<1>6. given = {t[i].row : i \in LinesByTarget(t, k)}
  BY <1>5 DEF Given, Parsed
<1>7. meant = was
  <2>1. CASE was = NoRow
    <3>1. LinesByTarget(t, k) = {}
      BY <1>4, <1>5, <2>1
    <3> QED BY <1>3, <2>1, <3>1
  <2>2. CASE was # NoRow
    <3>1. PICK i \in DOMAIN t : t[i] = RowLine(k, was)
      BY <1>4, <2>2
    <3>2. t[i].kind = "row" /\ t[i].pair = k /\ t[i].row = was
      BY <3>1 DEF RowLine
    <3>3. i \in LinesByTarget(t, k)
      BY <1>5, <3>1, <3>2
    <3>4. \A j \in LinesByTarget(t, k) : t[j].row = was
      BY <1>4, <1>5
    <3>5. given = {was}
      BY <1>6, <3>2, <3>3, <3>4
    <3> HIDE DEF given, was, meant
    <3>6. (CHOOSE r \in {was} : TRUE) = was
      OBVIOUS
    <3> QED BY <1>3, <3>3, <3>5, <3>6
  <2> QED BY <2>1, <2>2
<1>8. (IF rs = {} THEN {NoRow} ELSE rs) = {was}
  BY <1>2
<1> HIDE DEF rs, was, meant
<1> QED BY <1>1, <1>7, <1>8 DEF was, meant

-----------------------------------------------------------------------------
(* The inductive invariant: at every stage the rows and errors are the ones of  *)
(* the saved text, less the pairs the server refused.                          *)
EditorInv ==
    /\ fetched \in [Pairs -> MaybeRow]
    /\ stage \in {"editor", "check", "errors", "done"}
    /\ stage = "editor" => text \in Seq(Line) /\ refused = {}
    /\ stage \in {"check", "errors"} =>
           /\ saved \in Seq(Line \ {Marker}) /\ refused \subseteq Pairs
           /\ rows = Kept(saved, refused) /\ errors = AllErrors(saved, refused)
    /\ stage = "check" => refused = {}
    /\ EditorMeansItsText

(* The text offered first satisfies the invariant. *)
LEMMA EditorInvInit == EditorInit => EditorInv
  BY GenerateShowsRows DEF EditorInit, EditorInv, EditorMeansItsText

(* A text in which a line is changed, inserted or removed is a text. *)
LEMMA LineSeq ==
    ASSUME NEW t \in Seq(Line)
    PROVE  /\ \A i \in DOMAIN t, l \in Line : [t EXCEPT ![i] = l] \in Seq(Line)
           /\ \A i \in 1..Len(t) + 1, l \in Line : InsertAt(t, i, l) \in Seq(Line)
           /\ \A i \in DOMAIN t : RemoveAt(t, i) \in Seq(Line)
<1>0. Len(t) \in Nat /\ DOMAIN t = 1..Len(t) /\ \A i \in 1..Len(t) : t[i] \in Line
  OBVIOUS
<1>1. \A i \in DOMAIN t, l \in Line : [t EXCEPT ![i] = l] \in Seq(Line)
  BY ExceptSeq, <1>0
<1>2. \A a \in 1..Len(t) + 2, b \in 0..Len(t) : SubSeq(t, a, b) \in Seq(Line)
  <2> TAKE a \in 1..Len(t) + 2, b \in 0..Len(t)
  <2>1. a \in Int /\ b \in Int /\ \A i \in a..b : t[i] \in Line
    BY <1>0
  <2> QED BY <2>1, SubSeqProperties
<1>3. \A x, y \in Seq(Line) : x \o y \in Seq(Line)
  BY ConcatProperties
<1>4. ASSUME NEW i \in 1..Len(t) + 1, NEW l \in Line
      PROVE  InsertAt(t, i, l) \in Seq(Line)
  <2>1. SubSeq(t, 1, i - 1) \in Seq(Line) /\ SubSeq(t, i, Len(t)) \in Seq(Line)
    <3>1. 1 \in 1..Len(t) + 2 /\ i - 1 \in 0..Len(t) /\ i \in 1..Len(t) + 2 /\ Len(t) \in 0..Len(t)
      BY <1>0
    <3> QED BY <1>2, <3>1, Zenon
  <2>2. <<l>> \in Seq(Line)
    OBVIOUS
  <2> QED BY <1>3, <2>1, <2>2, Zenon DEF InsertAt
<1>5. ASSUME NEW i \in DOMAIN t
      PROVE  RemoveAt(t, i) \in Seq(Line)
  <2>1. SubSeq(t, 1, i - 1) \in Seq(Line) /\ SubSeq(t, i + 1, Len(t)) \in Seq(Line)
    <3>1. 1 \in 1..Len(t) + 2 /\ i - 1 \in 0..Len(t) /\ i + 1 \in 1..Len(t) + 2 /\ Len(t) \in 0..Len(t)
      BY <1>0
    <3> QED BY <1>2, <3>1, Zenon
  <2> QED BY <1>3, <2>1, Zenon DEF RemoveAt
<1> QED BY <1>1, <1>4, <1>5

(* Every step of the user and of edit-privs keeps the invariant. *)
LEMMA EditorInvStep == EditorInv /\ [EditorNext]_editorVars => EditorInv'
<1> SUFFICES ASSUME EditorInv, [EditorNext]_editorVars
             PROVE  EditorInv'
  OBVIOUS
<1>0. /\ fetched \in [Pairs -> MaybeRow]
      /\ stage \in {"editor", "check", "errors", "done"}
      /\ stage = "editor" => text \in Seq(Line) /\ refused = {}
      /\ stage \in {"check", "errors"} =>
             /\ saved \in Seq(Line \ {Marker}) /\ refused \subseteq Pairs
             /\ rows = Kept(saved, refused) /\ errors = AllErrors(saved, refused)
      /\ stage = "check" => refused = {}
  BY DEF EditorInv
<1>1. CASE UNCHANGED editorVars
  <2>1. EditorMeansItsText'
    BY <1>1, MeansItsText DEF editorVars, EditorInv
  <2> QED BY <1>1, <2>1 DEF editorVars, EditorInv
<1>2. CASE ChangeLine
  <2>1. text \in Seq(Line) /\ UserLines \subseteq Line
    BY <1>0, <1>2 DEF ChangeLine, Line
  <2>2. text' \in Seq(Line)
    <3>1. CASE \E i \in DOMAIN text, l \in UserLines : text' = [text EXCEPT ![i] = l]
      BY <2>1, <3>1, LineSeq
    <3>2. CASE \E i \in 1..Len(text) + 1, l \in UserLines : text' = InsertAt(text, i, l)
      BY <2>1, <3>2, LineSeq
    <3>3. CASE \E i \in DOMAIN text : text' = RemoveAt(text, i)
      BY <2>1, <3>3, LineSeq
    <3> QED BY <1>2, <3>1, <3>2, <3>3 DEF ChangeLine
  <2>3. stage' = "editor" /\ fetched' = fetched /\ refused' = {}
    BY <1>0, <1>2 DEF ChangeLine
  <2> QED BY <1>0, <2>2, <2>3 DEF EditorInv, EditorMeansItsText
<1>3. CASE Abandon
  <2>1. /\ fetched' \in [Pairs -> MaybeRow] /\ saved' = Generate(fetched') /\ refused' = {}
        /\ rows' = {[pair |-> j, row |-> fetched'[j]] : j \in {i \in Pairs : fetched'[i] # NoRow}}
        /\ stage' = "done"
    BY <1>0, <1>3 DEF Abandon
  <2>2. MeansText(fetched', rows', saved', refused')
    BY <2>1, AbandonedMeansText
  <2>3. EditorMeansItsText'
    BY <2>2, MeansItsText
  <2> QED BY <2>1, <2>3 DEF EditorInv
<1>4. CASE Save
  <2>1. /\ stage = "editor" /\ stage' = "check" /\ fetched' = fetched /\ refused' = {} /\ refused = {}
        /\ saved' = Strip(text) /\ rows' = ParseRows(saved') /\ errors' = ParseErrors(saved')
        /\ text \in Seq(Line)
    BY <1>0, <1>4 DEF Save
  <2>2. saved' \in Seq(Line \ {Marker})
    BY <2>1, StripTakesErrors
  <2>3. rows' = Kept(saved', refused')
    BY <2>1 DEF Kept
  <2>4. errors' = AllErrors(saved', refused')
    BY <2>1 DEF AllErrors, NameErrors
  <2> QED BY <1>0, <2>1, <2>2, <2>3, <2>4 DEF EditorInv, EditorMeansItsText
<1>5. CASE GoBack
  <2>1. /\ stage = "errors" /\ stage' = "editor" /\ fetched' = fetched /\ refused' = {}
        /\ text' = Inline(saved, errors) /\ saved \in Seq(Line \ {Marker})
    BY <1>0, <1>5 DEF GoBack
  <2>2. text' \in Seq(Line)
    BY <2>1, InlineAddsErrors
  <2> QED BY <1>0, <2>1, <2>2 DEF EditorInv, EditorMeansItsText
<1>6. CASE IgnoreErrors
  <2>1. /\ stage = "errors" /\ stage' = "done" /\ fetched' = fetched /\ refused' = refused
        /\ saved' = saved /\ saved \in Seq(Line \ {Marker}) /\ refused \subseteq Pairs
        /\ rows' = Kept(saved, refused) \cup Restored(fetched, saved, AllErrors(saved, refused))
    BY <1>0, <1>6 DEF IgnoreErrors, Restored
  <2>2. saved \in Seq(Line)
    BY <2>1, SeqMonotonic
  <2>3. MeansText(fetched', rows', saved', refused')
    BY <1>0, <2>1, <2>2, EndMeansText
  <2>4. EditorMeansItsText'
    BY <2>3, MeansItsText
  <2> QED BY <1>0, <2>1, <2>4 DEF EditorInv
<1>7. ASSUME NEW bad \in SUBSET Pairs, Detect(bad)
      PROVE  EditorInv'
  <2>1. /\ stage = "check" /\ refused = {} /\ fetched' = fetched /\ saved' = saved
        /\ saved \in Seq(Line \ {Marker}) /\ refused' \subseteq Pairs
        /\ rows = Kept(saved, {}) /\ errors = AllErrors(saved, {})
        /\ rows' = {x \in rows : x.pair \notin refused'}
        /\ errors' = errors \cup NameErrors(saved, refused')
        /\ stage' = IF errors' = {} THEN "done" ELSE "errors"
    BY <1>0, <1>7 DEF Detect, NameErrors
  <2>2. rows' = Kept(saved', refused')
    BY <2>1 DEF Kept
  <2>3. errors' = AllErrors(saved', refused')
    BY <2>1 DEF AllErrors, NameErrors
  <2>4. ASSUME errors' = {}
        PROVE  MeansText(fetched', rows', saved', refused')
    <3>1. saved \in Seq(Line)
      BY <2>1, SeqMonotonic
    <3>2. MeansText(fetched, Kept(saved, refused')
                                 \cup Restored(fetched, saved, AllErrors(saved, refused')), saved, refused')
      BY <1>0, <2>1, <3>1, EndMeansText
    <3>3. Restored(fetched, saved, AllErrors(saved, refused')) = {}
      BY <2>1, <2>3, <2>4 DEF Restored
    <3> QED BY <2>1, <2>2, <3>2, <3>3
  <2>5. EditorMeansItsText'
    BY <2>1, <2>4, MeansItsText
  <2> QED BY <1>0, <2>1, <2>2, <2>3, <2>5 DEF EditorInv
<1> QED BY <1>1, <1>2, <1>3, <1>4, <1>5, <1>6, <1>7 DEF EditorNext

(* So it holds throughout. *)
LEMMA EditorInvariant == EditorSpec => []EditorInv
  BY EditorInvInit, EditorInvStep, PTL DEF EditorSpec

(* However many pairs there are, however often the user changes the text, saves *)
(* it, goes back to fix errors or ignores them, edit-privs takes from the       *)
(* editor the change of each pair that the saved text asks for, and no other.   *)
THEOREM EditorMeaning == EditorSpec => []EditorMeansItsText
<1>1. EditorInv => EditorMeansItsText
  BY DEF EditorInv
<1> QED BY <1>1, EditorInvariant, PTL

(* Stripping what inline_errors_into_editor_content added gives the user's text  *)
(* back, whatever the errors and wherever they are.                            *)
THEOREM ErrorsAreStripped == EditorSpec => ErrorsLeaveTextAlone
<1>1. ASSUME EditorInv, [EditorNext]_editorVars
      PROVE  [stage = "errors" /\ stage' = "editor" =>
                 Without(Strip(text'), {Indented}) = Without(saved, {Indented})]_editorVars
  <2> SUFFICES ASSUME stage = "errors", stage' = "editor"
               PROVE  Without(Strip(text'), {Indented}) = Without(saved, {Indented})
    OBVIOUS
  <2>1. GoBack
    BY <1>1 DEF EditorNext, editorVars, ChangeLine, Abandon, Save, IgnoreErrors, Detect
  <2>2. text' = Inline(saved, errors) /\ saved \in Seq(Line \ {Marker})
    BY <1>1, <2>1 DEF GoBack, EditorInv
  <2>3. text' \in Seq(Line) /\ Without(text', {Marker, Indented}) = Without(saved, {Indented})
    BY <2>2, InlineAddsErrors
  <2>4. Without(Strip(text'), {Indented}) = Without(text', {Marker, Indented})
    BY <2>3, StripTakesErrors
  <2> QED BY <2>3, <2>4
<1> QED BY <1>1, EditorInvariant, PTL DEF EditorSpec, ErrorsLeaveTextAlone

=============================================================================
