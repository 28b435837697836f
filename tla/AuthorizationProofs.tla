------------------------- MODULE AuthorizationProofs --------------------------
(***************************************************************************)
(* What the denylist matches, and what the advertised prefixes are good for, *)
(* for any groups, users, names and lines of the denylist file.              *)
(***************************************************************************)
EXTENDS Authorization, SequenceTheorems, WellFoundedInduction, NaturalsInduction, TLAPS

(* Induction over the naturals, for a set of them. *)
LEMMA SetInduction ==
    ASSUME NEW T, 0 \in T, \A n \in Nat : n \in T => n + 1 \in T
    PROVE  Nat \subseteq T
<1> SUFFICES ASSUME NEW m \in Nat \ T
             PROVE  FALSE
  OBVIOUS
<1>1. PICK x \in Nat \ T : \A y \in Nat \ T : ~(<<y, x>> \in OpToRel(<, Nat))
  <2>1. IsWellFoundedOn(OpToRel(<, Nat), Nat)
    BY NatLessThanWellFounded
  <2>2. Nat \ T \subseteq Nat /\ Nat \ T # {}
    OBVIOUS
  <2> QED BY <2>1, <2>2, WFMin
<1>2. x # 0 /\ x - 1 \in Nat /\ x - 1 < x /\ (x - 1) + 1 = x
  OBVIOUS
<1>3. x - 1 \notin Nat \ T
  BY <1>1, <1>2 DEF OpToRel
<1> QED BY <1>1, <1>2, <1>3

-----------------------------------------------------------------------------
(* How far into a name the pieces of a pattern can reach. *)

Piece(c, name, j, k) ==
    IF c = "*" THEN j <= k ELSE k = j + 1 /\ c \in {"?", name[k]}

IsCut(p, name, cut) ==
    cut[0] = 0 /\ \A i \in 1..Len(p) : Piece(p[i], name, cut[i - 1], cut[i])

Reaches(p, name, k) ==
    \E cut \in [0..Len(p) -> 0..Len(name)] : IsCut(p, name, cut) /\ cut[Len(p)] = k

(* Patterns that match the same names. *)
Same(p, q, name) == \A k \in 0..Len(name) : Reaches(p, name, k) <=> Reaches(q, name, k)

(* A pattern matches a name when its pieces reach the end of it. *)
LEMMA MatchesIsReaches ==
    ASSUME NEW p, NEW name
    PROVE  RegexMatches(p, name) <=> Reaches(p, name, Len(name))
  BY DEF RegexMatches, Reaches, IsCut, Piece

(* One more character of the pattern takes one more piece of the name. *)
LEMMA ReachesOneMore ==
    ASSUME NEW p \in Seq(Chars), NEW c \in Chars, NEW name \in Seq(Chars), NEW k \in 0..Len(name)
    PROVE  Reaches(p \o <<c>>, name, k)
               <=> \E j \in 0..Len(name) : Reaches(p, name, j) /\ Piece(c, name, j, k)
<1> DEFINE q == p \o <<c>>
           n == Len(p)
           N == 0..Len(name)
<1>1. n \in Nat /\ Len(q) = n + 1 /\ q[n + 1] = c /\ \A i \in 1..n : q[i] = p[i]
  OBVIOUS
<1> HIDE DEF q, n, N
<1>2. ASSUME NEW cut \in [0..n + 1 -> N], IsCut(q, name, cut), cut[n + 1] = k
      PROVE  \E j \in N : Reaches(p, name, j) /\ Piece(c, name, j, k)
  <2> DEFINE less == [i \in 0..n |-> cut[i]]
  <2>1. less \in [0..n -> N] /\ \A i \in 0..n : less[i] = cut[i]
    BY <1>1
  <2>2. \A i \in 1..n + 1 : Piece(q[i], name, cut[i - 1], cut[i])
    BY <1>1, <1>2 DEF IsCut
  <2>3. Piece(c, name, cut[n], k)
    <3>1. n + 1 \in 1..n + 1 /\ (n + 1) - 1 = n
      BY <1>1
    <3> QED BY <1>1, <1>2, <2>2, <3>1
  <2>4. \A i \in 1..n : Piece(p[i], name, less[i - 1], less[i])
    <3> TAKE i \in 1..n
    <3>1. i \in 1..n + 1 /\ i \in 0..n /\ i - 1 \in 0..n
      BY <1>1
    <3>2. Piece(q[i], name, cut[i - 1], cut[i])
      BY <2>2, <3>1
    <3>3. q[i] = p[i] /\ less[i] = cut[i] /\ less[i - 1] = cut[i - 1]
      BY <1>1, <2>1, <3>1
    <3> HIDE DEF less
    <3> QED BY <3>2, <3>3
  <2>5. less[0] = 0 /\ less[n] = cut[n] /\ cut[n] \in N
    BY <1>1, <1>2, <2>1 DEF IsCut
  <2> HIDE DEF less
  <2>6. Reaches(p, name, cut[n])
    BY <2>1, <2>4, <2>5 DEF Reaches, IsCut, n, N
  <2> QED BY <2>3, <2>5, <2>6
<1>3. ASSUME NEW j \in N, Piece(c, name, j, k),
             NEW cut \in [0..n -> N], IsCut(p, name, cut), cut[n] = j
      PROVE  Reaches(q, name, k)
  <2> DEFINE more == [i \in 0..n + 1 |-> IF i = n + 1 THEN k ELSE cut[i]]
  <2>1. more \in [0..n + 1 -> N] /\ more[n + 1] = k /\ \A i \in 0..n : more[i] = cut[i]
    BY <1>1 DEF N
  <2> HIDE DEF more
  <2>2. \A i \in 1..n : Piece(p[i], name, cut[i - 1], cut[i])
    BY <1>3 DEF IsCut, n
  <2>3. \A i \in 1..n + 1 : Piece(q[i], name, more[i - 1], more[i])
    <3> TAKE i \in 1..n + 1
    <3>1. CASE i = n + 1
      <4>1. n \in 0..n /\ i - 1 = n
        BY <1>1, <3>1
      <4>2. q[i] = c /\ more[i] = k /\ more[i - 1] = j
        BY <1>1, <1>3, <2>1, <3>1, <4>1
      <4> QED BY <1>3, <4>2
    <3>2. CASE i # n + 1
      <4>1. i \in 1..n /\ i \in 0..n /\ i - 1 \in 0..n
        BY <1>1, <3>2
      <4>2. q[i] = p[i] /\ more[i] = cut[i] /\ more[i - 1] = cut[i - 1]
        BY <1>1, <2>1, <4>1
      <4> QED BY <2>2, <4>1, <4>2
    <3> QED BY <3>1, <3>2
  <2>4. more[0] = 0
    BY <1>1, <1>3, <2>1 DEF IsCut
  <2> QED BY <1>1, <2>1, <2>3, <2>4 DEF Reaches, IsCut, N
<1> QED BY <1>1, <1>2, <1>3 DEF Reaches, q, n, N

(* Patterns that match the same still do with the same character after them. *)
LEMMA SameOneMore ==
    ASSUME NEW p \in Seq(Chars), NEW q \in Seq(Chars), NEW c \in Chars, NEW name \in Seq(Chars),
           Same(p, q, name)
    PROVE  Same(p \o <<c>>, q \o <<c>>, name)
<1> SUFFICES ASSUME NEW k \in 0..Len(name)
             PROVE  Reaches(p \o <<c>>, name, k) <=> Reaches(q \o <<c>>, name, k)
  BY DEF Same
<1>1. \A j \in 0..Len(name) : Reaches(p, name, j) <=> Reaches(q, name, j)
  BY DEF Same
<1>2. /\ Reaches(p \o <<c>>, name, k) <=> \E j \in 0..Len(name) : Reaches(p, name, j) /\ Piece(c, name, j, k)
      /\ Reaches(q \o <<c>>, name, k) <=> \E j \in 0..Len(name) : Reaches(q, name, j) /\ Piece(c, name, j, k)
  BY ReachesOneMore
<1> QED BY <1>1, <1>2

Star == "*"
Mark == "?"

LEMMA WildcardType ==
    /\ Star \in Chars /\ <<Star>> \in Seq(Chars)
    /\ Mark \in Chars /\ <<Mark>> \in Seq(Chars)
<1>1. \A c \in Chars : <<c>> \in Seq(Chars)
  OBVIOUS
<1>2. Star \in Chars /\ Mark \in Chars
  BY NamesAssumption DEF Star, Mark
<1> QED BY <1>1, <1>2

LEMMA Concat ==
    ASSUME NEW p \in Seq(Chars), NEW q \in Seq(Chars)
    PROVE  p \o q \in Seq(Chars)
  OBVIOUS

LEMMA ConcatAssoc == \A x, y, z \in Seq(Chars) : (x \o y) \o z = x \o (y \o z)
  BY ConcatAssociative

(* Two stars are as good as one, and a question mark may go before a star. *)
LEMMA StarStar ==
    ASSUME NEW p \in Seq(Chars), NEW name \in Seq(Chars)
    PROVE  Same((p \o <<Star>>) \o <<Star>>, p \o <<Star>>, name)
<1> SUFFICES ASSUME NEW k \in 0..Len(name)
             PROVE  Reaches((p \o <<Star>>) \o <<Star>>, name, k) <=> Reaches(p \o <<Star>>, name, k)
  BY DEF Same
<1> DEFINE N == 0..Len(name)
<1>0. Star \in Chars /\ p \o <<Star>> \in Seq(Chars) /\ Len(name) \in Nat
  BY WildcardType, Concat
<1>1. Reaches((p \o <<Star>>) \o <<Star>>, name, k)
          <=> \E j \in N : Reaches(p \o <<Star>>, name, j) /\ Piece(Star, name, j, k)
  BY <1>0, ReachesOneMore
<1>2. \A j \in N : Reaches(p \o <<Star>>, name, j)
          <=> \E i \in N : Reaches(p, name, i) /\ Piece(Star, name, i, j)
  BY <1>0, ReachesOneMore
<1>3. \A i, j \in N : Piece(Star, name, i, j) <=> i <= j
  BY DEF Piece, Star, Mark
<1>4. ASSUME NEW i \in N, NEW j \in N, Reaches(p, name, i), i <= j, j <= k
      PROVE  Reaches(p \o <<Star>>, name, k)
  <2>1. i <= k
    BY <1>0, <1>4
  <2> QED BY <1>2, <1>3, <1>4, <2>1
<1>5. ASSUME Reaches(p \o <<Star>>, name, k)
      PROVE  \E j \in N : Reaches(p \o <<Star>>, name, j) /\ Piece(Star, name, j, k)
  <2>1. k <= k
    BY <1>0
  <2> QED BY <1>3, <1>5, <2>1
<1> QED BY <1>1, <1>2, <1>3, <1>4, <1>5

(* A star and a question mark may change places. *)
LEMMA MarkBeforeStar ==
    ASSUME NEW p \in Seq(Chars), NEW name \in Seq(Chars)
    PROVE  Same((p \o <<Star>>) \o <<Mark>>, (p \o <<Mark>>) \o <<Star>>, name)
<1> SUFFICES ASSUME NEW k \in 0..Len(name)
             PROVE  Reaches((p \o <<Star>>) \o <<Mark>>, name, k) <=> Reaches((p \o <<Mark>>) \o <<Star>>, name, k)
  BY DEF Same
<1> DEFINE N == 0..Len(name)
<1>0. /\ Star \in Chars /\ p \o <<Star>> \in Seq(Chars) /\ Len(name) \in Nat
      /\ Mark \in Chars /\ p \o <<Mark>> \in Seq(Chars)
  BY WildcardType, Concat
<1>1. /\ Reaches((p \o <<Star>>) \o <<Mark>>, name, k)
             <=> \E j \in N : Reaches(p \o <<Star>>, name, j) /\ Piece(Mark, name, j, k)
      /\ Reaches((p \o <<Mark>>) \o <<Star>>, name, k)
             <=> \E j \in N : Reaches(p \o <<Mark>>, name, j) /\ Piece(Star, name, j, k)
  BY <1>0, ReachesOneMore
<1>2. /\ \A j \in N : Reaches(p \o <<Star>>, name, j)
             <=> \E i \in N : Reaches(p, name, i) /\ Piece(Star, name, i, j)
      /\ \A j \in N : Reaches(p \o <<Mark>>, name, j)
             <=> \E i \in N : Reaches(p, name, i) /\ Piece(Mark, name, i, j)
  BY <1>0, ReachesOneMore
<1>3. \A i, j \in N : (Piece(Star, name, i, j) <=> i <= j) /\ (Piece(Mark, name, i, j) <=> j = i + 1)
  BY DEF Piece, Star, Mark
<1>4. ASSUME NEW i \in N, NEW j \in N, Reaches(p, name, i), i <= j, k = j + 1
      PROVE  Reaches((p \o <<Mark>>) \o <<Star>>, name, k)
  <2>1. i + 1 \in N /\ i + 1 <= k
    BY <1>0, <1>4
  <2> QED BY <1>1, <1>2, <1>3, <1>4, <2>1
<1>5. ASSUME NEW i \in N, NEW j \in N, Reaches(p, name, i), j = i + 1, j <= k
      PROVE  Reaches((p \o <<Star>>) \o <<Mark>>, name, k)
  <2>1. k - 1 \in N /\ i <= k - 1 /\ k = (k - 1) + 1
    BY <1>0, <1>5
  <2> QED BY <1>1, <1>2, <1>3, <1>5, <2>1
<1> QED BY <1>1, <1>2, <1>3, <1>4, <1>5

-----------------------------------------------------------------------------
(* Normalising a pattern. *)

State == [out : Seq(Chars), marks : Nat, star : BOOLEAN]

Start == [out |-> <<>>, marks |-> 0, star |-> FALSE]

(* The pattern made so far. *)
Text(a) == a.out \o Run(a)

Marks(m) == [i \in 1..m |-> "?"]

(* A run of question marks grows by one at its end. *)
LEMMA MarksType ==
    ASSUME NEW m \in Nat
    PROVE  /\ Marks(m) \in Seq(Chars)
           /\ Marks(m + 1) = Marks(m) \o <<Mark>>
           /\ Marks(0) = <<>>
<1>1. \A n \in Nat : Marks(n) \in Seq(Chars) /\ Len(Marks(n)) = n /\ \A i \in 1..n : Marks(n)[i] = Mark
  <2> TAKE n \in Nat
  <2>1. Marks(n) \in [1..n -> Chars]
    BY NamesAssumption DEF Marks
  <2>2. Marks(n) \in Seq(Chars)
    BY <2>1, SeqDef
  <2>3. \A i \in 1..n : Marks(n)[i] = Mark
    BY DEF Marks, Mark
  <2> QED BY <2>1, <2>2, <2>3
<1>2. Marks(m) \o <<Mark>> \in Seq(Chars) /\ Len(Marks(m) \o <<Mark>>) = m + 1
  BY <1>1, WildcardType, ConcatProperties
<1>3. \A i \in 1..m + 1 : (Marks(m) \o <<Mark>>)[i] = Mark
  BY <1>1, WildcardType
<1>4. Marks(m + 1) = Marks(m) \o <<Mark>>
  BY <1>1, <1>2, <1>3, SeqEqual
<1>5. Marks(0) = <<>>
  BY <1>1, EmptySeq
<1> QED BY <1>1, <1>4, <1>5

(* The text of a state of normalize, in the form the lemmas below append to. *)
LEMMA TextIs ==
    ASSUME NEW a \in State
    PROVE  /\ a.out \o Marks(a.marks) \in Seq(Chars)
           /\ a.star = TRUE  => Text(a) = (a.out \o Marks(a.marks)) \o <<Star>>
           /\ a.star = FALSE => Text(a) = a.out \o Marks(a.marks)
           /\ Text(a) \in Seq(Chars)
<1>1. a.out \in Seq(Chars) /\ a.marks \in Nat /\ a.star \in BOOLEAN
  BY DEF State
<1>2. Marks(a.marks) \in Seq(Chars)
  BY <1>1, MarksType
<1>3. a.out \o Marks(a.marks) \in Seq(Chars)
  BY <1>1, <1>2, Concat
<1>4. ASSUME a.star = TRUE
      PROVE  Text(a) = (a.out \o Marks(a.marks)) \o <<Star>>
  <2>1. Run(a) = Marks(a.marks) \o <<Star>>
    BY <1>4 DEF Run, Marks, Star
  <2>2. (a.out \o Marks(a.marks)) \o <<Star>> = a.out \o (Marks(a.marks) \o <<Star>>)
    BY <1>1, <1>2, WildcardType, ConcatAssoc, Zenon
  <2> QED BY <2>1, <2>2 DEF Text
<1>5. ASSUME a.star = FALSE
      PROVE  Text(a) = a.out \o Marks(a.marks)
  <2>1. Run(a) = Marks(a.marks) \o <<>>
    BY <1>5 DEF Run, Marks
  <2>2. Run(a) = Marks(a.marks)
    BY <1>2, <2>1, ConcatEmptySeq
  <2> QED BY <2>2 DEF Text
<1>6. Text(a) \in Seq(Chars)
  <2>1. CASE a.star = TRUE
    BY <1>3, <1>4, <2>1, WildcardType, Concat
  <2>2. CASE a.star = FALSE
    BY <1>3, <1>5, <2>2
  <2> QED BY <1>1, <2>1, <2>2
<1> QED BY <1>3, <1>4, <1>5, <1>6

(* A further character of the pattern. *)
LEMMA NormalizeOneMore ==
    ASSUME NEW a \in State, NEW c \in Chars, NEW name \in Seq(Chars)
    PROVE  /\ NormalizeChar(a, c) \in State
           /\ Same(Text(NormalizeChar(a, c)), Text(a) \o <<c>>, name)
<1> DEFINE b == NormalizeChar(a, c)
           q == a.out \o Marks(a.marks)
<1>1. a.out \in Seq(Chars) /\ a.marks \in Nat /\ a.star \in BOOLEAN
  BY DEF State
<1>2. q \in Seq(Chars) /\ Text(a) \in Seq(Chars) /\ Marks(a.marks) \in Seq(Chars)
  BY <1>1, TextIs, MarksType
<1>3. \A p : Same(p, p, name)
  BY DEF Same
<1>4. CASE c = "?"
  <2>1. b = [a EXCEPT !.marks = @ + 1]
    BY <1>4 DEF NormalizeChar
  <2>2. /\ b \in State /\ b.out = a.out /\ b.marks = a.marks + 1
        /\ (b.star = TRUE <=> a.star = TRUE) /\ (b.star = FALSE <=> a.star = FALSE)
    BY <2>1 DEF State
  <2>3. b.out \o Marks(b.marks) = q \o <<Mark>>
    <3>1. Marks(b.marks) = Marks(a.marks) \o <<Mark>>
      BY <1>1, <2>2, MarksType
    <3>2. (a.out \o Marks(a.marks)) \o <<Mark>> = a.out \o (Marks(a.marks) \o <<Mark>>)
      <4>1. a.out \in Seq(Chars) /\ Marks(a.marks) \in Seq(Chars) /\ <<Mark>> \in Seq(Chars)
        BY <1>1, <1>2, WildcardType
      <4> DEFINE x == a.out
                 y == Marks(a.marks)
                 z == <<Mark>>
      <4>2. x \in Seq(Chars) /\ y \in Seq(Chars) /\ z \in Seq(Chars)
        BY <4>1
      <4> HIDE DEF x, y, z
      <4>3. (x \o y) \o z = x \o (y \o z)
        BY <4>2, ConcatAssoc, Zenon
      <4> QED BY <4>3 DEF x, y, z
    <3> QED BY <2>2, <3>1, <3>2
  <2> HIDE DEF b, q
  <2>4. CASE a.star = TRUE
    <3>1. Text(b) = (q \o <<Mark>>) \o <<Star>> /\ Text(a) = q \o <<Star>>
      BY <2>2, <2>3, <2>4, TextIs DEF q
    <3>2. Same((q \o <<Star>>) \o <<Mark>>, (q \o <<Mark>>) \o <<Star>>, name)
      BY <1>2, MarkBeforeStar
    <3> QED BY <1>4, <2>2, <3>1, <3>2 DEF Same, Mark, b
  <2>5. CASE a.star = FALSE
    <3>1. Text(b) = q \o <<Mark>> /\ Text(a) = q
      BY <2>2, <2>3, <2>5, TextIs DEF q
    <3> QED BY <1>3, <1>4, <2>2, <3>1 DEF Mark, b
  <2> QED BY <1>1, <2>4, <2>5
<1>5. CASE c = "*"
  <2>1. b = [a EXCEPT !.star = TRUE]
    BY <1>5 DEF NormalizeChar
  <2>2. b \in State /\ b.out = a.out /\ b.marks = a.marks /\ b.star = TRUE
    BY <2>1 DEF State
  <2>3. Text(b) = q \o <<Star>>
    BY <2>2, TextIs
  <2> HIDE DEF b, q
  <2>4. CASE a.star = TRUE
    <3>1. Text(a) = q \o <<Star>>
      BY <2>4, TextIs DEF q
    <3>2. Same((q \o <<Star>>) \o <<Star>>, q \o <<Star>>, name)
      BY <1>2, StarStar
    <3> QED BY <1>5, <2>2, <2>3, <3>1, <3>2 DEF Same, Star, b
  <2>5. CASE a.star = FALSE
    <3>1. Text(a) = q
      BY <2>5, TextIs DEF q
    <3> QED BY <1>3, <1>5, <2>2, <2>3, <3>1 DEF Star, b
  <2> QED BY <1>1, <2>4, <2>5
<1>6. CASE c \notin {"?", "*"}
  <2>1. b = [out |-> a.out \o Run(a) \o <<c>>, marks |-> 0, star |-> FALSE]
    BY <1>6 DEF NormalizeChar
  <2>2. <<c>> \in Seq(Chars) /\ Text(a) \o <<c>> \in Seq(Chars)
    BY <1>2, Concat
  <2>3. b \in State /\ b.out = Text(a) \o <<c>> /\ b.marks = 0 /\ b.star = FALSE
    BY <2>1, <2>2 DEF State, Text
  <2>4. Text(b) = (Text(a) \o <<c>>) \o <<>>
    BY <1>1, <2>3, TextIs, MarksType
  <2>5. Text(b) = Text(a) \o <<c>>
    BY <2>2, <2>4, ConcatEmptySeq
  <2> HIDE DEF b
  <2> QED BY <1>3, <2>3, <2>5 DEF b
<1> QED BY <1>4, <1>5, <1>6

(* A function that satisfies the equation Normalize goes by. *)
IsAcc(pattern, n, f) ==
    f = [i \in 0..n |-> IF i = 0 THEN Start ELSE NormalizeChar(f[i - 1], pattern[i])]

(* The function that Normalize defines by recursion exists. *)
LEMMA AccExists ==
    ASSUME NEW pattern
    PROVE  \A n \in Nat : \E f : IsAcc(pattern, n, f)
<1> DEFINE T == {n \in Nat : \E f : IsAcc(pattern, n, f)}
<1>1. 0 \in T
  <2> DEFINE g == [i \in 0..0 |-> Start]
  <2>1. g = [i \in 0..0 |-> IF i = 0 THEN Start ELSE NormalizeChar(g[i - 1], pattern[i])]
    OBVIOUS
  <2>2. IsAcc(pattern, 0, g)
    BY <2>1 DEF IsAcc
  <2> HIDE DEF g
  <2> QED BY <2>2
<1>2. ASSUME NEW n \in Nat, n \in T
      PROVE  n + 1 \in T
  <2>1. PICK f : IsAcc(pattern, n, f)
    BY <1>2
  <2> DEFINE g == [i \in 0..n + 1 |-> IF i = n + 1 THEN NormalizeChar(f[n], pattern[i]) ELSE f[i]]
  <2>2. \A i \in 0..n : f[i] = IF i = 0 THEN Start ELSE NormalizeChar(f[i - 1], pattern[i])
    BY <2>1 DEF IsAcc
  <2>3. \A i \in 0..n : g[i] = f[i]
    OBVIOUS
  <2>4. g[n + 1] = NormalizeChar(f[n], pattern[n + 1])
    OBVIOUS
  <2>5. \A i \in 0..n + 1 : g[i] = IF i = 0 THEN Start ELSE NormalizeChar(g[i - 1], pattern[i])
    <3> TAKE i \in 0..n + 1
    <3> HIDE DEF g
    <3>1. CASE i = n + 1
      <4>1. i # 0 /\ i - 1 = n /\ n \in 0..n
        BY <3>1
      <4> QED BY <2>3, <2>4, <3>1, <4>1
    <3>2. CASE i # n + 1 /\ i # 0
      <4>1. i \in 0..n /\ i - 1 \in 0..n
        BY <3>2
      <4> QED BY <2>2, <2>3, <3>2, <4>1
    <3>3. CASE i = 0
      BY <2>2, <2>3, <3>3
    <3> QED BY <3>1, <3>2, <3>3
  <2>6. g = [i \in 0..n + 1 |-> IF i = 0 THEN Start ELSE NormalizeChar(g[i - 1], pattern[i])]
    BY <2>5
  <2>7. IsAcc(pattern, n + 1, g)
    BY <2>6 DEF IsAcc
  <2> HIDE DEF g
  <2> QED BY <2>7
<1>3. Nat \subseteq T
  <2> HIDE DEF T
  <2> QED BY <1>1, <1>2, SetInduction
<1> QED BY <1>3

(* GroupNamePattern::normalize changes no pattern's meaning. *)
THEOREM NormalizeKeepsMeaning ==
    ASSUME NEW pattern \in Seq(Chars), NEW name \in Seq(Chars)
    PROVE  RegexMatches(Normalize(pattern), name) <=> RegexMatches(pattern, name)
<1> DEFINE n == Len(pattern)
           acc == CHOOSE f : f = [i \in 0..n |-> IF i = 0 THEN [out |-> <<>>, marks |-> 0, star |-> FALSE]
                                                 ELSE NormalizeChar(f[i - 1], pattern[i])]
           Upto(i) == SubSeq(pattern, 1, i)
<1>1. n \in Nat /\ \A i \in 1..n : pattern[i] \in Chars
  OBVIOUS
<1>2. Normalize(pattern) = Text(acc[n])
  BY DEF Normalize, Text
<1>3. IsAcc(pattern, n, acc)
  BY <1>1, AccExists DEF IsAcc, Start
<1> HIDE DEF acc
<1>4. acc[0] = Start /\ \A i \in 1..n : acc[i] = NormalizeChar(acc[i - 1], pattern[i])
  BY <1>1, <1>3 DEF IsAcc
<1>5. /\ Upto(0) = <<>> /\ Upto(n) = pattern
      /\ \A i \in 0..n : Upto(i) \in Seq(Chars)
      /\ \A i \in 1..n : Upto(i) = Upto(i - 1) \o <<pattern[i]>>
  <2>1. Upto(0) = <<>>
    BY SubSeqEmpty
  <2>2. Upto(n) = pattern
    BY SubSeqFull
  <2>3. \A i \in 0..n : Upto(i) \in Seq(Chars)
    <3> TAKE i \in 0..n
    <3>1. 1 \in Int /\ i \in Int /\ \A j \in 1..i : pattern[j] \in Chars
      BY <1>1
    <3> QED BY <3>1, SubSeqProperties
  <2>4. ASSUME NEW i \in 1..n
        PROVE  Upto(i) = Upto(i - 1) \o <<pattern[i]>>
    <3>1. 1 \in 1..n /\ i \in 1..n
      BY <1>1
    <3> QED BY <3>1, SubSeqRecursiveSecond
  <2> QED BY <2>1, <2>2, <2>3, <2>4
<1> HIDE DEF n, Upto
<1> DEFINE P(i) == acc[i] \in State /\ Same(Text(acc[i]), Upto(i), name)
           T == {i \in Nat : i <= n => P(i)}
<1>6. \A i \in Nat : i \in T <=> (i <= n => P(i))
  OBVIOUS
<1> HIDE DEF T
<1>7. 0 \in T
  <2>1. Start \in State /\ Start.star = FALSE /\ Start.out = <<>> /\ Start.marks = 0
    BY EmptySeq DEF Start, State
  <2>2. Text(Start) = <<>> \o Marks(0)
    BY <2>1, TextIs
  <2>3. Text(Start) = <<>>
    BY <2>2, MarksType, EmptySeq, ConcatEmptySeq
  <2>4. P(0)
    BY <1>4, <1>5, <2>1, <2>3 DEF Same
  <2> QED BY <1>6, <2>4
<1>8. ASSUME NEW i \in Nat, i \in T
      PROVE  i + 1 \in T
  <2>1. CASE i + 1 <= n
    <3>1. i + 1 \in 1..n /\ (i + 1) - 1 = i /\ i \in 0..n /\ i <= n
      BY <1>1, <2>1
    <3>2. acc[i] \in State /\ Same(Text(acc[i]), Upto(i), name)
      BY <1>6, <1>8, <3>1
    <3> DEFINE c == pattern[i + 1]
    <3>3. acc[i + 1] = NormalizeChar(acc[i], c) /\ c \in Chars
      BY <1>1, <1>4, <3>1
    <3>4. Upto(i + 1) = Upto(i) \o <<c>> /\ Upto(i) \in Seq(Chars)
      BY <1>5, <3>1
    <3> HIDE DEF c
    <3>5. acc[i + 1] \in State /\ Same(Text(acc[i + 1]), Text(acc[i]) \o <<c>>, name)
      BY <3>2, <3>3, NormalizeOneMore
    <3>6. Text(acc[i]) \in Seq(Chars)
      BY <3>2, TextIs
    <3>7. Same(Text(acc[i]) \o <<c>>, Upto(i) \o <<c>>, name)
      BY <3>2, <3>3, <3>4, <3>6, SameOneMore
    <3>8. Same(Text(acc[i + 1]), Upto(i + 1), name)
      BY <3>4, <3>5, <3>7 DEF Same
    <3> QED BY <1>6, <3>5, <3>8
  <2>2. CASE ~(i + 1 <= n)
    BY <1>6, <2>2
  <2> QED BY <2>1, <2>2
<1>9. Nat \subseteq T
  BY <1>7, <1>8, SetInduction
<1>10. Same(Text(acc[n]), pattern, name)
  <2>1. n \in T /\ n <= n
    BY <1>1, <1>9
  <2> QED BY <1>1, <1>5, <1>6, <2>1
<1>11. Len(name) \in 0..Len(name)
  OBVIOUS
<1> QED BY <1>2, <1>10, <1>11, MatchesIsReaches DEF Same

-----------------------------------------------------------------------------
(* The denylist made of the lines. *)

Denied(l, g) == g.gid \in LineGids(l) \/ \E p \in LinePatterns(l) : RegexMatches(p, g.name)

(* What a line adds to the denylist matches the groups that the line denies. *)
LEMMA LineMeansDenied ==
    ASSUME NEW l \in Lines, NEW g \in SystemGroups
    PROVE  Denied(l, g) <=> LineDenies(l, g)
<1>1. CASE l.key = "gid"
  <2>1. ~IsPattern(l)
    BY <1>1 DEF IsPattern
  <2>2. LineGids(l) = {h.gid : h \in {h \in SystemGroups : h.gid = l.value}} /\ LinePatterns(l) = {}
    BY <1>1, <2>1 DEF LineGids, LinePatterns
  <2>3. g.gid \in {h.gid : h \in {h \in SystemGroups : h.gid = l.value}} <=> l.value = g.gid
    OBVIOUS
  <2> QED BY <1>1, <2>1, <2>2, <2>3 DEF Denied, LineDenies
<1>2. CASE l.key = "group" /\ ~IsPattern(l)
  <2>1. LineGids(l) = {h.gid : h \in FromName(l.value)} /\ LinePatterns(l) = {}
    BY <1>2 DEF LineGids, LinePatterns
  <2>2. g.gid \in {h.gid : h \in FromName(l.value)} <=> l.value = g.name
    BY SystemGroupsAssumption DEF FromName
  <2> QED BY <1>2, <2>1, <2>2 DEF Denied, LineDenies
<1>3. CASE IsPattern(l)
  <2>1. l.key = "group" /\ l.value \in Seq(Chars) /\ g.name \in Seq(Chars)
    BY <1>3, NamesAssumption DEF IsPattern
  <2>2. LineGids(l) = {} /\ LinePatterns(l) = {Normalize(l.value)}
    BY <1>3, <2>1 DEF LineGids, LinePatterns
  <2>3. RegexMatches(Normalize(l.value), g.name) <=> RegexMatches(l.value, g.name)
    BY <2>1, NormalizeKeepsMeaning
  <2> QED BY <1>3, <2>1, <2>2, <2>3 DEF Denied, LineDenies
<1>4. CASE l.key \notin {"gid", "group"}
  <2>1. ~IsPattern(l)
    BY <1>4 DEF IsPattern
  <2>2. LineGids(l) = {} /\ LinePatterns(l) = {}
    BY <1>4, <2>1 DEF LineGids, LinePatterns
  <2> QED BY <1>4, <2>1, <2>2 DEF Denied, LineDenies
<1> QED BY <1>1, <1>2, <1>3, <1>4

(* The inductive invariant: the denylist is what its lines add, and no more. *)
ListInv ==
    /\ lines \subseteq Lines
    /\ peer \subseteq UnixUsers
    /\ denylist = [gids     |-> UNION {LineGids(l) : l \in lines},
                   patterns |-> UNION {LinePatterns(l) : l \in lines}]

(* The gids and patterns are those of the lines read, and of no others. *)
LEMMA ListInvariant == DenylistSpec => []ListInv
<1>1. DenylistInit => ListInv
  BY DEF DenylistInit, ListInv
<1>2. ASSUME ListInv, [DenylistNext]_denylistVars
      PROVE  ListInv'
  <2>1. CASE UNCHANGED denylistVars
    BY <1>2, <2>1 DEF denylistVars, ListInv
  <2>2. ASSUME NEW l \in Lines, ParseLine(l)
        PROVE  ListInv'
    <3>1. lines' = lines \cup {l} /\ lines \subseteq Lines
      BY <1>2, <2>2 DEF ParseLine, ListInv
    <3>2. /\ denylist.gids = UNION {LineGids(x) : x \in lines}
          /\ denylist.patterns = UNION {LinePatterns(x) : x \in lines}
      BY <1>2 DEF ListInv
    <3>3. /\ denylist.gids \cup LineGids(l) = UNION {LineGids(x) : x \in lines'}
          /\ denylist.patterns \cup LinePatterns(l) = UNION {LinePatterns(x) : x \in lines'}
      BY <3>1, <3>2
    <3> QED BY <1>2, <2>2, <3>1, <3>3 DEF ParseLine, ListInv
  <2>3. ASSUME NEW u \in UnixUsers, SessionHandler(u)
        PROVE  ListInv'
    BY <1>2, <2>3 DEF SessionHandler, ListInv
  <2> QED BY <1>2, <2>1, <2>2, <2>3 DEF DenylistNext
<1> QED BY <1>1, <1>2, PTL DEF DenylistSpec

(* Whatever lines the denylist file has and whatever groups the system has,     *)
(* parse_group_denylist makes of it a list that matches the groups the lines     *)
(* deny: resolving names to gids and normalising patterns loses and adds none.  *)
THEOREM DenylistIsItsLines == DenylistSpec => []DenylistMeansItsLines
<1>1. ASSUME ListInv
      PROVE  DenylistMeansItsLines
  <2> SUFFICES ASSUME NEW g \in SystemGroups
               PROVE  DenylistMatches(denylist, g) <=> \E l \in lines : LineDenies(l, g)
    BY DEF DenylistMeansItsLines
  <2>1. /\ denylist.gids = UNION {LineGids(l) : l \in lines}
        /\ denylist.patterns = UNION {LinePatterns(l) : l \in lines}
    BY <1>1 DEF ListInv
  <2>2. DenylistMatches(denylist, g) <=> \E l \in lines : Denied(l, g)
    BY <2>1 DEF DenylistMatches, Denied
  <2>3. \A l \in lines : Denied(l, g) <=> LineDenies(l, g)
    BY <1>1, LineMeansDenied DEF ListInv
  <2> QED BY <2>2, <2>3
<1> QED BY <1>1, ListInvariant, PTL

-----------------------------------------------------------------------------
(* The prefixes. *)

(* What a name that starts with a prefix and an underscore looks like. *)
LEMMA PrefixFacts ==
    ASSUME NEW p \in Seq(Chars), NEW n \in Names, HasPrefix(n, p)
    PROVE  /\ n \in Seq(Chars) /\ n # <<>> /\ Len(n) <= MaxNameLength
           /\ ToSet(n) \subseteq NameChars
           /\ p \o <<"_">> \in Seq(Chars) /\ Len(p \o <<"_">>) = Len(p) + 1 /\ Len(p) + 1 <= Len(n)
           /\ SubSeq(n, 1, Len(p) + 1) = p \o <<"_">>
           /\ \A i \in 1..Len(p) + 1 : (p \o <<"_">>)[i] = n[i]
<1> DEFINE q == p \o <<"_">>
<1>1. PICK k \in 1..MaxNameLength : n \in [1..k -> NameChars]
  BY DEF Names
<1>2. k \in Nat /\ k # 0 /\ k <= MaxNameLength
  BY <1>1, BoundsAssumption
<1>3. n \in Seq(NameChars) /\ Len(n) = k
  BY <1>1, <1>2, SeqDef
<1>4. n \in Seq(Chars)
  BY <1>3, NamesAssumption, SeqMonotonic
<1>5. n # <<>>
  BY <1>2, <1>3
<1>6. ToSet(n) \subseteq NameChars
  BY <1>1 DEF ToSet
<1>7. "_" \in Chars
  BY NamesAssumption
<1> DEFINE u == "_"
<1>8. u \in Chars
  BY <1>7
<1> HIDE DEF u
<1>9. p \o <<u>> \in Seq(Chars) /\ Len(p \o <<u>>) = Len(p) + 1
  BY <1>8
<1>10. q \in Seq(Chars) /\ Len(q) = Len(p) + 1
  BY <1>9 DEF u
<1>11. Len(q) <= Len(n) /\ SubSeq(q, 1, Len(q)) = SubSeq(n, 1, Len(q))
  BY DEF HasPrefix, IsPrefix
<1> HIDE DEF q
<1>12. SubSeq(q, 1, Len(q)) = q
  BY <1>10, SubSeqFull
<1>13. \A i \in 1..Len(q) : q[i] = n[i]
  <2>1. Len(q) \in Nat /\ Len(n) \in Nat
    BY <1>4, <1>10
  <2>2. \A i \in 1..Len(q) : n[i] \in Chars
    BY <1>4, <1>11, <2>1
  <2>3. \A i \in 1..Len(q) - 1 + 1 : SubSeq(n, 1, Len(q))[i] = n[1 + i - 1]
    BY <2>1, <2>2, SubSeqProperties
  <2>4. \A i \in 1..Len(q) : i \in 1..Len(q) - 1 + 1 /\ 1 + i - 1 = i
    BY <2>1
  <2> QED BY <1>11, <1>12, <2>3, <2>4
<1> QED BY <1>2, <1>3, <1>4, <1>5, <1>6, <1>10, <1>11, <1>12, <1>13 DEF q

(* For any users, groups and denylist: a prefix that list_valid_name_prefixes     *)
(* advertises is one that validate_db_or_user_request accepts, the list queries    *)
(* find and the completions start from.                                         *)
THEOREM AdvertisedPrefixesWork == DenylistSpec => []AdvertisedPrefixWorks
<1>1. ASSUME ListInv
      PROVE  AdvertisedPrefixWorks
  <2> SUFFICES ASSUME NEW u \in peer,
                      NEW p \in ListValidNamePrefixes(u, denylist), NEW n \in Names,
                      HasPrefix(n, p), Len(n) > Len(p) + 1,
                      \A g \in FromName(n) : ~DenylistMatches(denylist, g)
               PROVE  /\ CheckAuthorization({n}, u, denylist)[n] = "Ok"
                      /\ MatchesUserGroupRegex(n, u, denylist)
                      /\ n \in CompleteName(p \o <<"_">>, {n}, u, denylist)
    BY DEF AdvertisedPrefixWorks
  <2>1. p \in {u.username} \cup u.groups /\ p \in {u.username} \cup GetUserFilteredGroups(u, denylist)
    BY DEF ListValidNamePrefixes, GetUserFilteredGroups
  <2>2. p \in Seq(Chars)
    BY <1>1, <2>1, NamesAssumption DEF ListInv
  <2>3. /\ n \in Seq(Chars) /\ n # <<>> /\ Len(n) <= MaxNameLength
        /\ ToSet(n) \subseteq NameChars
        /\ Len(p \o <<"_">>) = Len(p) + 1 /\ Len(p) + 1 <= Len(n)
        /\ SubSeq(n, 1, Len(p) + 1) = p \o <<"_">>
        /\ \A i \in 1..Len(p) + 1 : (p \o <<"_">>)[i] = n[i]
    BY <2>2, PrefixFacts
  <2>4. p \o <<"_">> \in Seq(Chars)
    BY <2>2, PrefixFacts
  <2>5. Len(p) \in Nat /\ Len(n) \in Nat /\ DOMAIN n = 1..Len(n)
    <3>1. n \in Seq(Chars)
      BY <2>3
    <3>2. Len(p) \in Nat
      BY <2>2
    <3> QED BY <3>1, <3>2, LenProperties
  <2>6. CheckAuthorization({n}, u, denylist)[n] = "Ok"
    <3>1. ValidateName(n) = "Ok"
      <4>1. n # <<>> /\ Len(n) <= MaxNameLength /\ ToSet(n) \subseteq NameChars
        BY <2>3
      <4>2. ~(Len(n) > MaxNameLength)
        BY <4>1, <2>5, BoundsAssumption
      <4> QED BY <4>1, <4>2 DEF ValidateName
    <3>2. ValidateByPrefixes(n, u) = "Ok"
      BY <2>1, <2>3 DEF ValidateByPrefixes
    <3>3. ValidateByGroupDenylist(n, u, denylist) = "Ok"
      BY DEF ValidateByGroupDenylist
    <3>4. ValidateDbOrUserRequest(n, u, denylist) = "Ok"
      BY <3>1, <3>2, <3>3 DEF ValidateDbOrUserRequest
    <3> QED BY <3>4 DEF CheckAuthorization
  <2>7. MatchesUserGroupRegex(n, u, denylist)
    <3>1. 1 \in 1..Len(n) /\ 1 + Len(p) < Len(n) /\ 1 + Len(p) = Len(p) + 1
      BY <2>5
    <3>2. SubSeq(n, 1, 1 + Len(p)) = p \o <<"_">>
      BY <2>3, <3>1
    <3> QED BY <2>1, <3>1, <3>2 DEF MatchesUserGroupRegex
  <2>8. n \in CompleteName(p \o <<"_">>, {n}, u, denylist)
    <3> DEFINE q == p \o <<"_">>
    <3>1. DOMAIN q = 1..Len(p) + 1
      BY <2>3, <2>4, LenProperties
    <3>2. \A i \in 1..Len(p) + 1 : q[i] = n[i] /\ i \in DOMAIN n
      <4>1. \A i \in 1..Len(p) + 1 : q[i] = n[i]
        BY <2>3
      <4>2. Len(p) + 1 <= Len(n)
        BY <2>3
      <4>3. \A i \in 1..Len(p) + 1 : i \in 1..Len(n)
        BY <4>2, <2>5
      <4> QED BY <4>1, <4>3, <2>5
    <3> HIDE DEF q
    <3>3. ToSet(q) \subseteq NameChars
      BY <2>3, <3>1, <3>2 DEF ToSet
    <3>4. LikePrefix(n, q)
      BY <2>3, <3>2 DEF LikePrefix, q
    <3> QED BY <2>7, <3>3, <3>4 DEF CompleteName, q
  <2> QED BY <2>6, <2>7, <2>8
<1> QED BY <1>1, ListInvariant, PTL

=============================================================================
