---------------------------- MODULE CatalogProofs ----------------------------
(***************************************************************************)
(* What holds of the paged reads for every set of dishes, restaurants,     *)
(* queries and edits.  Sequences sorted by a total order come first, then  *)
(* windows on them, then the invariant of a walk and its steps.            *)
(***************************************************************************)
EXTENDS Catalog, FiniteSetTheorems, WellFoundedInduction, TLAPS

(***************************************************************************)
(* A set of numbers that is not empty has a least member: what fails for   *)
(* some length fails for a first one.                                      *)
(***************************************************************************)
LEMMA Least ==
  ASSUME NEW T, T \subseteq Nat, T # {}
  PROVE  \E x \in T : \A y \in T : x <= y
  <1>1. IsWellFoundedOn(OpToRel(<, Nat), Nat)
    BY NatLessThanWellFounded
  <1> DEFINE R == OpToRel(<, Nat)
  <1>2. \A x, y \in Nat : y < x => <<y, x>> \in R
    BY DEF OpToRel
  <1> HIDE DEF R
  <1>3. IsWellFoundedOn(R, Nat)
    BY <1>1 DEF R
  <1>4. PICK x \in T : \A y \in T : ~(<<y, x>> \in R)
    BY <1>3, WFMin
  <1>5. ASSUME NEW y \in T PROVE x <= y
    <2>1. x \in Nat /\ y \in Nat
      OBVIOUS
    <2>2. ~(y < x)
      BY <1>2, <1>4, <2>1
    <2> QED BY <2>1, <2>2
  <1> QED BY <1>5

-----------------------------------------------------------------------------
(***************************************************************************)
(* A strict total order on a set, and the sequences that follow it.        *)
(***************************************************************************)
Orders(order, S) ==
  /\ \A x \in S : <<x, x>> \notin order
  /\ \A x, y, z \in S : <<x, y>> \in order /\ <<y, z>> \in order => <<x, z>> \in order
  /\ \A x, y \in S : x # y => <<x, y>> \in order \/ <<y, x>> \in order

Follows(seq, n, S, order) ==
  /\ seq \in [1..n -> S]
  /\ \A x \in S : \E i \in 1..n : seq[i] = x
  /\ \A i, j \in 1..n : i < j => <<seq[i], seq[j]>> \in order

(***************************************************************************)
(* One more member finds its place: before the first it precedes.          *)
(***************************************************************************)
LEMMA Inserted ==
  ASSUME NEW S, NEW order, Orders(order, S), NEW x \in S, NEW n \in Nat, n # 0, NEW t,
         Follows(t, n - 1, S \ {x}, order)
  PROVE  \E seq : Follows(seq, n, S, order)
  <1> DEFINE A == {k \in 1..n : k = n \/ <<x, t[k]>> \in order}
  <1>1. PICK k \in A : \A l \in A : k <= l
    <2>1. A \subseteq Nat /\ n \in A
      OBVIOUS
    <2> HIDE DEF A
    <2> QED BY <2>1, Least
  <1>2. k \in 1..n /\ \A i \in 1..(n - 1) : t[i] \in S /\ t[i] # x
    BY DEF Follows
  <1>3. \A i \in 1..(n - 1) : i < k => <<t[i], x>> \in order
    <2> SUFFICES ASSUME NEW i \in 1..(n - 1), i < k PROVE <<t[i], x>> \in order
      OBVIOUS
    <2>1. i \notin A /\ i \in 1..n
      BY <1>1, <1>2
    <2> QED BY <1>2, <2>1 DEF Orders
  <1>4. \A i \in 1..(n - 1) : k <= i => <<x, t[i]>> \in order
    <2> SUFFICES ASSUME NEW i \in 1..(n - 1), k <= i PROVE <<x, t[i]>> \in order
      OBVIOUS
    <2>1. k \in 1..(n - 1) /\ <<x, t[k]>> \in order
      BY <1>1, <1>2
    <2>2. k = i \/ <<t[k], t[i]>> \in order
      BY <1>2, <2>1 DEF Follows
    <2> QED BY <1>2, <2>1, <2>2 DEF Orders
  <1> DEFINE seq == [i \in 1..n |-> IF i < k THEN t[i] ELSE IF i = k THEN x ELSE t[i - 1]]
  <1>5. ASSUME NEW i \in 1..n
        PROVE  \/ i < k /\ i \in 1..(n - 1) /\ seq[i] = t[i]
               \/ i = k /\ seq[i] = x
               \/ k < i /\ i - 1 \in 1..(n - 1) /\ k <= i - 1 /\ seq[i] = t[i - 1]
    BY <1>2
  <1>6. \A i \in 1..(n - 1) : \/ i \in 1..n /\ i < k /\ seq[i] = t[i]
                              \/ i + 1 \in 1..n /\ seq[i + 1] = t[i]
    BY <1>2
  <1>7. DOMAIN seq = 1..n /\ k \in 1..n /\ seq[k] = x
    BY <1>2
  <1>8. seq = [i \in 1..n |-> seq[i]]
    OBVIOUS
  <1> HIDE DEF seq, A
  <1>9. seq \in [1..n -> S]
    BY <1>2, <1>5, <1>8
  <1>10. \A y \in S : \E i \in 1..n : seq[i] = y
    <2> SUFFICES ASSUME NEW y \in S, y # x PROVE \E i \in 1..n : seq[i] = y
      BY <1>7
    <2>1. PICK i \in 1..(n - 1) : t[i] = y
      BY DEF Follows
    <2> QED BY <1>6, <2>1
  <1>11. ASSUME NEW i \in 1..n, NEW j \in 1..n, i < j
         PROVE  <<seq[i], seq[j]>> \in order
    <2>1. \A a, b \in 1..(n - 1) : a < b => <<t[a], t[b]>> \in order
      BY DEF Follows
    <2>2. CASE i < k
      <3>1. i \in 1..(n - 1) /\ seq[i] = t[i]
        BY <1>2, <1>5, <2>2
      <3>2. CASE j < k
        BY <1>2, <1>5, <1>11, <2>1, <3>1, <3>2
      <3>3. CASE j = k
        BY <1>3, <1>7, <2>2, <3>1, <3>3
      <3>4. CASE k < j
        <4>1. j - 1 \in 1..(n - 1) /\ seq[j] = t[j - 1] /\ i < j - 1
          BY <1>2, <1>5, <2>2, <3>4
        <4> QED BY <2>1, <3>1, <4>1
      <3> QED BY <1>2, <3>2, <3>3, <3>4
    <2>3. CASE i = k
      <3>1. j - 1 \in 1..(n - 1) /\ k <= j - 1 /\ seq[j] = t[j - 1]
        BY <1>2, <1>5, <1>11, <2>3
      <3> QED BY <1>4, <1>7, <2>3, <3>1
    <2>4. CASE k < i
      <3>1. /\ i - 1 \in 1..(n - 1) /\ seq[i] = t[i - 1]
            /\ j - 1 \in 1..(n - 1) /\ seq[j] = t[j - 1] /\ i - 1 < j - 1
        BY <1>2, <1>5, <1>11, <2>4
      <3> QED BY <2>1, <3>1
    <2> QED BY <1>2, <2>2, <2>3, <2>4
  <1> QED BY <1>9, <1>10, <1>11 DEF Follows

(***************************************************************************)
(* A finite set can be followed in any strict total order of its members.  *)
(***************************************************************************)
LEMMA SomeSequenceFollows ==
  ASSUME NEW S, IsFiniteSet(S), NEW order, Orders(order, S)
  PROVE  \E seq : Follows(seq, Cardinality(S), S, order)
  <1> DEFINE Stuck(n, U) == Cardinality(U) = n /\ ~\E seq : Follows(seq, n, U, order)
             T == {n \in Nat : \E U \in SUBSET S : Stuck(n, U)}
  <1>1. \A U \in SUBSET S : IsFiniteSet(U) /\ Cardinality(U) \in Nat /\ Orders(order, U)
    BY FS_Subset, FS_CardinalityType DEF Orders
  <1> SUFFICES ASSUME T # {} PROVE FALSE
    BY <1>1
  <1>2. PICK n \in T : \A m \in T : n <= m
    <2>1. T \subseteq Nat
      OBVIOUS
    <2> HIDE DEF T
    <2> QED BY <2>1, Least
  <1>3. PICK U \in SUBSET S : Stuck(n, U)
    BY <1>2
  <1>4. CASE n = 0
    <2>1. U = {}
      BY <1>1, <1>3, <1>4, FS_EmptySet
    <2>2. Follows([i \in 1..0 |-> i], 0, {}, order)
      BY DEF Follows
    <2> QED BY <1>3, <1>4, <2>1, <2>2
  <1>5. CASE n # 0
    <2>1. U # {}
      BY <1>3, <1>5, FS_EmptySet
    <2>2. PICK x \in U : TRUE
      BY <2>1
    <2>3. U \ {x} \in SUBSET S /\ Cardinality(U \ {x}) = n - 1 /\ n - 1 \in Nat
      BY <1>1, <1>2, <1>3, <1>5, <2>2, FS_RemoveElement
    <2>4. n - 1 \notin T
      BY <1>2, <2>3
    <2>5. PICK t : Follows(t, n - 1, U \ {x}, order)
      BY <2>3, <2>4
    <2>6. \E seq : Follows(seq, n, U, order)
      BY <1>1, <1>2, <1>5, <2>2, <2>5, Inserted
    <2> QED BY <1>3, <2>6
  <1> QED BY <1>4, <1>5

(***************************************************************************)
(* And in one way only: where two sequences would first differ, each would *)
(* have the other's member later.                                          *)
(***************************************************************************)
LEMMA FirstDifference ==
  ASSUME NEW S, NEW order, Orders(order, S), NEW n \in Nat,
         NEW s, Follows(s, n, S, order), NEW t, Follows(t, n, S, order),
         NEW i \in 1..n, \A j \in 1..n : j < i => s[j] = t[j], s[i] # t[i]
  PROVE  <<t[i], s[i]>> \in order
  <1>1. s[i] \in S
    BY DEF Follows
  <1>2. PICK j \in 1..n : t[j] = s[i]
    BY <1>1 DEF Follows
  <1>3. ~(j < i)
    <2> SUFFICES ASSUME j < i PROVE FALSE
      OBVIOUS
    <2>1. <<s[j], s[i]>> \in order /\ s[j] = s[i]
      BY <1>2 DEF Follows
    <2> QED BY <1>1, <2>1 DEF Orders
  <1>4. i < j
    BY <1>2, <1>3
  <1> QED BY <1>2, <1>4 DEF Follows

LEMMA OneSequenceFollows ==
  ASSUME NEW S, NEW order, Orders(order, S), NEW n \in Nat,
         NEW s, Follows(s, n, S, order), NEW t, Follows(t, n, S, order)
  PROVE  s = t
  <1> DEFINE T == {i \in 1..n : s[i] # t[i]}
  <1>1. ASSUME T # {} PROVE FALSE
    <2>1. PICK i \in T : \A j \in T : i <= j
      <3>1. T \subseteq Nat
        OBVIOUS
      <3> HIDE DEF T
      <3> QED BY <1>1, <3>1, Least
    <2>2. /\ i \in 1..n /\ s[i] # t[i] /\ s[i] \in S /\ t[i] \in S
          /\ \A j \in 1..n : j < i => s[j] = t[j]
      BY <2>1 DEF Follows
    <2>3. <<t[i], s[i]>> \in order /\ <<s[i], t[i]>> \in order
      BY <2>2, FirstDifference
    <2> QED BY <2>2, <2>3 DEF Orders
  <1>2. s \in [1..n -> S] /\ t \in [1..n -> S]
    BY DEF Follows
  <1>3. \A i \in 1..n : s[i] = t[i]
    BY <1>1
  <1> QED BY <1>2, <1>3

(***************************************************************************)
(* What Sorted and Selected answer.                                        *)
(***************************************************************************)
LEMMA SortedFollows ==
  ASSUME NEW S, IsFiniteSet(S), NEW order, Orders(order, S)
  PROVE  Follows(Sorted(S, order), Cardinality(S), S, order)
  <1> DEFINE n == Cardinality(S)
             Good(seq) == /\ Range(seq) = S
                          /\ \A i, j \in DOMAIN seq : i < j => <<seq[i], seq[j]>> \in order
  <1>1. PICK t : Follows(t, n, S, order)
    BY SomeSequenceFollows
  <1>2. t \in [1..n -> S] /\ Good(t)
    BY <1>1 DEF Follows, Range
  <1>3. Sorted(S, order) \in [1..n -> S] /\ Good(Sorted(S, order))
    BY <1>2 DEF Sorted
  <1> HIDE DEF n
  <1>4. ASSUME NEW seq, seq \in [1..n -> S], Good(seq)
        PROVE  Follows(seq, n, S, order)
    BY <1>4 DEF Follows, Range
  <1> QED BY <1>3, <1>4 DEF n
(***************************************************************************)
(* The positions kept of a sequence, in increasing order: the k-th of them *)
(* is at k or after, and all of them are all of it.                        *)
(***************************************************************************)
LEMMA PositionsFollow ==
  ASSUME NEW n \in Nat, NEW P \in SUBSET (1..n)
  PROVE  LET at == Sorted(P, {p \in P \X P : p[1] < p[2]})
         IN  /\ at \in [1..Cardinality(P) -> P] /\ Cardinality(P) \in 0..n
             /\ \A i \in P : \E k \in 1..Cardinality(P) : at[k] = i
             /\ \A j, k \in 1..Cardinality(P) : j < k => at[j] < at[k]
  <1> DEFINE order == {p \in P \X P : p[1] < p[2]}
             at == Sorted(P, order)
  <1>1. IsFiniteSet(P) /\ Cardinality(P) \in 0..n
    <2>1. IsFiniteSet(1..n) /\ Cardinality(1..n) = n
      BY FS_Interval
    <2>2. IsFiniteSet(P) /\ Cardinality(P) <= n
      BY <2>1, FS_Subset
    <2>3. Cardinality(P) \in Nat
      BY <2>2, FS_CardinalityType
    <2> QED BY <2>2, <2>3
  <1>2. \A i, j \in P : <<i, j>> \in order <=> i < j
    OBVIOUS
  <1>3. P \subseteq Int
    OBVIOUS
  <1> HIDE DEF order
  <1>4. Orders(order, P)
    BY <1>2, <1>3 DEF Orders
  <1>5. Follows(at, Cardinality(P), P, order)
    BY <1>1, <1>4, SortedFollows
  <1> HIDE DEF at
  <1>6. /\ at \in [1..Cardinality(P) -> P]
        /\ \A i \in P : \E k \in 1..Cardinality(P) : at[k] = i
        /\ \A j, k \in 1..Cardinality(P) : j < k => at[j] < at[k]
    BY <1>2, <1>5 DEF Follows
  <1> QED BY <1>1, <1>6 DEF at, order

LEMMA PositionsAdvance ==
  ASSUME NEW m \in Nat, NEW at \in [1..m -> Nat \ {0}],
         \A j, k \in 1..m : j < k => at[j] < at[k]
  PROVE  \A k \in 1..m : k <= at[k]
  <1> DEFINE T == {k \in 1..m : ~(k <= at[k])}
  <1>1. ASSUME T # {} PROVE FALSE
    <2>1. PICK k \in T : \A j \in T : k <= j
      <3>1. T \subseteq Nat
        OBVIOUS
      <3> HIDE DEF T
      <3> QED BY <1>1, <3>1, Least
    <2>2. k \in 1..m /\ k - 1 \in 1..m /\ k - 1 <= at[k - 1] /\ at[k - 1] < at[k]
      BY <2>1
    <2>3. at[k - 1] \in Nat /\ at[k] \in Nat
      BY <2>2
    <2> QED BY <2>1, <2>2, <2>3
  <1> QED BY <1>1

LEMMA SelectedIs ==
  ASSUME NEW S, NEW seq \in Seq(S), NEW P \in SUBSET DOMAIN seq
  PROVE  \E at : /\ at \in [1..Cardinality(P) -> P] /\ Cardinality(P) \in 0..Len(seq)
                 /\ Selected(seq, P) = [k \in 1..Cardinality(P) |-> seq[at[k]]]
                 /\ \A i \in P : \E k \in 1..Cardinality(P) : at[k] = i /\ k <= i
                 /\ \A j, k \in 1..Cardinality(P) : j < k => at[j] < at[k]
                 /\ P = DOMAIN seq => /\ Cardinality(P) = Len(seq)
                                      /\ \A k \in 1..Len(seq) : at[k] = k
  <1> DEFINE at == Sorted(P, {p \in P \X P : p[1] < p[2]})
             m == Cardinality(P)
             n == Len(seq)
  <1>1. n \in Nat /\ DOMAIN seq = 1..n
    OBVIOUS
  <1>2. /\ at \in [1..m -> P] /\ m \in 0..n
        /\ \A i \in P : \E k \in 1..m : at[k] = i
        /\ \A j, k \in 1..m : j < k => at[j] < at[k]
    BY <1>1, PositionsFollow
  <1>3. Selected(seq, P) = [k \in DOMAIN at |-> seq[at[k]]]
    BY DEF Selected
  <1> HIDE DEF at
  <1>4. \A k \in 1..m : k <= at[k]
    <2>1. at \in [1..m -> Nat \ {0}] /\ m \in Nat
      BY <1>1, <1>2
    <2> HIDE DEF m, n
    <2> QED BY <1>2, <2>1, PositionsAdvance
  <1>5. Selected(seq, P) = [k \in 1..m |-> seq[at[k]]]
    BY <1>2, <1>3
  <1>6. ASSUME P = DOMAIN seq PROVE m = n /\ \A k \in 1..n : at[k] = k
    <2>1. m = n
      BY <1>1, <1>6, FS_Interval
    <2>2. \A k \in 1..n : at[k] = k
      <3> DEFINE T == {k \in 1..n : at[k] # k}
      <3>1. ASSUME T # {} PROVE FALSE
        <4>1. PICK k \in T : \A j \in T : k <= j
          <5>1. T \subseteq Nat
            OBVIOUS
          <5> HIDE DEF T
          <5> QED BY <3>1, <5>1, Least
        <4>2. k \in 1..n /\ k < at[k] /\ at[k] \in 1..n
          BY <1>1, <1>2, <1>4, <1>6, <2>1, <4>1
        <4>3. PICK j \in 1..n : at[j] = k
          BY <1>1, <1>2, <1>6, <2>1, <4>2
        <4>4. j < k
          BY <1>2, <1>4, <2>1, <4>2, <4>3
        <4>5. j \notin T
          BY <4>1, <4>2, <4>3, <4>4
        <4> QED BY <4>3, <4>4, <4>5
      <3> QED BY <3>1
    <2> QED BY <2>1, <2>2
  <1> HIDE DEF m, n
  <1>7. \A i \in P : \E k \in 1..m : at[k] = i /\ k <= i
    BY <1>2, <1>4
  <1> QED BY <1>2, <1>5, <1>6, <1>7 DEF m, n
-----------------------------------------------------------------------------
(***************************************************************************)
(* LIMIT and OFFSET: a window of a sequence is part of it, consecutive     *)
(* windows make a longer one, and the page is a window of the rows read.   *)
(***************************************************************************)
Fewer(a, b) == IF a < b THEN a ELSE b

Left(seq, from) == IF from < Len(seq) THEN Len(seq) - from ELSE 0

Cuts(w, seq, from, n) ==
  \A i \in 1..n : from + i \in 1..Len(seq) /\ w[i] = seq[from + i]

LEMMA WindowIs ==
  ASSUME NEW S, NEW seq \in Seq(S), NEW from \in Nat, NEW size \in Nat
  PROVE  /\ Window(seq, from, size) \in Seq(S)
         /\ Len(Window(seq, from, size)) = Fewer(size, Left(seq, from))
         /\ Cuts(Window(seq, from, size), seq, from, Fewer(size, Left(seq, from)))
  <1> DEFINE end == IF from + size < Len(seq) THEN from + size ELSE Len(seq)
             w == SubSeq(seq, from + 1, end)
  <1>1. Len(seq) \in Nat /\ end \in 0..Len(seq) /\ Window(seq, from, size) = w
    BY DEF Window
  <1>2. Fewer(size, Left(seq, from)) = IF from < end THEN end - from ELSE 0
    BY <1>1 DEF Fewer, Left
  <1>3. w = [i \in 1..(IF from < end THEN end - from ELSE 0) |-> seq[from + i]]
    <2>1. w = [i \in 1..(end - (from + 1) + 1) |-> seq[i + (from + 1) - 1]]
      BY <1>1
    <2>2. 1..(end - (from + 1) + 1) = 1..(IF from < end THEN end - from ELSE 0)
      BY <1>1
    <2>3. \A i \in Int : i + (from + 1) - 1 = from + i
      OBVIOUS
    <2> HIDE DEF w, end
    <2> QED BY <2>1, <2>2, <2>3
  <1> HIDE DEF w
  <1> DEFINE n == IF from < end THEN end - from ELSE 0
  <1>4. n \in Nat /\ \A i \in 1..n : from + i \in 1..Len(seq)
    BY <1>1
  <1> HIDE DEF end
  <1>5. w \in Seq(S) /\ Len(w) = n /\ \A i \in 1..n : w[i] = seq[from + i]
    <2> HIDE DEF n
    <2>1. w = [i \in 1..n |-> seq[from + i]]
      BY <1>3 DEF n
    <2>2. \A i \in 1..n : seq[from + i] \in S
      <3>1. \A j \in 1..Len(seq) : seq[j] \in S
        OBVIOUS
      <3> QED BY <1>4, <3>1
    <2>3. w \in [1..n -> S]
      BY <2>1, <2>2
    <2>4. w \in Seq(S)
      BY <1>4, <2>3
    <2>5. Len(w) = n
      BY <1>4, <2>1, <2>4
    <2> QED BY <2>1, <2>4, <2>5
  <1>6. Cuts(w, seq, from, n)
    BY <1>4, <1>5 DEF Cuts
  <1> HIDE DEF n
  <1>7. Fewer(size, Left(seq, from)) = n
    BY <1>2 DEF n
  <1> QED BY <1>1, <1>5, <1>6, <1>7

LEMMA FirstWindowIs ==
  ASSUME NEW S, NEW seq \in Seq(S), NEW size \in Nat
  PROVE  /\ Window(seq, 0, size) \in Seq(S)
         /\ Len(Window(seq, 0, size)) = Fewer(size, Len(seq))
         /\ \A i \in 1..Fewer(size, Len(seq)) : Window(seq, 0, size)[i] = seq[i]
  <1> DEFINE from == 0
  <1>1. from \in Nat /\ \A i \in Nat : from + i = i
    OBVIOUS
  <1>2. Left(seq, from) = Len(seq) /\ Len(seq) \in Nat
    BY DEF Left
  <1> HIDE DEF from
  <1>3. /\ Window(seq, from, size) \in Seq(S)
        /\ Len(Window(seq, from, size)) = Fewer(size, Len(seq))
        /\ \A i \in 1..Fewer(size, Len(seq)) : Window(seq, from, size)[i] = seq[from + i]
    <2>1. /\ Window(seq, from, size) \in Seq(S)
          /\ Len(Window(seq, from, size)) = Fewer(size, Left(seq, from))
          /\ Cuts(Window(seq, from, size), seq, from, Fewer(size, Left(seq, from)))
      BY <1>1, WindowIs
    <2>2. Fewer(size, Left(seq, from)) = Fewer(size, Len(seq))
      BY <1>2
    <2> QED BY <2>1, <2>2 DEF Cuts
  <1>4. Fewer(size, Len(seq)) \in Nat
    BY <1>2 DEF Fewer
  <1>5. \A i \in 1..Fewer(size, Len(seq)) : seq[from + i] = seq[i]
    BY <1>1, <1>4
  <1> QED BY <1>3, <1>5 DEF from

LEMMA WindowsJoin ==
  ASSUME NEW S, NEW seq \in Seq(S), NEW from \in Nat, NEW size \in Nat
  PROVE  Window(seq, 0, from) \o Window(seq, from, size) = Window(seq, 0, from + size)
  <1> DEFINE m == Fewer(from, Len(seq))
             n == Fewer(size, Left(seq, from))
             l == Fewer(from + size, Len(seq))
  <1>1. m \in Nat /\ n \in Nat /\ l = m + n /\ (n # 0 => m = from) /\ from + size \in Nat
    <2> DEFINE k == Len(seq)
    <2>1. k \in Nat
      OBVIOUS
    <2>2. m = (IF from < k THEN from ELSE k) /\ l = (IF from + size < k THEN from + size ELSE k)
      BY DEF Fewer
    <2>3. n = (IF from < k THEN (IF size < k - from THEN size ELSE k - from) ELSE 0)
      BY <2>1 DEF Fewer, Left
    <2> HIDE DEF k, m, n, l
    <2> QED BY <2>1, <2>2, <2>3
  <1> DEFINE a == Window(seq, 0, from)
             b == Window(seq, from, size)
             c == Window(seq, 0, from + size)
  <1> HIDE DEF m, n, l, a, b, c
  <1>3. a \in Seq(S) /\ Len(a) = m /\ \A i \in 1..m : a[i] = seq[i]
    BY FirstWindowIs DEF m, a
  <1>4. b \in Seq(S) /\ Len(b) = n /\ \A i \in 1..n : b[i] = seq[from + i]
    <2>1. /\ Window(seq, from, size) \in Seq(S)
          /\ Len(Window(seq, from, size)) = Fewer(size, Left(seq, from))
          /\ Cuts(Window(seq, from, size), seq, from, Fewer(size, Left(seq, from)))
      BY WindowIs
    <2> QED BY <2>1 DEF n, b, Cuts
  <1>5. c \in Seq(S) /\ Len(c) = l /\ \A i \in 1..l : c[i] = seq[i]
    BY <1>1, FirstWindowIs DEF l, c
  <1>6. a \o b \in Seq(S) /\ Len(a \o b) = l
    <2>0. a \in Seq(S) /\ b \in Seq(S)
      BY <1>3, <1>4
    <2>1. Len(a \o b) = Len(a) + Len(b) /\ a \o b \in Seq(S)
      BY <2>0
    <2> QED BY <1>1, <1>3, <1>4, <2>1
  <1>7. /\ \A i \in 1..m : (a \o b)[i] = a[i]
        /\ \A i \in 1..n : (a \o b)[m + i] = b[i]
    <2>1. a \in Seq(S) /\ b \in Seq(S) /\ Len(a) = m /\ Len(b) = n
      BY <1>3, <1>4
    <2>2. ASSUME NEW i \in 1..m PROVE (a \o b)[i] = a[i]
      BY <1>1, <2>1
    <2>3. ASSUME NEW i \in 1..n PROVE (a \o b)[m + i] = b[i]
      BY <1>1, <2>1
    <2> QED BY <2>2, <2>3
  <1> DEFINE ab == a \o b
  <1> HIDE DEF ab
  <1>8. ASSUME NEW i \in 1..l PROVE ab[i] = c[i]
    <2>1. c[i] = seq[i] /\ i \in Int /\ m \in Int
      BY <1>1, <1>5
    <2>2. CASE i <= m
      <3>1. i \in 1..m
        BY <1>1, <2>2
      <3>2. ab[i] = a[i]
        BY <1>7, <3>1 DEF ab
      <3> QED BY <1>3, <2>1, <3>1, <3>2
    <2>3. CASE m < i
      <3>1. i - m \in 1..n /\ m = from
        BY <1>1, <2>3
      <3>2. m + (i - m) = i /\ from + (i - m) = i
        BY <2>1, <3>1
      <3>3. ab[m + (i - m)] = b[i - m] /\ b[i - m] = seq[from + (i - m)]
        BY <1>4, <1>7, <3>1 DEF ab
      <3> QED BY <2>1, <3>2, <3>3
    <2> QED BY <2>1, <2>2, <2>3
  <1>9. ab = c
    <2>1. ab \in Seq(S) /\ Len(ab) = l
      BY <1>6 DEF ab
    <2> QED BY <1>5, <1>8, <2>1
  <1> QED BY <1>9 DEF ab, a, b, c
-----------------------------------------------------------------------------
(***************************************************************************)
(* What the client may ask, and what the tables hold.                      *)
(***************************************************************************)
LEMMA QueryIs ==
  ASSUME NEW q \in Queries
  PROVE  /\ q.limit \in Nat \ {0} /\ q.kind \in {"list", "menu", "budget"}
         /\ q.kind = "budget" => q.people \in Nat \ {0} /\ q.budget \in Nat
         /\ q.kind = "menu" => q.restaurantId \in Restaurants
  BY CatalogAssumption DEF ListQuery, BudgetQuery

LEMMA DishIs ==
  ASSUME TypeOK, NEW d \in Dishes
  PROVE  /\ dish[d].price \in Nat \cup {Null} /\ dish[d].servings \in Nat \ {0}
         /\ RestaurantOf[d] \in Restaurants /\ d \in Nat
         /\ Priced(d) => dish[d].price \in Nat
  BY CatalogAssumption DEF TypeOK, Dish, Priced

(***************************************************************************)
(* ceil(people / servings) portions are enough, and at least one.          *)
(***************************************************************************)
LEMMA QuantityIs ==
  ASSUME NEW people \in Nat \ {0}, NEW servings \in Nat \ {0}
  PROVE  /\ Quantity(people, servings) \in Nat
         /\ Quantity(people, servings) * servings >= people
  <1> DEFINE a == people + servings - 1
             k == a \div servings
  <1>1. a \in Nat /\ a >= people + servings - 1
    OBVIOUS
  <1>2. k \in Nat /\ k * servings + servings > a
    <2> HIDE DEF a
    <2>1. k \in Nat /\ a = servings * k + (a % servings) /\ a % servings < servings
          /\ a % servings \in Nat
      BY <1>1
    <2> HIDE DEF k
    <2>2. servings * k = k * servings
      BY <2>1
    <2>3. k * servings \in Nat
      BY <2>1
    <2> QED BY <1>1, <2>1, <2>2, <2>3
  <1>3. k * servings \in Nat
    BY <1>2
  <1> QED BY <1>1, <1>2, <1>3 DEF Quantity

LEMMA ProductIs ==
  ASSUME NEW a \in Nat, NEW b \in Nat
  PROVE  a * b \in Nat
  OBVIOUS

LEMMA ShareIs ==
  ASSUME NEW total \in Nat, NEW people \in Nat \ {0}
  PROVE  Share(total, people) \in Nat
  <1> DEFINE a == 200 * total + people
             b == 2 * people
  <1>1. a \in Nat /\ b \in Nat \ {0}
    OBVIOUS
  <1>2. Share(total, people) = a \div b
    BY DEF Share
  <1> HIDE DEF a, b
  <1> QED BY <1>1, <1>2

LEMMA CostIs ==
  ASSUME TypeOK, NEW q \in Queries, q.kind = "budget", NEW d \in Dishes, Priced(d)
  PROVE  Cost(q, d) \in Nat
  <1>1. Quantity(q.people, dish[d].servings) \in Nat /\ dish[d].price \in Nat
    BY QueryIs, DishIs, QuantityIs
  <1> QED BY <1>1, ProductIs DEF Cost

(***************************************************************************)
(* The order of a list, and that of a budget search, is total on the rows  *)
(* it selects: costs that tie are told apart by the identifier.            *)
(***************************************************************************)
LEMMA OrderIsTotal ==
  ASSUME TypeOK, NEW q \in Queries
  PROVE  Orders(Precedence(q), Wanted(q))
  <1>1. Wanted(q) \subseteq Dishes /\ \A d \in Wanted(q) : d \in Nat
    BY CatalogAssumption DEF Wanted
  <1>2. \A c, d \in Wanted(q) : <<c, d>> \in Precedence(q) <=> Before(q, c, d)
    BY <1>1 DEF Precedence
  <1>3. CASE q.kind = "budget"
    <2> DEFINE cost(d) == Cost(q, d)
    <2>1. \A d \in Wanted(q) : cost(d) \in Nat
      BY <1>1, <1>3, CostIs DEF Wanted, Affordable
    <2>2. \A c, d \in Wanted(q) : <<c, d>> \in Precedence(q) <=>
            cost(c) < cost(d) \/ (cost(c) = cost(d) /\ c < d)
      BY <1>2, <1>3 DEF Before
    <2> HIDE DEF cost
    <2> QED BY <1>1, <2>1, <2>2 DEF Orders
  <1>4. CASE q.kind # "budget"
    <2>1. \A c, d \in Wanted(q) : <<c, d>> \in Precedence(q) <=> c < d
      BY <1>2, <1>4 DEF Before
    <2> QED BY <1>1, <2>1 DEF Orders
  <1> QED BY <1>3, <1>4

LEMMA RankedIs ==
  ASSUME TypeOK, NEW q \in Queries
  PROVE  /\ Ranked(q) \in Seq(Wanted(q)) /\ Ranked(q) \in Seq(Dishes)
         /\ Wanted(q) \subseteq Dishes
         /\ \A i, j \in 1..Len(Ranked(q)) : Ranked(q)[i] = Ranked(q)[j] => i = j
         /\ Follows(Ranked(q), Cardinality(Wanted(q)), Wanted(q), Precedence(q))
  <1>1. Wanted(q) \subseteq Dishes /\ IsFiniteSet(Wanted(q))
    BY CatalogAssumption, FS_Subset DEF Wanted
  <1> DEFINE r == Ranked(q)
             n == Cardinality(Wanted(q))
  <1>2. Follows(r, n, Wanted(q), Precedence(q)) /\ n \in Nat
    BY <1>1, OrderIsTotal, SortedFollows, FS_CardinalityType DEF Ranked
  <1>3. Orders(Precedence(q), Wanted(q))
    BY OrderIsTotal
  <1> HIDE DEF r, n
  <1>4. r \in [1..n -> Wanted(q)]
    BY <1>2 DEF Follows
  <1>5. r \in Seq(Wanted(q)) /\ Len(r) = n
    BY <1>2, <1>4
  <1>6. r \in Seq(Dishes)
    BY <1>1, <1>2, <1>4
  <1>7. ASSUME NEW i \in 1..n, NEW j \in 1..n, r[i] = r[j] PROVE i = j
    <2>1. ~(i < j) /\ ~(j < i)
      <3>1. r[i] \in Wanted(q) /\ <<r[i], r[i]>> \notin Precedence(q)
        BY <1>3, <1>4 DEF Orders
      <3> QED BY <1>2, <1>7, <3>1 DEF Follows
    <2> QED BY <1>2, <2>1
  <1> QED BY <1>1, <1>2, <1>5, <1>6, <1>7 DEF r, n
-----------------------------------------------------------------------------
(***************************************************************************)
(* The invariant.  Where the search stands agrees with what is asked.      *)
(***************************************************************************)
StagesHold ==
  /\ pc = "found" => query.kind = "menu"
  /\ pc = "rereading" => query.kind = "budget"
  /\ pc # "answered" => answer = NoPage
  /\ edits = 0 => touched = {}

(***************************************************************************)
(* The rows of the first statement: each dish once, one more than the page *)
(* at most; what no edit touched since is still affordable, in the         *)
(* quantity computed then; and without edits they are those of now.        *)
(***************************************************************************)
RowsHold ==
  pc \in {"rereading", "including"} =>
    /\ \A i, j \in DOMAIN rows : rows[i].id = rows[j].id => i = j
    /\ query.kind = "budget" =>
         \A i \in DOMAIN rows : rows[i].id \notin touched =>
           /\ Affordable(query, rows[i].id)
           /\ rows[i].quantity = Quantity(query.people, dish[rows[i].id].servings)
    /\ edits = 0 => Ids(rows) = RowsRead

(***************************************************************************)
(* The second read has every row a list shows, and every row of a budget   *)
(* search that no edit touched; those are read as they are.                *)
(***************************************************************************)
CopiesHold ==
  pc = "including" =>
    /\ \A i \in DOMAIN rows : query.kind # "budget" \/ rows[i].id \notin touched
         => rows[i].id \in DOMAIN copies
    /\ \A d \in DOMAIN copies : d \notin touched => copies[d] = Copy(d)

(***************************************************************************)
(* Without edits the pages shown are the beginning of the ranking, and the *)
(* last page ends it.                                                      *)
(***************************************************************************)
Reached == IF pc = "answered" THEN offset + query.limit ELSE offset

WalkHolds ==
  /\ edits = 0 => Ids(shown) = Window(Ranked(query), 0, Reached)
  /\ pc = "answered" =>
       /\ answer.next \in {Null, offset + query.limit}
       /\ edits = 0 /\ answer.next = Null => Len(Ranked(query)) <= Reached

(***************************************************************************)
(* The pages of the two catalogues, but for what a whole walk has shown.   *)
(***************************************************************************)
PagesAgree ==
  pc = "answered" /\ edits = 0 /\ (\A d \in Dishes : Public(d) /\ Priced(d)) =>
    /\ Range(answer.data) \subseteq Range(DemoItems(query))
    /\ SpelledAlike(query) =>
         /\ Len(answer.data) = Len(DemoPage(query, offset).data)
         /\ answer.next = DemoPage(query, offset).next
         /\ query.kind = "budget" => answer = DemoPage(query, offset)

IInv == /\ TypeOK /\ StagesHold /\ RowsHold /\ CopiesHold /\ WalkHolds
        /\ PriceShownFits /\ PortionsSuffice /\ PagesAgree

-----------------------------------------------------------------------------
(***************************************************************************)
(* An answer shows rows in their order: in a list all of them, in a budget *)
(* search those that are still good, among them every row that no edit     *)
(* touched; and no more than the page.                                     *)
(***************************************************************************)
ItemOf(r) ==
  IF query.kind = "budget" THEN Proposal(r.id, copies[r.id], r.quantity)
                           ELSE ListItem(r.id, copies[r.id])

Answers(m, at) ==
  /\ m \in 0..Len(rows) /\ at \in [1..m -> 1..Len(rows)]
  /\ \A j, k \in 1..m : j < k => at[j] < at[k]
  /\ \A k \in 1..m : rows[at[k]].id \in DOMAIN copies
                     /\ (query.kind = "budget" => StillGood(rows[at[k]]))
  /\ \A i \in 1..Len(rows) : rows[i].id \notin touched =>
       \E k \in 1..m : at[k] = i /\ k <= i
  /\ edits = 0 => m = Len(rows) /\ \A k \in 1..m : at[k] = k
  /\ answer' = [data |-> [k \in 1..Fewer(query.limit, m) |-> ItemOf(rows[at[k]])],
                next |-> IF m > query.limit THEN offset + query.limit ELSE Null]
  /\ answer'.data \in Seq(ItemType)
  /\ shown' = shown \o answer'.data

LEMMA ItemIs ==
  ASSUME TypeOK, NEW i \in 1..Len(rows), rows[i].id \in DOMAIN copies
  PROVE  ItemOf(rows[i]) \in ItemType
  <1> DEFINE d == rows[i].id
             c == copies[d]
             k == rows[i].quantity
  <1>1. rows[i] \in RowType
    BY DEF TypeOK
  <1>2. d \in Dishes /\ c \in [price : Nat, servings : Nat] /\ k \in Nat
    BY <1>1 DEF TypeOK, RowType
  <1>3. ItemOf(rows[i]) = IF query.kind = "budget" THEN Proposal(d, c, k) ELSE ListItem(d, c)
    BY DEF ItemOf
  <1> HIDE DEF d, c, k
  <1>4. ListItem(d, c) \in ItemType
    BY <1>2 DEF ListItem, ItemType
  <1>5. ASSUME query.kind = "budget" PROVE Proposal(d, c, k) \in ItemType
    <2>1. c.price * k \in Nat
      BY <1>2, ProductIs
    <2>2. query.people \in Nat \ {0}
      BY <1>5, QueryIs DEF TypeOK
    <2>3. Share(c.price * k, query.people) \in Nat
      BY <2>1, <2>2, ShareIs
    <2> QED BY <1>2, <2>1, <2>3 DEF Proposal, ItemType
  <1> QED BY <1>3, <1>4, <1>5

LEMMA UntouchedIsGood ==
  ASSUME IInv, pc = "including", NEW i \in DOMAIN rows, rows[i].id \notin touched
  PROVE  /\ rows[i].id \in DOMAIN copies /\ copies[rows[i].id] = Copy(rows[i].id)
         /\ query.kind = "budget" => StillGood(rows[i])
  <1>1. rows[i].id \in DOMAIN copies /\ copies[rows[i].id] = Copy(rows[i].id)
    BY DEF IInv, CopiesHold
  <1>2. ASSUME query.kind = "budget" PROVE StillGood(rows[i])
    <2>1. /\ Affordable(query, rows[i].id)
          /\ rows[i].quantity = Quantity(query.people, dish[rows[i].id].servings)
      BY <1>2 DEF IInv, RowsHold
    <2> QED BY <1>1, <2>1 DEF StillGood, Affordable, Cost, Copy
  <1> QED BY <1>1, <1>2

LEMMA ReplyIs ==
  ASSUME TypeOK, NEW m \in 0..Len(rows), NEW at \in [1..m -> 1..Len(rows)],
         \A k \in 1..m : rows[at[k]].id \in DOMAIN copies,
         Reply([k \in 1..m |-> ItemOf(rows[at[k]])])
  PROVE  /\ answer' = [data |-> [k \in 1..Fewer(query.limit, m) |-> ItemOf(rows[at[k]])],
                       next |-> IF m > query.limit THEN offset + query.limit ELSE Null]
         /\ answer'.data \in Seq(ItemType)
         /\ shown' = shown \o answer'.data
  <1> DEFINE items == [k \in 1..m |-> ItemOf(rows[at[k]])]
             data == Window(items, 0, query.limit)
             n == Fewer(query.limit, m)
  <1>1. m \in Nat /\ query.limit \in Nat
    BY QueryIs DEF TypeOK
  <1>2. \A k \in 1..m : ItemOf(rows[at[k]]) \in ItemType
    BY ItemIs
  <1>3. items \in Seq(ItemType) /\ Len(items) = m
    BY <1>1, <1>2
  <1>4. \A k \in 1..m : items[k] = ItemOf(rows[at[k]])
    OBVIOUS
  <1>5. n \in Nat /\ \A k \in 1..n : k \in 1..m
    BY <1>1 DEF Fewer
  <1>6. answer' = [data |-> data, next |-> IF m > query.limit THEN offset + query.limit ELSE Null]
        /\ shown' = shown \o data
    BY <1>3 DEF Reply, Page
  <1> HIDE DEF items
  <1>7. data \in Seq(ItemType) /\ Len(data) = n /\ \A k \in 1..n : data[k] = items[k]
    <2>1. /\ data \in Seq(ItemType) /\ Len(data) = Fewer(query.limit, Len(items))
          /\ \A k \in 1..Fewer(query.limit, Len(items)) : data[k] = items[k]
      BY <1>1, <1>3, FirstWindowIs
    <2>2. n = Fewer(query.limit, Len(items))
      BY <1>3
    <2> HIDE DEF data, n
    <2> QED BY <2>1, <2>2
  <1> HIDE DEF data, n
  <1>8. data = [k \in 1..n |-> ItemOf(rows[at[k]])]
    <2>1. data = [k \in 1..n |-> data[k]]
      BY <1>5, <1>7
    <2>2. \A k \in 1..n : data[k] = ItemOf(rows[at[k]])
      BY <1>4, <1>5, <1>7
    <2> QED BY <2>1, <2>2
  <1>9. answer'.data = data
    BY <1>6
  <1> QED BY <1>6, <1>7, <1>8, <1>9 DEF n

LEMMA AnswerIs ==
  ASSUME IInv, AnswerList \/ AnswerBudget
  PROVE  \E m, at : Answers(m, at)
  <1>0. Len(rows) \in Nat /\ rows \in Seq(RowType) /\ DOMAIN rows = 1..Len(rows)
    BY DEF IInv, TypeOK
  <1>1. CASE AnswerList
    <2> DEFINE m == Len(rows)
               at == [k \in 1..m |-> k]
    <2>1. m \in 0..Len(rows) /\ at \in [1..m -> 1..Len(rows)] /\ \A k \in 1..m : at[k] = k
      BY <1>0
    <2>2. \A k \in 1..m : rows[at[k]].id \in DOMAIN copies
      BY <1>0, <1>1, <2>1 DEF AnswerList, IInv, CopiesHold
    <2>3. Reply([k \in 1..m |-> ItemOf(rows[at[k]])]) /\ query.kind # "budget"
      <3>1. query.kind # "budget"
            /\ Reply([k \in DOMAIN rows |-> ListItem(rows[k].id, copies[rows[k].id])])
        BY <1>1 DEF AnswerList
      <3>2. [k \in DOMAIN rows |-> ListItem(rows[k].id, copies[rows[k].id])]
              = [k \in 1..m |-> ItemOf(rows[at[k]])]
        BY <1>0, <2>1, <3>1 DEF ItemOf
      <3> QED BY <3>1, <3>2
    <2> HIDE DEF m, at
    <2>4. /\ answer' = [data |-> [k \in 1..Fewer(query.limit, m) |-> ItemOf(rows[at[k]])],
                        next |-> IF m > query.limit THEN offset + query.limit ELSE Null]
          /\ answer'.data \in Seq(ItemType)
          /\ shown' = shown \o answer'.data
      BY <2>1, <2>2, <2>3, ReplyIs DEF IInv
    <2>5. m = Len(rows)
      BY DEF m
    <2>6. /\ \A i \in 1..Len(rows) : \E k \in 1..m : at[k] = i /\ k <= i
          /\ \A j, k \in 1..m : j < k => at[j] < at[k]
      BY <1>0, <2>1, <2>5
    <2>7. Answers(m, at)
      BY <2>1, <2>2, <2>3, <2>4, <2>5, <2>6 DEF Answers
    <2> QED BY <2>7
  <1>2. CASE AnswerBudget
    <2> DEFINE good == {i \in DOMAIN rows : rows[i].id \in DOMAIN copies /\ StillGood(rows[i])}
               m == Cardinality(good)
    <2>1. pc = "including" /\ query.kind = "budget"
          /\ Reply([i \in DOMAIN Selected(rows, good) |->
                     Proposal(Selected(rows, good)[i].id,
                              copies[Selected(rows, good)[i].id],
                              Selected(rows, good)[i].quantity)])
      BY <1>2 DEF AnswerBudget
    <2>2. good \in SUBSET DOMAIN rows
      OBVIOUS
    <2>3. ASSUME NEW i \in DOMAIN rows, rows[i].id \notin touched PROVE i \in good
      BY <2>1, <2>3, UntouchedIsGood
    <2>4. edits = 0 => good = DOMAIN rows
      BY <2>2, <2>3 DEF IInv, StagesHold
    <2>5. \A i \in good : rows[i].id \in DOMAIN copies /\ StillGood(rows[i])
      OBVIOUS
    <2> HIDE DEF good
    <2>6. PICK at : /\ at \in [1..m -> good] /\ m \in 0..Len(rows)
                    /\ Selected(rows, good) = [k \in 1..m |-> rows[at[k]]]
                    /\ \A i \in good : \E k \in 1..m : at[k] = i /\ k <= i
                    /\ \A j, k \in 1..m : j < k => at[j] < at[k]
                    /\ good = DOMAIN rows => /\ m = Len(rows)
                                             /\ \A k \in 1..Len(rows) : at[k] = k
      BY <1>0, <2>2, SelectedIs
    <2> HIDE DEF m
    <2>7. at \in [1..m -> 1..Len(rows)] /\ \A k \in 1..m : at[k] \in good
      BY <1>0, <2>2, <2>6
    <2>8. \A k \in 1..m : rows[at[k]].id \in DOMAIN copies /\ StillGood(rows[at[k]])
      BY <2>5, <2>7
    <2>9. Reply([k \in 1..m |-> ItemOf(rows[at[k]])])
      <3>1. [i \in DOMAIN Selected(rows, good) |->
                     Proposal(Selected(rows, good)[i].id,
                              copies[Selected(rows, good)[i].id],
                              Selected(rows, good)[i].quantity)]
              = [k \in 1..m |-> ItemOf(rows[at[k]])]
        BY <2>1, <2>6 DEF ItemOf
      <3> QED BY <2>1, <3>1
    <2>13. TypeOK /\ m \in 0..Len(rows) /\ \A k \in 1..m : rows[at[k]].id \in DOMAIN copies
      BY <2>6, <2>8 DEF IInv
    <2>10. /\ answer' = [data |-> [k \in 1..Fewer(query.limit, m) |-> ItemOf(rows[at[k]])],
                        next |-> IF m > query.limit THEN offset + query.limit ELSE Null]
          /\ answer'.data \in Seq(ItemType)
          /\ shown' = shown \o answer'.data
      BY <2>7, <2>9, <2>13, ReplyIs
    <2>11. \A i \in 1..Len(rows) : rows[i].id \notin touched =>
             \E k \in 1..m : at[k] = i /\ k <= i
      BY <1>0, <2>3, <2>6
    <2>12. edits = 0 => m = Len(rows) /\ \A k \in 1..m : at[k] = k
      BY <2>4, <2>6
    <2> QED BY <2>6, <2>7, <2>8, <2>10, <2>11, <2>12 DEF Answers
  <1> QED BY <1>1, <1>2
-----------------------------------------------------------------------------
(***************************************************************************)
(* One step per statement, request and edit.                               *)
(***************************************************************************)
LEMMA EmptyWindow ==
  ASSUME TypeOK, NEW q \in Queries
  PROVE  Window(Ranked(q), 0, 0) = <<>>
  <1>1. Ranked(q) \in Seq(Dishes)
    BY RankedIs
  <1>2. Window(Ranked(q), 0, 0) \in Seq(Dishes)
        /\ Len(Window(Ranked(q), 0, 0)) = Fewer(0, Len(Ranked(q)))
    BY <1>1, FirstWindowIs
  <1>3. Fewer(0, Len(Ranked(q))) = 0
    BY <1>1 DEF Fewer
  <1> QED BY <1>2, <1>3

LEMMA RankedFixed ==
  ASSUME UNCHANGED tables, NEW q, query' = q
  PROVE  Ranked(query)' = Ranked(q)
  BY DEF tables, Ranked, Wanted, Precedence, Before, Listed, Affordable, Public, Priced,
         InArea, Cost

LEMMA Initially == Init => IInv
  <1> SUFFICES ASSUME Init PROVE IInv
    OBVIOUS
  <1>1. TypeOK
    BY CatalogAssumption DEF Init, TypeOK, NoPage, Places
  <1>2. Window(Ranked(query), 0, 0) = <<>> /\ Ids(<<>>) = <<>>
    BY <1>1, EmptyWindow DEF TypeOK, Ids
  <1>3. WalkHolds
    BY <1>2 DEF Init, WalkHolds, Reached
  <1>4. PriceShownFits /\ PortionsSuffice /\ PagesAgree
    BY DEF Init, NoPage, PriceShownFits, PortionsSuffice, PagesAgree
  <1> QED BY <1>1, <1>3, <1>4 DEF Init, IInv, StagesHold, RowsHold, CopiesHold

LEMMA AskStep ==
  ASSUME IInv, NEW q \in Queries, Ask(q)
  PROVE  IInv'
  <1>1. TypeOK'
    BY CatalogAssumption DEF Ask, IInv, TypeOK, NoPage, Places, tables
  <1>2. Window(Ranked(q), 0, 0) = <<>> /\ Ids(<<>>) = <<>> /\ Ranked(query)' = Ranked(q)
    BY EmptyWindow, RankedFixed DEF Ask, IInv, Ids
  <1>3. WalkHolds'
    <2>1. Ids(shown)' = <<>> /\ Reached' = 0 /\ pc' # "answered"
      BY <1>2 DEF Ask, Reached, Ids
    <2> QED BY <1>2, <2>1 DEF WalkHolds
  <1>4. PriceShownFits' /\ PortionsSuffice' /\ PagesAgree'
    BY DEF Ask, NoPage, PriceShownFits, PortionsSuffice, PagesAgree
  <1>5. StagesHold' /\ RowsHold' /\ CopiesHold'
    BY DEF Ask, StagesHold, RowsHold, CopiesHold
  <1> QED BY <1>1, <1>3, <1>4, <1>5 DEF IInv

(***************************************************************************)
(* Steps that leave the tables and what was shown as they are, and do not  *)
(* answer.                                                                 *)
(***************************************************************************)
LEMMA QuietStep ==
  ASSUME IInv, UNCHANGED <<tables, query, answer, shown, edits>>, Reached' = Reached,
         pc' # "answered", answer = NoPage, touched' \in {touched, {}}
  PROVE  WalkHolds' /\ PriceShownFits' /\ PortionsSuffice' /\ PagesAgree'
         /\ (edits = 0 => touched' = {})
  <1>1. Ranked(query)' = Ranked(query)
    BY RankedFixed
  <1>2. WalkHolds'
    <2>1. Ids(shown)' = Ids(shown)
      BY DEF Ids
    <2> QED BY <1>1, <2>1 DEF IInv, WalkHolds
  <1>3. PriceShownFits' /\ PortionsSuffice' /\ PagesAgree'
    BY DEF NoPage, PriceShownFits, PortionsSuffice, PagesAgree
  <1> QED BY <1>2, <1>3 DEF IInv, StagesHold

LEMMA NextPageStep ==
  ASSUME IInv, NextPage
  PROVE  IInv'
  <1>1. /\ pc = "answered" /\ pc' = "asked" /\ offset' = offset + query.limit
        /\ UNCHANGED <<tables, query, rows, copies, shown, edits, touched>>
        /\ answer' = NoPage
    BY DEF NextPage, IInv, WalkHolds, history
  <1>2. TypeOK'
    <2>1. offset' \in Nat
      BY <1>1, QueryIs DEF IInv, TypeOK
    <2> QED BY <1>1, <2>1, CatalogAssumption DEF IInv, TypeOK, NoPage, Places, tables
  <1>3. WalkHolds'
    <2>1. Ranked(query)' = Ranked(query) /\ Ids(shown)' = Ids(shown) /\ Reached' = Reached
      BY <1>1, RankedFixed DEF Ids, Reached
    <2> QED BY <1>1, <2>1 DEF IInv, WalkHolds
  <1>4. PriceShownFits' /\ PortionsSuffice' /\ PagesAgree'
    BY <1>1 DEF NoPage, PriceShownFits, PortionsSuffice, PagesAgree
  <1>5. StagesHold' /\ RowsHold' /\ CopiesHold'
    BY <1>1 DEF IInv, StagesHold, RowsHold, CopiesHold
  <1> QED BY <1>2, <1>3, <1>4, <1>5 DEF IInv

LEMMA FindRestaurantStep ==
  ASSUME IInv, FindRestaurant
  PROVE  IInv'
  <1>1. /\ pc = "asked" /\ query.kind = "menu" /\ pc' \in {"found", "idle"}
        /\ UNCHANGED <<tables, query, offset, rows, copies, answer, shown, edits, touched>>
        /\ answer = NoPage
    BY DEF FindRestaurant, IInv, StagesHold, history
  <1>2. TypeOK'
    BY <1>1 DEF IInv, TypeOK, Places, tables
  <1>3. WalkHolds' /\ PriceShownFits' /\ PortionsSuffice' /\ PagesAgree'
    BY <1>1, QuietStep DEF Reached
  <1>4. StagesHold' /\ RowsHold' /\ CopiesHold'
    BY <1>1 DEF IInv, StagesHold, RowsHold, CopiesHold
  <1> QED BY <1>2, <1>3, <1>4 DEF IInv

(***************************************************************************)
(* The rows a statement reads: each dish that is asked for once.           *)
(***************************************************************************)
LEMMA RowsReadIs ==
  ASSUME TypeOK
  PROVE  /\ RowsRead \in Seq(Wanted(query)) /\ DOMAIN RowsRead = 1..Len(RowsRead)
         /\ \A i \in DOMAIN RowsRead : RowsRead[i] \in Wanted(query) /\ RowsRead[i] \in Dishes
         /\ \A i, j \in DOMAIN RowsRead : RowsRead[i] = RowsRead[j] => i = j
         /\ Len(RowsRead) = Fewer(query.limit + 1, Left(Ranked(query), offset))
         /\ \A i \in DOMAIN RowsRead : offset + i \in 1..Len(Ranked(query))
                                       /\ RowsRead[i] = Ranked(query)[offset + i]
  <1> DEFINE s == Ranked(query)
             n == Fewer(query.limit + 1, Left(s, offset))
  <1>1. offset \in Nat /\ query \in Queries /\ query.limit + 1 \in Nat
    BY QueryIs DEF TypeOK
  <1>2. /\ s \in Seq(Wanted(query)) /\ Wanted(query) \subseteq Dishes
        /\ \A i, j \in 1..Len(s) : s[i] = s[j] => i = j
    BY <1>1, RankedIs
  <1> HIDE DEF s
  <1>3. /\ RowsRead \in Seq(Wanted(query)) /\ Len(RowsRead) = n
        /\ \A i \in 1..n : offset + i \in 1..Len(s) /\ RowsRead[i] = s[offset + i]
    <2> DEFINE w == Window(s, offset, query.limit + 1)
    <2>1. /\ w \in Seq(Wanted(query))
          /\ Len(w) = Fewer(query.limit + 1, Left(s, offset))
          /\ Cuts(w, s, offset, Fewer(query.limit + 1, Left(s, offset)))
      BY <1>1, <1>2, WindowIs
    <2>2. RowsRead = w
      BY DEF RowsRead, s
    <2> HIDE DEF w
    <2> QED BY <2>1, <2>2 DEF Cuts
  <1> HIDE DEF n
  <1>4. DOMAIN RowsRead = 1..n /\ \A i \in 1..n : RowsRead[i] \in Wanted(query)
    BY <1>3
  <1>5. \A i, j \in 1..n : RowsRead[i] = RowsRead[j] => i = j
    <2> SUFFICES ASSUME NEW i \in 1..n, NEW j \in 1..n, RowsRead[i] = RowsRead[j]
                 PROVE  i = j
      OBVIOUS
    <2>1. offset + i = offset + j
      BY <1>2, <1>3
    <2> QED BY <1>1, <2>1
  <1> QED BY <1>2, <1>3, <1>4, <1>5 DEF n, s

LEMMA RowsReadFixed ==
  ASSUME UNCHANGED <<tables, query, offset>>
  PROVE  RowsRead' = RowsRead
  <1>1. Ranked(query)' = Ranked(query)
    BY RankedFixed
  <1> QED BY <1>1 DEF RowsRead, Window

LEMMA ReadListStep ==
  ASSUME IInv, ReadList
  PROVE  IInv'
  <1>1. /\ pc \in {"asked", "found"} /\ pc' = "including" /\ query.kind # "budget"
        /\ UNCHANGED <<tables, query, offset, answer, shown, edits>>
        /\ touched' = {} /\ answer = NoPage
        /\ rows' = [i \in DOMAIN RowsRead |-> [id |-> RowsRead[i], quantity |-> 1]]
        /\ copies' = [d \in Range(RowsRead) |-> Copy(d)]
    BY DEF ReadList, IInv, StagesHold
  <1>2. /\ DOMAIN RowsRead = 1..Len(RowsRead) /\ Len(RowsRead) \in Nat
        /\ \A i \in DOMAIN RowsRead : RowsRead[i] \in Wanted(query) /\ RowsRead[i] \in Dishes
        /\ \A i, j \in DOMAIN RowsRead : RowsRead[i] = RowsRead[j] => i = j
    BY RowsReadIs DEF IInv
  <1>3. /\ DOMAIN rows' = 1..Len(RowsRead) /\ rows' \in Seq(RowType)
        /\ \A i \in DOMAIN rows' : rows'[i].id = RowsRead[i] /\ rows'[i] \in RowType
    <2>1. \A d \in Dishes : [id |-> d, quantity |-> 1] \in RowType
      BY DEF RowType
    <2>2. rows' \in [1..Len(RowsRead) -> RowType]
      BY <1>1, <1>2, <2>1
    <2> QED BY <1>1, <1>2, <2>2
  <1>4. /\ DOMAIN copies' = Range(RowsRead) /\ \A d \in DOMAIN copies' : copies'[d] = Copy(d)
        /\ \A d \in DOMAIN copies' : d \in Dishes /\ d \in Wanted(query)
        /\ \A i \in DOMAIN RowsRead : RowsRead[i] \in DOMAIN copies'
    BY <1>1, <1>2 DEF Range
  <1>5. \A d \in DOMAIN copies' : copies'[d] \in [price : Nat, servings : Nat]
    <2> SUFFICES ASSUME NEW d \in DOMAIN copies'
                 PROVE  Copy(d) \in [price : Nat, servings : Nat]
      BY <1>4
    <2>1. d \in Dishes /\ Priced(d)
      BY <1>1, <1>4 DEF Wanted, Listed
    <2>2. dish[d].price \in Nat /\ dish[d].servings \in Nat
      BY <2>1, DishIs DEF IInv
    <2> QED BY <2>2 DEF Copy
  <1>6. TypeOK'
    BY <1>1, <1>3, <1>4, <1>5 DEF IInv, TypeOK, Places, tables
  <1>7. WalkHolds' /\ PriceShownFits' /\ PortionsSuffice' /\ PagesAgree'
        /\ (edits = 0 => touched' = {})
    BY <1>1, QuietStep DEF Reached
  <1>8. RowsHold'
    <2>1. Ids(rows)' = RowsRead'
      <3>1. RowsRead' = RowsRead
        BY <1>1, RowsReadFixed
      <3>2. Ids(rows)' = [i \in 1..Len(RowsRead) |-> RowsRead[i]]
        BY <1>3 DEF Ids
      <3> QED BY <1>2, <3>1, <3>2, RowsReadIs DEF IInv
    <2> QED BY <1>1, <1>2, <1>3, <2>1 DEF RowsHold
  <1>9. CopiesHold'
    <2>1. \A d : Copy(d)' = Copy(d)
      BY <1>1 DEF Copy, tables
    <2> QED BY <1>1, <1>2, <1>3, <1>4, <2>1 DEF CopiesHold
  <1>10. StagesHold'
    BY <1>1, <1>7 DEF StagesHold
  <1> QED BY <1>6, <1>7, <1>8, <1>9, <1>10 DEF IInv

LEMMA ReadQuantitiesStep ==
  ASSUME IInv, ReadQuantities
  PROVE  IInv'
  <1>1. /\ pc = "asked" /\ pc' = "rereading" /\ query.kind = "budget"
        /\ UNCHANGED <<tables, query, offset, copies, answer, shown, edits>>
        /\ touched' = {} /\ answer = NoPage
        /\ rows' = [i \in DOMAIN RowsRead |->
                      [id |-> RowsRead[i],
                       quantity |-> Quantity(query.people, dish[RowsRead[i]].servings)]]
    BY DEF ReadQuantities, IInv, StagesHold
  <1>2. /\ DOMAIN RowsRead = 1..Len(RowsRead) /\ Len(RowsRead) \in Nat
        /\ \A i \in DOMAIN RowsRead : RowsRead[i] \in Wanted(query) /\ RowsRead[i] \in Dishes
        /\ \A i, j \in DOMAIN RowsRead : RowsRead[i] = RowsRead[j] => i = j
    BY RowsReadIs DEF IInv
  <1>3. /\ DOMAIN rows' = 1..Len(RowsRead) /\ rows' \in Seq(RowType)
        /\ \A i \in DOMAIN rows' :
             /\ rows'[i].id = RowsRead[i]
             /\ rows'[i].quantity = Quantity(query.people, dish[RowsRead[i]].servings)
    <2>1. \A d \in Dishes : [id |-> d, quantity |-> Quantity(query.people, dish[d].servings)]
                              \in RowType
      <3> SUFFICES ASSUME NEW d \in Dishes
                   PROVE  Quantity(query.people, dish[d].servings) \in Nat
        BY DEF RowType
      <3> QED BY <1>1, QueryIs, DishIs, QuantityIs DEF IInv, TypeOK
    <2>2. rows' \in [1..Len(RowsRead) -> RowType]
      BY <1>1, <1>2, <2>1
    <2> QED BY <1>1, <1>2, <2>2
  <1>4. TypeOK'
    BY <1>1, <1>3 DEF IInv, TypeOK, Places, tables
  <1>5. WalkHolds' /\ PriceShownFits' /\ PortionsSuffice' /\ PagesAgree'
        /\ (edits = 0 => touched' = {})
    BY <1>1, QuietStep DEF Reached
  <1>6. RowsHold'
    <2>1. Ids(rows)' = RowsRead'
      <3>1. RowsRead' = RowsRead
        BY <1>1, RowsReadFixed
      <3>2. Ids(rows)' = [i \in 1..Len(RowsRead) |-> RowsRead[i]]
        BY <1>3 DEF Ids
      <3> QED BY <1>2, <3>1, <3>2, RowsReadIs DEF IInv
    <2>2. \A d : Affordable(query, d)' <=> Affordable(query, d)
      BY <1>1 DEF tables, Affordable, Public, Priced, InArea, Cost
    <2>3. \A i \in DOMAIN RowsRead : Affordable(query, RowsRead[i])
      BY <1>1, <1>2 DEF Wanted
    <2>4. \A i \in DOMAIN rows' :
            /\ Affordable(query, rows[i].id)'
            /\ rows'[i].quantity = Quantity(query'.people, dish'[rows'[i].id].servings)
      BY <1>1, <1>2, <1>3, <2>2, <2>3 DEF tables
    <2>5. \A i, j \in DOMAIN rows' : rows'[i].id = rows'[j].id => i = j
      BY <1>2, <1>3
    <2> QED BY <2>1, <2>4, <2>5 DEF RowsHold
  <1>7. StagesHold' /\ CopiesHold'
    BY <1>1, <1>5 DEF StagesHold, CopiesHold
  <1> QED BY <1>4, <1>5, <1>6, <1>7 DEF IInv

LEMMA ReadDishesStep ==
  ASSUME IInv, ReadDishes
  PROVE  IInv'
  <1> DEFINE Found(d) == Public(d) /\ Priced(d) /\ dish[d].available
  <1>1. /\ pc = "rereading" /\ pc' = "including" /\ query.kind = "budget"
        /\ UNCHANGED <<tables, query, offset, rows, answer, shown, edits, touched>>
        /\ answer = NoPage
        /\ copies' = [d \in {r.id : r \in {s \in Range(rows) : Found(s.id)}} |-> Copy(d)]
    BY DEF ReadDishes, IInv, StagesHold, history
  <1>2. \A i \in DOMAIN rows : rows[i].id \in Dishes
    <2>1. \A i \in DOMAIN rows : rows[i] \in RowType
      BY DEF IInv, TypeOK
    <2> QED BY <2>1 DEF RowType
  <1>3. /\ \A d \in DOMAIN copies' : copies'[d] = Copy(d) /\ d \in Dishes /\ Found(d)
        /\ \A i \in DOMAIN rows : Found(rows[i].id) => rows[i].id \in DOMAIN copies'
    <2> HIDE DEF Found
    <2> QED BY <1>1, <1>2 DEF Range
  <1>4. \A d \in DOMAIN copies' : copies'[d] \in [price : Nat, servings : Nat]
    <2> SUFFICES ASSUME NEW d \in DOMAIN copies'
                 PROVE  Copy(d) \in [price : Nat, servings : Nat]
      BY <1>3
    <2>1. d \in Dishes /\ Priced(d)
      BY <1>3
    <2>2. dish[d].price \in Nat /\ dish[d].servings \in Nat
      BY <2>1, DishIs DEF IInv
    <2> QED BY <2>2 DEF Copy
  <1>5. TypeOK'
    BY <1>1, <1>3, <1>4 DEF IInv, TypeOK, Places, tables
  <1>6. WalkHolds' /\ PriceShownFits' /\ PortionsSuffice' /\ PagesAgree'
        /\ (edits = 0 => touched' = {})
    BY <1>1, QuietStep DEF Reached
  <1>7. RowsHold'
    <2>1. \A d : Affordable(query, d)' <=> Affordable(query, d)
      BY <1>1 DEF tables, Affordable, Public, Priced, InArea, Cost
    <2>2. RowsRead' = RowsRead /\ Ids(rows)' = Ids(rows)
      BY <1>1, RowsReadFixed DEF Ids
    <2>3. \A i \in DOMAIN rows' : rows'[i].id \notin touched' =>
            /\ Affordable(query, rows[i].id)'
            /\ rows'[i].quantity = Quantity(query'.people, dish'[rows'[i].id].servings)
      BY <1>1, <2>1 DEF IInv, RowsHold, tables
    <2>4. /\ \A i, j \in DOMAIN rows' : rows'[i].id = rows'[j].id => i = j
          /\ edits' = 0 => Ids(rows)' = RowsRead'
      BY <1>1, <2>2 DEF IInv, RowsHold
    <2> QED BY <2>3, <2>4 DEF RowsHold
  <1>8. CopiesHold'
    <2>1. \A d : Copy(d)' = Copy(d)
      BY <1>1 DEF Copy, tables
    <2>2. \A i \in DOMAIN rows : rows[i].id \notin touched => Found(rows[i].id)
      BY <1>1 DEF IInv, RowsHold, Affordable
    <2> HIDE DEF Found
    <2> QED BY <1>1, <1>3, <2>1, <2>2 DEF CopiesHold
  <1>9. StagesHold'
    BY <1>1, <1>6 DEF StagesHold
  <1> QED BY <1>5, <1>6, <1>7, <1>8, <1>9 DEF IInv
-----------------------------------------------------------------------------
(***************************************************************************)
(* The step that answers.                                                  *)
(***************************************************************************)
Answered(m, at) ==
  /\ Answers(m, at)
  /\ pc = "including" /\ pc' = "answered" /\ rows' = <<>> /\ copies' = <<>>
  /\ UNCHANGED <<tables, query, offset, edits, touched>>

LEMMA SomethingAnswered ==
  ASSUME IInv, AnswerList \/ AnswerBudget
  PROVE  \E m, at : Answered(m, at)
  <1>1. PICK m, at : Answers(m, at)
    BY AnswerIs
  <1>2. /\ pc = "including" /\ pc' = "answered" /\ rows' = <<>> /\ copies' = <<>>
        /\ UNCHANGED <<tables, query, offset, edits, touched>>
    BY DEF AnswerList, AnswerBudget, Reply
  <1> QED BY <1>1, <1>2 DEF Answered

LEMMA DataIs ==
  ASSUME IInv, NEW m, NEW at, Answered(m, at)
  PROVE  /\ m \in Nat /\ query.limit \in Nat /\ Fewer(query.limit, m) \in Nat
         /\ DOMAIN answer'.data = 1..Fewer(query.limit, m)
         /\ \A k \in 1..Fewer(query.limit, m) :
              /\ k \in 1..m /\ at[k] \in DOMAIN rows
              /\ answer'.data[k] = ItemOf(rows[at[k]])
              /\ answer'.data[k].id = rows[at[k]].id
  <1> DEFINE n == Fewer(query.limit, m)
  <1>1. m \in Nat /\ query.limit \in Nat /\ DOMAIN rows = 1..Len(rows)
    BY QueryIs DEF Answered, Answers, IInv, TypeOK
  <1>2. n \in Nat /\ \A k \in 1..n : k \in 1..m
    BY <1>1 DEF Fewer
  <1>3. at \in [1..m -> 1..Len(rows)] /\ answer'.data = [k \in 1..n |-> ItemOf(rows[at[k]])]
    BY DEF Answered, Answers
  <1>4. \A r : ItemOf(r).id = r.id
    BY DEF ItemOf, Proposal, ListItem
  <1> HIDE DEF n
  <1>5. DOMAIN answer'.data = 1..n /\ \A k \in 1..n : answer'.data[k] = ItemOf(rows[at[k]])
    BY <1>3
  <1>6. \A k \in 1..n : at[k] \in DOMAIN rows
    BY <1>1, <1>2, <1>3
  <1> QED BY <1>1, <1>2, <1>4, <1>5, <1>6 DEF n

LEMMA AnswerTypes ==
  ASSUME IInv, NEW m, NEW at, Answered(m, at)
  PROVE  TypeOK'
  <1>1. /\ answer'.data \in Seq(ItemType) /\ shown' = shown \o answer'.data
        /\ answer' = [data |-> [k \in 1..Fewer(query.limit, m) |-> ItemOf(rows[at[k]])],
                      next |-> IF m > query.limit THEN offset + query.limit ELSE Null]
    BY DEF Answered, Answers
  <1>2. offset + query.limit \in Nat
    BY QueryIs DEF IInv, TypeOK
  <1>3. answer' \in [data : Seq(ItemType), next : Nat \cup {Null}]
    <2> DEFINE data == answer'.data
               next == answer'.next
    <2>1. answer' = [data |-> data, next |-> next] /\ next \in Nat \cup {Null}
      BY <1>1, <1>2
    <2>2. data \in Seq(ItemType)
      BY <1>1
    <2> HIDE DEF data, next
    <2> QED BY <2>1, <2>2
  <1>4. shown' \in Seq(ItemType)
    <2> DEFINE data == answer'.data
    <2>1. data \in Seq(ItemType) /\ shown' = shown \o data /\ shown \in Seq(ItemType)
      BY <1>1 DEF IInv, TypeOK
    <2> HIDE DEF data
    <2> QED BY <2>1
  <1>5. rows' \in Seq(RowType) /\ copies' = <<>> /\ DOMAIN copies' = {}
    BY DEF Answered
  <1> QED BY <1>3, <1>4, <1>5 DEF Answered, IInv, TypeOK, Places, tables

LEMMA AnswerFits ==
  ASSUME IInv, NEW m, NEW at, Answered(m, at)
  PROVE  PriceShownFits'
  <1> SUFFICES ASSUME query'.kind = "budget", NEW k \in DOMAIN answer'.data
               PROVE  answer'.data[k].price * answer'.data[k].quantity <= query'.budget
    BY DEF PriceShownFits
  <1>1. query' = query /\ query.kind = "budget"
    BY DEF Answered
  <1>2. k \in 1..m /\ answer'.data[k] = ItemOf(rows[at[k]])
    BY DataIs
  <1>3. StillGood(rows[at[k]])
    BY <1>1, <1>2 DEF Answered, Answers
  <1> QED BY <1>1, <1>2, <1>3 DEF ItemOf, Proposal, StillGood

LEMMA AnswerFeeds ==
  ASSUME IInv, NEW m, NEW at, Answered(m, at)
  PROVE  PortionsSuffice'
  <1> SUFFICES ASSUME query'.kind = "budget", NEW k \in DOMAIN answer'.data,
                      answer'.data[k].id \notin touched'
               PROVE  answer'.data[k].quantity * answer'.data[k].servings >= query'.people
    BY DEF PortionsSuffice
  <1> DEFINE i == at[k]
             d == rows[i].id
  <1>1. query' = query /\ query.kind = "budget" /\ touched' = touched /\ pc = "including"
    BY DEF Answered
  <1>2. i \in DOMAIN rows /\ answer'.data[k] = ItemOf(rows[i]) /\ d \notin touched
    BY <1>1, DataIs
  <1> HIDE DEF i
  <1>3. d \in Dishes
    <2>1. rows[i] \in RowType
      BY <1>2 DEF IInv, TypeOK
    <2> QED BY <2>1 DEF RowType
  <1>4. copies[d] = Copy(d) /\ rows[i].quantity = Quantity(query.people, dish[d].servings)
    BY <1>1, <1>2, UntouchedIsGood DEF IInv, RowsHold
  <1>5. query.people \in Nat \ {0} /\ dish[d].servings \in Nat \ {0}
    BY <1>1, <1>3, QueryIs, DishIs DEF IInv, TypeOK
  <1>6. /\ answer'.data[k].quantity = Quantity(query.people, dish[d].servings)
        /\ answer'.data[k].servings = dish[d].servings
    BY <1>1, <1>2, <1>4 DEF ItemOf, Proposal, Copy
  <1> QED BY <1>1, <1>5, <1>6, QuantityIs

(***************************************************************************)
(* Without edits the page is the next window of the ranking.               *)
(***************************************************************************)
LEMMA PageIsTheWindow ==
  ASSUME IInv, NEW m, NEW at, Answered(m, at), edits = 0
  PROVE  /\ m = Fewer(query.limit + 1, Left(Ranked(query), offset))
         /\ Fewer(query.limit, m) = Fewer(query.limit, Left(Ranked(query), offset))
         /\ \A k \in 1..Fewer(query.limit, m) :
              /\ k \in DOMAIN rows /\ answer'.data[k] = ItemOf(rows[k])
              /\ offset + k \in 1..Len(Ranked(query))
              /\ rows[k].id = Ranked(query)[offset + k]
  <1> DEFINE s == Ranked(query)
             l == Left(s, offset)
  <1>1. Ids(rows) = RowsRead /\ pc = "including"
    BY DEF IInv, RowsHold, Answered
  <1>2. DOMAIN rows = DOMAIN RowsRead /\ \A k \in DOMAIN rows : rows[k].id = RowsRead[k]
    BY <1>1 DEF Ids
  <1>3. /\ DOMAIN RowsRead = 1..Len(RowsRead) /\ Len(RowsRead) = Fewer(query.limit + 1, l)
        /\ \A k \in DOMAIN RowsRead : offset + k \in 1..Len(s) /\ RowsRead[k] = s[offset + k]
    BY RowsReadIs DEF IInv
  <1>4. m = Len(rows) /\ \A k \in 1..m : at[k] = k
    BY DEF Answered, Answers
  <1>5. Len(rows) = Len(RowsRead) /\ DOMAIN rows = 1..Len(rows)
    <2>1. Len(rows) \in Nat /\ DOMAIN rows = 1..Len(rows)
      BY DEF IInv, TypeOK
    <2>2. Len(RowsRead) \in Nat /\ DOMAIN RowsRead = 1..Len(RowsRead)
      BY RowsReadIs DEF IInv
    <2>3. \A a, b \in Nat : 1..a = 1..b => a = b
      OBVIOUS
    <2> QED BY <1>2, <2>1, <2>2, <2>3
  <1>6. l \in Nat /\ query.limit \in Nat
    <2>1. Ranked(query) \in Seq(Dishes) /\ offset \in Nat
      BY RankedIs DEF IInv, TypeOK
    <2>2. Len(s) \in Nat
      BY <2>1
    <2> QED BY <2>1, <2>2, QueryIs DEF IInv, TypeOK, Left
  <1> HIDE DEF s, l
  <1>7. Fewer(query.limit, m) = Fewer(query.limit, l)
    BY <1>3, <1>4, <1>5, <1>6 DEF Fewer
  <1>8. \A k \in 1..Fewer(query.limit, m) :
              /\ k \in DOMAIN rows /\ answer'.data[k] = ItemOf(rows[k])
              /\ offset + k \in 1..Len(s)
              /\ rows[k].id = s[offset + k]
    <2> TAKE k \in 1..Fewer(query.limit, m)
    <2>1. k \in 1..m /\ answer'.data[k] = ItemOf(rows[at[k]])
      BY DataIs
    <2> QED BY <1>2, <1>3, <1>4, <1>5, <2>1
  <1> QED BY <1>3, <1>4, <1>5, <1>7, <1>8 DEF s, l

LEMMA AnswerGoesOn ==
  ASSUME IInv, NEW m, NEW at, Answered(m, at)
  PROVE  WalkHolds'
  <1> DEFINE s == Ranked(query)
             l == Left(s, offset)
             n == Fewer(query.limit, m)
             w == Window(s, offset, query.limit)
             data == answer'.data
  <1>1. /\ pc' = "answered" /\ query' = query /\ offset' = offset /\ edits' = edits
        /\ Ranked(query)' = s /\ Reached' = offset + query.limit
        /\ Reached = offset
    BY RankedFixed DEF Answered, Reached
  <1>2. offset \in Nat /\ query.limit \in Nat /\ s \in Seq(Dishes) /\ Len(s) \in Nat
    BY QueryIs, RankedIs DEF IInv, TypeOK
  <1>3. answer'.next = (IF m > query.limit THEN offset + query.limit ELSE Null)
        /\ shown' = shown \o data /\ data \in Seq(ItemType)
    BY DEF Answered, Answers
  <1>4. ASSUME edits = 0
        PROVE  /\ Ids(shown)' = Window(s, 0, offset + query.limit)
               /\ answer'.next = Null => Len(s) <= offset + query.limit
    <2>1. /\ m = Fewer(query.limit + 1, l) /\ n = Fewer(query.limit, l)
          /\ \A k \in 1..n : data[k].id = s[offset + k]
      <3>1. \A r : ItemOf(r).id = r.id
        BY DEF ItemOf, Proposal, ListItem
      <3>2. /\ m = Fewer(query.limit + 1, l) /\ n = Fewer(query.limit, l)
            /\ \A k \in 1..n : data[k] = ItemOf(rows[k]) /\ rows[k].id = s[offset + k]
        BY <1>4, PageIsTheWindow
      <3> HIDE DEF s, l, n, data
      <3> QED BY <3>1, <3>2
    <2>2. w \in Seq(Dishes) /\ Len(w) = Fewer(query.limit, l)
          /\ \A k \in 1..Fewer(query.limit, l) : w[k] = s[offset + k]
      <3> HIDE DEF s, data, n
      <3>1. /\ Window(s, offset, query.limit) \in Seq(Dishes)
            /\ Len(Window(s, offset, query.limit)) = Fewer(query.limit, Left(s, offset))
            /\ Cuts(Window(s, offset, query.limit), s, offset,
                    Fewer(query.limit, Left(s, offset)))
        BY <1>2, WindowIs
      <3> HIDE DEF w, l
      <3> QED BY <3>1 DEF w, l, Cuts
    <2>3. DOMAIN data = 1..n /\ n \in Nat /\ m \in Nat
      BY DataIs
    <2>4. l = IF offset < Len(s) THEN Len(s) - offset ELSE 0
      BY DEF Left
    <2>5. Ids(shown) = Window(s, 0, offset)
      BY <1>1, <1>4 DEF IInv, WalkHolds
    <2>6. Window(s, 0, offset) \o w = Window(s, 0, offset + query.limit)
      BY <1>2, WindowsJoin
    <2> HIDE DEF s, l, n, w, data
    <2>7. Ids(data) = w
      <3>1. w = [k \in 1..n |-> w[k]]
        BY <2>1, <2>2
      <3>2. Ids(data) = [k \in 1..n |-> data[k].id]
        BY <2>3 DEF Ids
      <3> QED BY <2>1, <2>2, <3>1, <3>2
    <2>8. Ids(shown)' = Ids(shown) \o Ids(data)
      <3>0. Ids(shown)' = Ids(shown \o data)
        BY <1>3 DEF Ids
      <3> DEFINE a == shown
                 b == a \o data
      <3>1. /\ a \in Seq(ItemType) /\ Len(a) \in Nat /\ Len(data) \in Nat
            /\ DOMAIN a = 1..Len(a) /\ DOMAIN data = 1..Len(data)
        BY <1>3 DEF IInv, TypeOK
      <3>2. /\ DOMAIN b = 1..(Len(a) + Len(data))
            /\ \A k \in 1..(Len(a) + Len(data)) :
                  b[k] = IF k <= Len(a) THEN a[k] ELSE data[k - Len(a)]
        BY <1>3, <3>1
      <3> DEFINE S == {x.id : x \in ItemType}
                 i == Ids(a)
                 j == Ids(data)
                 c == i \o j
      <3>3. i \in Seq(S) /\ Len(i) = Len(a) /\ \A k \in 1..Len(a) : i[k] = a[k].id
        <4>1. \A k \in 1..Len(a) : a[k] \in ItemType
          BY <3>1
        <4>2. i = [k \in 1..Len(a) |-> a[k].id]
          BY <3>1 DEF Ids
        <4> HIDE DEF a
        <4> QED BY <3>1, <4>1, <4>2
      <3>4. j \in Seq(S) /\ Len(j) = Len(data) /\ \A k \in 1..Len(data) : j[k] = data[k].id
        <4>1. \A k \in 1..Len(data) : data[k] \in ItemType
          BY <1>3
        <4>2. j = [k \in 1..Len(data) |-> data[k].id]
          BY <3>1 DEF Ids
        <4> QED BY <3>1, <4>1, <4>2
      <3>6. /\ c = [k \in 1..(Len(i) + Len(j)) |-> c[k]]
            /\ \A k \in 1..(Len(i) + Len(j)) :
                  c[k] = IF k <= Len(i) THEN i[k] ELSE j[k - Len(i)]
        <4>1. i \in Seq(S) /\ j \in Seq(S)
          BY <3>3, <3>4
        <4> HIDE DEF i, j, S
        <4>2. c \in Seq(S) /\ Len(c) = Len(i) + Len(j) /\ Len(i) \in Nat /\ Len(j) \in Nat
          BY <4>1
        <4>3. \A k \in 1..(Len(i) + Len(j)) :
                  c[k] = IF k <= Len(i) THEN i[k] ELSE j[k - Len(i)]
          BY <4>1, <4>2
        <4> HIDE DEF c
        <4>4. c = [k \in 1..(Len(i) + Len(j)) |-> c[k]]
          BY <4>2
        <4> QED BY <4>3, <4>4
      <3>7. Ids(b) = [k \in 1..(Len(a) + Len(data)) |-> b[k].id]
        BY <3>2 DEF Ids
      <3> HIDE DEF a, b, c, i, j
      <3>8. c = [k \in 1..(Len(a) + Len(data)) |->
                     IF k <= Len(a) THEN i[k] ELSE j[k - Len(a)]]
        BY <3>3, <3>4, <3>6
      <3>9. \A k \in 1..(Len(a) + Len(data)) :
               b[k].id = IF k <= Len(a) THEN i[k] ELSE j[k - Len(a)]
        <4> TAKE k \in 1..(Len(a) + Len(data))
        <4>1. CASE k <= Len(a)
          <5>1. k \in 1..Len(a)
            BY <3>1, <4>1
          <5> QED BY <3>2, <3>3, <4>1, <5>1
        <4>2. CASE ~(k <= Len(a))
          <5>1. k - Len(a) \in 1..Len(data)
            BY <3>1, <4>2
          <5> QED BY <3>2, <3>4, <4>2, <5>1
        <4> QED BY <4>1, <4>2
      <3>10. Ids(b) = c
        BY <3>7, <3>8, <3>9
      <3> QED BY <3>0, <3>10 DEF a, b, c, i, j
    <2>9. ASSUME answer'.next = Null PROVE Len(s) <= offset + query.limit
      <3>1. ~(m > query.limit)
        <4>1. offset + query.limit \in Nat
          BY <1>2
        <4> QED BY <1>3, <2>9, <4>1, CatalogAssumption
      <3> QED BY <1>2, <2>1, <2>4, <3>1 DEF Fewer
    <2> QED BY <2>5, <2>6, <2>7, <2>8, <2>9
  <1>5. answer'.next \in {Null, offset + query.limit}
    BY <1>3
  <1> QED BY <1>1, <1>4, <1>5 DEF WalkHolds

(***************************************************************************)
(* Texts that PostgreSQL takes for the same, the demonstration does; the   *)
(* converse where they differ by their capitals alone.                     *)
(***************************************************************************)
LEMMA TextsCompared ==
  ASSUME NEW wish \in Text \cup {Null}, NEW text \in Text
  PROVE  /\ AskedInsensitive(wish, text) => AskedNormalized(wish, text)
         /\ wish # Null /\ Normalize(wish) = Normalize(text) =>
              (wish.accents = text.accents /\ wish.blanks = text.blanks
                 => AskedInsensitive(wish, text))
  <1>1. CASE wish = Null
    BY <1>1 DEF AskedInsensitive, AskedNormalized
  <1>2. CASE wish # Null
    <2>1. wish \in Text
      BY <1>2
    <2>2. Lower(wish).word = wish.word /\ Lower(text).word = text.word
      BY <2>1 DEF Text, Lower
    <2>3. ASSUME wish.word = text.word, wish.accents = text.accents,
                 wish.blanks = text.blanks
          PROVE  Lower(wish) = Lower(text)
      BY <2>1, <2>3 DEF Text, Lower
    <2> QED BY <1>2, <2>2, <2>3 DEF AskedInsensitive, AskedNormalized, Normalize
  <1> QED BY <1>1, <1>2

(***************************************************************************)
(* On rows that are all public and priced the demonstration selects all    *)
(* that PostgreSQL selects, and nothing else where texts are spelled alike.*)
(***************************************************************************)
DemoWanted(q) == IF q.kind = "budget" THEN DemoProposals(q) ELSE DemoDishes(q)

LEMMA DemoSelects ==
  ASSUME TypeOK, NEW q \in Queries, \A d \in Dishes : Public(d) /\ Priced(d)
  PROVE  /\ Wanted(q) \subseteq DemoWanted(q) /\ DemoWanted(q) \subseteq Dishes
         /\ SpelledAlike(q) => DemoWanted(q) = Wanted(q)
  <1>1. ASSUME NEW d \in Dishes
        PROVE  /\ q.area \in Text \cup {Null} /\ restaurant[RestaurantOf[d]].area \in Text
               /\ q.kind # "budget" => q.category \in Text \cup {Null}
               /\ dish[d].category \in Text
    BY CatalogAssumption DEF TypeOK, ListQuery, BudgetQuery, Dish, Restaurant
  <1>2. ASSUME NEW d \in Dishes
        PROVE  /\ InArea(q, d) => DemoInArea(q, d)
               /\ q.kind # "budget" =>
                    (AskedInsensitive(q.category, dish[d].category)
                       => AskedNormalized(q.category, dish[d].category))
    BY <1>1, TextsCompared DEF InArea, DemoInArea
  <1>3. ASSUME NEW d \in Dishes, SpelledAlike(q)
        PROVE  /\ DemoInArea(q, d) => InArea(q, d)
               /\ q.kind # "budget" =>
                    (AskedNormalized(q.category, dish[d].category)
                       => AskedInsensitive(q.category, dish[d].category))
    <2>1. DemoInArea(q, d) => InArea(q, d)
      <3> DEFINE text == restaurant[RestaurantOf[d]].area
      <3>1. q.area # Null /\ Normalize(q.area) = Normalize(text) =>
              q.area.accents = text.accents /\ q.area.blanks = text.blanks
        BY <1>3 DEF SpelledAlike
      <3>2. q.area \in Text \cup {Null} /\ text \in Text
        BY <1>1
      <3> HIDE DEF text
      <3>3. AskedNormalized(q.area, text) => AskedInsensitive(q.area, text)
        BY <3>1, <3>2, TextsCompared DEF AskedNormalized, AskedInsensitive
      <3> QED BY <3>3 DEF InArea, DemoInArea, text
    <2>2. ASSUME q.kind # "budget", AskedNormalized(q.category, dish[d].category)
          PROVE  AskedInsensitive(q.category, dish[d].category)
      <3> DEFINE text == dish[d].category
      <3>1. q.category # Null /\ Normalize(q.category) = Normalize(text) =>
              q.category.accents = text.accents /\ q.category.blanks = text.blanks
        BY <1>3, <2>2 DEF SpelledAlike
      <3>2. q.category \in Text \cup {Null} /\ text \in Text
        BY <1>1, <2>2
      <3> HIDE DEF text
      <3>3. AskedNormalized(q.category, text) => AskedInsensitive(q.category, text)
        BY <3>1, <3>2, TextsCompared DEF AskedNormalized, AskedInsensitive
      <3> QED BY <2>2, <3>3 DEF text
    <2> QED BY <2>1, <2>2
  <1>4. CASE q.kind = "budget"
    <2>1. /\ DemoWanted(q) = DemoProposals(q)
          /\ Wanted(q) = {d \in Dishes : Affordable(q, d)}
      BY <1>4 DEF DemoWanted, Wanted
    <2> QED BY <1>2, <1>3, <2>1 DEF DemoProposals, Affordable
  <1>5. CASE q.kind # "budget"
    <2>1. DemoWanted(q) = DemoDishes(q) /\ Wanted(q) = {d \in Dishes : Listed(q, d)}
      BY <1>5 DEF DemoWanted, Wanted
    <2> QED BY <1>2, <1>3, <1>5, <2>1 DEF DemoDishes, Listed
  <1> QED BY <1>4, <1>5

(***************************************************************************)
(* The demonstration has each of its dishes once: in the order of their    *)
(* costs, or at the positions they have in the array.                      *)
(***************************************************************************)
LEMMA DemoSorted ==
  ASSUME TypeOK, NEW q \in Queries, q.kind = "budget", \A d \in Dishes : Priced(d)
  PROVE  Follows(DemoIds(q), Cardinality(DemoProposals(q)), DemoProposals(q), DemoOrder(q))
  <1> DEFINE S == DemoProposals(q)
             cost(d) == Cost(q, d)
  <1>1. S \subseteq Dishes /\ IsFiniteSet(S)
    BY CatalogAssumption, FS_Subset DEF DemoProposals
  <1>2. \A d \in S : d \in Nat /\ cost(d) \in Nat
    BY <1>1, CatalogAssumption, CostIs
  <1>3. \A c, d \in S : <<c, d>> \in DemoOrder(q) <=>
            cost(c) < cost(d) \/ (cost(c) = cost(d) /\ c < d)
    BY <1>1 DEF DemoOrder
  <1> HIDE DEF S, cost
  <1>4. Orders(DemoOrder(q), S)
    BY <1>2, <1>3 DEF Orders
  <1>5. Follows(Sorted(S, DemoOrder(q)), Cardinality(S), S, DemoOrder(q))
    BY <1>1, <1>4, SortedFollows
  <1> QED BY <1>5 DEF DemoIds, S

LEMMA DemoIdsAre ==
  ASSUME TypeOK, NEW q \in Queries, \A d \in Dishes : Priced(d)
  PROVE  /\ Cardinality(DemoWanted(q)) \in Nat
         /\ DemoIds(q) \in [1..Cardinality(DemoWanted(q)) -> Dishes]
         /\ \A d \in DemoWanted(q) : \E i \in 1..Cardinality(DemoWanted(q)) : DemoIds(q)[i] = d
  <1> DEFINE S == DemoWanted(q)
  <1>1. S \subseteq Dishes /\ IsFiniteSet(S) /\ Cardinality(S) \in Nat
    BY CatalogAssumption, FS_Subset, FS_CardinalityType
    DEF DemoWanted, DemoProposals, DemoDishes
  <1>2. CASE q.kind = "budget"
    BY <1>1, <1>2, DemoSorted DEF Follows, DemoWanted
  <1>3. CASE q.kind # "budget"
    <2> DEFINE N == Cardinality(Dishes)
               P == {i \in DOMAIN Fixtures : Fixtures[i] \in DemoDishes(q)}
               m == Cardinality(P)
    <2>1. N \in Nat
      BY CatalogAssumption, FS_CardinalityType
    <2>2. /\ Fixtures \in [1..N -> Dishes]
          /\ \A d \in Dishes : \E i \in 1..N : Fixtures[i] = d
          /\ \A i, j \in 1..N : Fixtures[i] = Fixtures[j] => i = j
      BY CatalogAssumption DEF Bijection, Injection, Surjection, IsInjective
    <2>3. Fixtures \in Seq(Dishes) /\ DOMAIN Fixtures = 1..N /\ Len(Fixtures) = N
      <3> HIDE DEF N
      <3> QED BY <2>1, <2>2
    <2>4. S = DemoDishes(q) /\ DemoIds(q) = Selected(Fixtures, P)
      BY <1>3 DEF DemoWanted, DemoIds
    <2>5. /\ P \in SUBSET DOMAIN Fixtures /\ \A i \in P : Fixtures[i] \in S
          /\ \A i \in DOMAIN Fixtures : Fixtures[i] \in S => i \in P
      BY <2>4
    <2> HIDE DEF S, N, P, m
    <2>6. PICK at : /\ at \in [1..Cardinality(P) -> P] /\ Cardinality(P) \in 0..Len(Fixtures)
                    /\ Selected(Fixtures, P) = [k \in 1..Cardinality(P) |-> Fixtures[at[k]]]
                    /\ \A i \in P : \E k \in 1..Cardinality(P) : at[k] = i /\ k <= i
                    /\ \A j, k \in 1..Cardinality(P) : j < k => at[j] < at[k]
                    /\ P = DOMAIN Fixtures =>
                         /\ Cardinality(P) = Len(Fixtures)
                         /\ \A k \in 1..Len(Fixtures) : at[k] = k
      <3>1. Fixtures \in Seq(Dishes) /\ P \in SUBSET DOMAIN Fixtures
        BY <2>3, <2>5
      <3> QED BY <3>1, SelectedIs
    <2>7. m = Cardinality(S)
      <3> DEFINE g == [i \in P |-> Fixtures[i]]
      <3>1. g \in [P -> S]
        BY <2>5
      <3>2. \A i, j \in P : g[i] = g[j] => i = j
        BY <2>2, <2>3, <2>5
      <3>3. ASSUME NEW d \in S PROVE \E i \in P : g[i] = d
        <4>1. PICK i \in 1..N : Fixtures[i] = d
          BY <1>1, <2>2 DEF S
        <4> QED BY <2>3, <2>5, <4>1
      <3> HIDE DEF g
      <3>4. g \in Bijection(P, S)
        BY <3>1, <3>2, <3>3 DEF Bijection, Injection, Surjection, IsInjective
      <3>5. IsFiniteSet(P)
        <4>1. IsFiniteSet(1..N)
          BY <2>1, FS_Interval
        <4> QED BY <2>3, <2>5, <4>1, FS_Subset
      <3>6. ExistsBijection(P, S)
        BY <3>4 DEF ExistsBijection
      <3> QED BY <3>5, <3>6, FS_Bijection DEF m
    <2>8. \A k \in 1..m : at[k] \in P /\ Fixtures[at[k]] \in Dishes
      BY <2>2, <2>3, <2>5, <2>6 DEF m
    <2>9. DemoIds(q) = [k \in 1..m |-> Fixtures[at[k]]]
      BY <2>4, <2>6 DEF m
    <2>10. DemoIds(q) \in [1..m -> Dishes]
      BY <2>8, <2>9
    <2>11. ASSUME NEW d \in S PROVE \E k \in 1..m : DemoIds(q)[k] = d
      <3>1. PICK i \in 1..N : Fixtures[i] = d
        BY <1>1, <2>2 DEF S
      <3>2. i \in P
        BY <2>3, <2>5, <3>1
      <3>3. PICK k \in 1..m : at[k] = i
        BY <2>6, <3>2 DEF m
      <3> QED BY <2>9, <3>1, <3>3
    <2>12. /\ DemoIds(q) \in [1..Cardinality(S) -> Dishes]
           /\ \A d \in S : \E i \in 1..Cardinality(S) : DemoIds(q)[i] = d
      BY <2>7, <2>10, <2>11
    <2> QED BY <1>1, <2>12 DEF S
  <1> QED BY <1>2, <1>3

(***************************************************************************)
(* Reading one row more than the page and counting what is left say the    *)
(* same of a next page.                                                    *)
(***************************************************************************)
LEMMA OneRowMore ==
  ASSUME NEW length \in Nat, NEW from \in Nat, NEW limit \in Nat, NEW left,
         left = IF from < length THEN length - from ELSE 0
  PROVE  /\ Fewer(limit + 1, left) > limit <=> from + Fewer(limit, left) < length
         /\ Fewer(limit + 1, left) > limit => Fewer(limit, left) = limit
  <1>1. CASE from < length
    <2>1. left = length - from /\ left \in Nat
      BY <1>1
    <2>2. CASE limit < left
      BY <1>1, <2>1, <2>2 DEF Fewer
    <2>3. CASE ~(limit < left)
      BY <1>1, <2>1, <2>3 DEF Fewer
    <2> QED BY <2>2, <2>3
  <1>2. CASE ~(from < length)
    BY <1>2 DEF Fewer
  <1> QED BY <1>1, <1>2

(***************************************************************************)
(* The demonstration answers the same until a row or the question changes. *)
(***************************************************************************)
LEMMA DemoFixed ==
  ASSUME UNCHANGED <<dish, restaurant, query, offset>>
  PROVE  /\ DemoPage(query, offset)' = DemoPage(query, offset)
         /\ DemoItems(query)' = DemoItems(query)
         /\ SpelledAlike(query)' <=> SpelledAlike(query)
         /\ \A d \in Dishes : Public(d)' /\ Priced(d)' <=> Public(d) /\ Priced(d)
  <1>1. \A d : Copy(d)' = Copy(d) /\ Cost(query, d)' = Cost(query, d)
              /\ (DemoInArea(query, d)' <=> DemoInArea(query, d))
    BY DEF Copy, Cost, DemoInArea
  <1>2. DemoProposals(query)' = DemoProposals(query) /\ DemoDishes(query)' = DemoDishes(query)
    BY <1>1 DEF DemoProposals, DemoDishes
  <1>3. DemoOrder(query)' = DemoOrder(query)
    BY <1>1 DEF DemoOrder
  <1>4. DemoIds(query)' = DemoIds(query)
    BY <1>2, <1>3 DEF DemoIds
  <1>5. \A d : DemoItem(query, d)' = DemoItem(query, d)
    BY <1>1 DEF DemoItem, Proposal
  <1>6. DemoItems(query)' = DemoItems(query)
    BY <1>4, <1>5 DEF DemoItems
  <1>7. DemoPage(query, offset)' = DemoPage(query, offset)
    BY <1>6 DEF DemoPage
  <1>8. \A d \in Dishes : Public(d)' /\ Priced(d)' <=> Public(d) /\ Priced(d)
    BY DEF Public, Priced
  <1>9. SpelledAlike(query)' <=> SpelledAlike(query)
    BY DEF SpelledAlike
  <1> QED BY <1>6, <1>7, <1>8, <1>9

LEMMA AnswerIsDemo ==
  ASSUME IInv, NEW m, NEW at, Answered(m, at)
  PROVE  PagesAgree'
  <1>1. /\ DemoPage(query, offset)' = DemoPage(query, offset)
        /\ DemoItems(query)' = DemoItems(query)
        /\ SpelledAlike(query)' <=> SpelledAlike(query)
        /\ \A d \in Dishes : Public(d)' /\ Priced(d)' <=> Public(d) /\ Priced(d)
        /\ edits' = edits /\ query' = query
    <2>1. UNCHANGED <<dish, restaurant, query, offset, edits>>
      BY DEF Answered, tables
    <2> QED BY <2>1, DemoFixed
  <1> SUFFICES ASSUME edits = 0, \A d \in Dishes : Public(d) /\ Priced(d)
               PROVE  /\ Range(answer'.data) \subseteq Range(DemoItems(query))
                      /\ SpelledAlike(query) =>
                           /\ Len(answer'.data) = Len(DemoPage(query, offset).data)
                           /\ answer'.next = DemoPage(query, offset).next
                           /\ query.kind = "budget" => answer' = DemoPage(query, offset)
    BY <1>1 DEF PagesAgree
  <1> DEFINE s == Ranked(query)
             ids == DemoIds(query)
             size == Cardinality(DemoWanted(query))
             l == Left(s, offset)
             n == Fewer(query.limit, m)
             items == DemoItems(query)
             w == Window(items, offset, query.limit)
             data == answer'.data
  <1>2. /\ offset \in Nat /\ query.limit \in Nat \ {0} /\ Len(s) \in Nat
        /\ DOMAIN s = 1..Len(s) /\ \A i \in 1..Len(s) : s[i] \in Wanted(query)
    <2>1. s \in Seq(Wanted(query))
      BY RankedIs DEF IInv, TypeOK
    <2> HIDE DEF s
    <2> QED BY <2>1, QueryIs DEF IInv, TypeOK
  <1>3. /\ size \in Nat /\ ids \in [1..size -> Dishes]
        /\ \A d \in DemoWanted(query) : \E i \in 1..size : ids[i] = d
        /\ items = [i \in 1..size |-> DemoItem(query, ids[i])]
    <2>1. /\ size \in Nat /\ ids \in [1..size -> Dishes]
          /\ \A d \in DemoWanted(query) : \E i \in 1..size : ids[i] = d
      BY DemoIdsAre DEF IInv, TypeOK
    <2>2. DOMAIN ids = 1..size
      BY <2>1
    <2> QED BY <2>1, <2>2 DEF DemoItems
  <1>4. /\ Wanted(query) \subseteq DemoWanted(query)
        /\ SpelledAlike(query) => DemoWanted(query) = Wanted(query)
    BY DemoSelects DEF IInv, TypeOK
  <1>5. /\ m = Fewer(query.limit + 1, l) /\ n = Fewer(query.limit, l)
        /\ \A k \in 1..n : /\ k \in DOMAIN rows /\ data[k] = ItemOf(rows[k])
                           /\ offset + k \in 1..Len(s) /\ rows[k].id = s[offset + k]
    BY PageIsTheWindow
  <1>6. \A k \in 1..n : data[k] = DemoItem(query, s[offset + k])
    <2> TAKE k \in 1..n
    <2>1. k \in DOMAIN rows /\ data[k] = ItemOf(rows[k]) /\ rows[k].id = s[offset + k]
      BY <1>5
    <2>2. rows[k].id \notin touched /\ pc = "including"
      BY DEF IInv, StagesHold, Answered
    <2>3. copies[rows[k].id] = Copy(rows[k].id)
      BY <2>1, <2>2, UntouchedIsGood
    <2>4. query.kind = "budget" =>
            rows[k].quantity = Quantity(query.people, dish[rows[k].id].servings)
      BY <2>1, <2>2 DEF IInv, RowsHold
    <2> HIDE DEF s, data
    <2> QED BY <2>1, <2>3, <2>4 DEF ItemOf, DemoItem
  <1>7. /\ answer' = [data |-> data, next |-> answer'.next]
        /\ answer'.next = (IF m > query.limit THEN offset + query.limit ELSE Null)
    BY DEF Answered, Answers
  <1>8. DOMAIN data = 1..n /\ n \in Nat /\ m \in Nat
        /\ data = [k \in 1..n |-> data[k]]
    <2>1. data = [k \in 1..n |-> ItemOf(rows[at[k]])]
      BY DEF Answered, Answers
    <2>2. n \in Nat /\ m \in Nat
      BY DataIs
    <2> HIDE DEF n
    <2> QED BY <2>1, <2>2
  <1>9. l = IF offset < Len(s) THEN Len(s) - offset ELSE 0
    BY DEF Left
  <1>10. Range(data) \subseteq Range(items)
    <2> HIDE DEF s, ids, size, items, data, n
    <2>0. /\ Range(data) = {data[k] : k \in 1..n}
          /\ Range(items) = {items[i] : i \in 1..size}
      <3>1. DOMAIN items = 1..size
        BY <1>3
      <3> QED BY <1>8, <3>1 DEF Range
    <2> SUFFICES ASSUME NEW k \in 1..n PROVE \E i \in 1..size : items[i] = data[k]
      BY <2>0
    <2>1. s[offset + k] \in DemoWanted(query)
      BY <1>2, <1>5, <1>4
    <2>2. PICK i \in 1..size : ids[i] = s[offset + k]
      BY <1>3, <2>1
    <2> QED BY <1>3, <1>6, <2>2
  <1> SUFFICES ASSUME SpelledAlike(query)
               PROVE  /\ Len(data) = Len(DemoPage(query, offset).data)
                      /\ answer'.next = DemoPage(query, offset).next
                      /\ query.kind = "budget" => answer' = DemoPage(query, offset)
    BY <1>10
  <1>11. size = Len(s)
    <2>1. Follows(s, Cardinality(Wanted(query)), Wanted(query), Precedence(query))
      BY RankedIs DEF IInv, TypeOK
    <2>2. size = Cardinality(Wanted(query))
      BY <1>4
    <2>3. \A a, b \in Nat : 1..a = 1..b => a = b
      OBVIOUS
    <2> HIDE DEF s, size
    <2>4. s \in [1..size -> Wanted(query)]
      BY <2>1, <2>2 DEF Follows
    <2>5. 1..Len(s) = 1..size
      BY <1>2, <2>4
    <2> QED BY <1>2, <1>3, <2>3, <2>5
  <1>12. query.kind = "budget" => ids = s
    <2> SUFFICES ASSUME query.kind = "budget" PROVE ids = s
      OBVIOUS
    <2>1. DemoProposals(query) = Wanted(query)
      <3>1. DemoWanted(query) = DemoProposals(query)
        BY DEF DemoWanted
      <3> QED BY <1>4, <3>1
    <2>2. DemoOrder(query) = Precedence(query)
      BY DEF DemoOrder, Precedence, Before
    <2> QED BY <2>1, <2>2 DEF DemoIds, Ranked
  <1>13. DemoPage(query, offset) =
          [data |-> w, next |-> IF offset + Len(w) < Len(items) THEN offset + Len(w) ELSE Null]
    BY DEF DemoPage
  <1> HIDE DEF s, ids, size, data, n, l
  <1>14. Len(items) = Len(s) /\ items \in Seq({items[i] : i \in 1..Len(s)})
         /\ \A i \in 1..Len(s) : items[i] = DemoItem(query, ids[i])
    <2> HIDE DEF items
    <2> QED BY <1>2, <1>3, <1>11
  <1> HIDE DEF items
  <1>15. Left(items, offset) = l /\ l \in Nat
    <2>1. Len(items) = Len(s) /\ Len(s) \in Nat /\ offset \in Nat
      BY <1>2, <1>14
    <2>2. Left(items, offset) = IF offset < Len(items) THEN Len(items) - offset ELSE 0
      BY DEF Left
    <2>3. Left(items, offset) = IF offset < Len(s) THEN Len(s) - offset ELSE 0
      BY <2>1, <2>2
    <2> QED BY <1>9, <2>1, <2>3
  <1> DEFINE S == {items[i] : i \in 1..Len(s)}
  <1> HIDE DEF S
  <1>16. /\ w \in Seq(S) /\ Len(w) = n
         /\ \A k \in 1..n : w[k] = items[offset + k]
    <2>0. items \in Seq(S) /\ offset \in Nat /\ query.limit \in Nat
      BY <1>2, <1>14 DEF S
    <2>1. /\ w \in Seq(S)
          /\ Len(w) = Fewer(query.limit, Left(items, offset))
          /\ Cuts(w, items, offset, Fewer(query.limit, Left(items, offset)))
      BY <2>0, WindowIs
    <2> HIDE DEF w
    <2> QED BY <1>5, <1>15, <2>1 DEF Cuts
  <1> HIDE DEF w
  <1>17. query.kind = "budget" => w = data
    <2> SUFFICES ASSUME query.kind = "budget" PROVE w = data
      OBVIOUS
    <2>1. w = [k \in 1..n |-> w[k]]
      BY <1>16
    <2>2. \A k \in 1..n : w[k] = data[k]
      BY <1>5, <1>6, <1>14, <1>16, <1>12
    <2> QED BY <1>8, <2>1, <2>2
  <1>18. answer'.next = IF offset + Len(w) < Len(items) THEN offset + Len(w) ELSE Null
    <2>0. m = Fewer(query.limit + 1, l) /\ n = Fewer(query.limit, l)
      BY <1>5
    <2>1. (m > query.limit <=> offset + n < Len(s)) /\ (m > query.limit => n = query.limit)
      <3>1. offset \in Nat /\ query.limit \in Nat /\ Len(s) \in Nat
        BY <1>2
      <3>2. /\ Fewer(query.limit + 1, l) > query.limit <=> offset + Fewer(query.limit, l) < Len(s)
            /\ Fewer(query.limit + 1, l) > query.limit => Fewer(query.limit, l) = query.limit
        <4> DEFINE a == offset
                   b == Len(s)
                   c == query.limit
        <4>1. a \in Nat /\ b \in Nat /\ c \in Nat /\ l = IF a < b THEN b - a ELSE 0
          BY <1>9, <3>1
        <4> HIDE DEF a, b, c
        <4>2. /\ Fewer(c + 1, l) > c <=> a + Fewer(c, l) < b
              /\ Fewer(c + 1, l) > c => Fewer(c, l) = c
          BY <4>1, OneRowMore
        <4> QED BY <4>2 DEF a, b, c
      <3> QED BY <2>0, <3>2
    <2> QED BY <1>7, <1>14, <1>16, <2>1
  <1>19. Len(data) = n
    BY <1>8
  <1> QED BY <1>7, <1>13, <1>16, <1>17, <1>18, <1>19

LEMMA AnswerStep ==
  ASSUME IInv, AnswerList \/ AnswerBudget
  PROVE  IInv'
  <1>1. PICK m, at : Answered(m, at)
    BY SomethingAnswered
  <1>2. TypeOK' /\ PriceShownFits' /\ PortionsSuffice' /\ WalkHolds' /\ PagesAgree'
    BY <1>1, AnswerTypes, AnswerFits, AnswerFeeds, AnswerGoesOn, AnswerIsDemo
  <1>3. StagesHold' /\ RowsHold' /\ CopiesHold'
    BY <1>1 DEF Answered, IInv, StagesHold, RowsHold, CopiesHold
  <1> QED BY <1>2, <1>3 DEF IInv

(***************************************************************************)
(* An edit changes nothing of the dishes it does not touch.                *)
(***************************************************************************)
LEMMA EditKeeps ==
  ASSUME IInv, UNCHANGED <<pc, query, offset, rows, copies, answer, shown>>,
         edits < MaxEdits, edits' = edits + 1,
         touched \subseteq touched', touched' \subseteq Dishes,
         dish' \in [Dishes -> DishRows], restaurant' \in [Restaurants -> RestaurantRows],
         \A d \in Dishes \ touched' : /\ dish'[d] = dish[d]
                                      /\ restaurant'[RestaurantOf[d]] = restaurant[RestaurantOf[d]]
  PROVE  IInv'
  <1>1. edits' \in 0..MaxEdits /\ edits' # 0
    BY CatalogAssumption DEF IInv, TypeOK
  <1>2. TypeOK'
    BY <1>1 DEF IInv, TypeOK
  <1>3. StagesHold' /\ WalkHolds' /\ PriceShownFits' /\ PagesAgree'
    BY <1>1 DEF IInv, StagesHold, WalkHolds, PriceShownFits, PagesAgree, Reached
  <1>4. PortionsSuffice'
    BY DEF IInv, PortionsSuffice
  <1>5. \A d \in Dishes \ touched' :
          /\ Affordable(query, d)' <=> Affordable(query, d)
          /\ Copy(d)' = Copy(d)
    BY DEF Affordable, Public, Priced, InArea, Cost, Copy
  <1>6. \A i \in DOMAIN rows : rows[i].id \in Dishes
    <2>1. \A i \in DOMAIN rows : rows[i] \in RowType
      BY DEF IInv, TypeOK
    <2> QED BY <2>1 DEF RowType
  <1>7. RowsHold'
    <2> SUFFICES ASSUME pc' \in {"rereading", "including"} PROVE RowsHold'
      BY DEF RowsHold
    <2>1. pc \in {"rereading", "including"} /\ rows' = rows /\ query' = query
      OBVIOUS
    <2>2. /\ \A i, j \in DOMAIN rows : rows[i].id = rows[j].id => i = j
          /\ query.kind = "budget" =>
               \A i \in DOMAIN rows : rows[i].id \notin touched =>
                 /\ Affordable(query, rows[i].id)
                 /\ rows[i].quantity = Quantity(query.people, dish[rows[i].id].servings)
      BY <2>1 DEF IInv, RowsHold
    <2>3. ASSUME query.kind = "budget", NEW i \in DOMAIN rows, rows[i].id \notin touched'
          PROVE  /\ Affordable(query, rows[i].id)'
                 /\ rows[i].quantity = Quantity(query.people, dish'[rows[i].id].servings)
      <3>1. rows[i].id \in Dishes \ touched'
        BY <1>6, <2>3
      <3>2. Affordable(query, rows[i].id)
            /\ rows[i].quantity = Quantity(query.people, dish[rows[i].id].servings)
        BY <2>2, <2>3
      <3>3. Affordable(query, rows[i].id)' <=> Affordable(query, rows[i].id)
        BY <1>5, <2>1, <3>1
      <3> QED BY <3>1, <3>2, <3>3
    <2> QED BY <1>1, <2>1, <2>2, <2>3 DEF RowsHold
  <1>8. CopiesHold'
    BY <1>5 DEF IInv, TypeOK, CopiesHold
  <1> QED BY <1>2, <1>3, <1>4, <1>7, <1>8 DEF IInv

LEMMA EditDishStep ==
  ASSUME IInv, NEW d \in Dishes, NEW row \in DishRows, EditDish(d, row)
  PROVE  IInv'
  <1>1. dish \in [Dishes -> DishRows] /\ touched \subseteq Dishes
        /\ restaurant \in [Restaurants -> RestaurantRows]
    BY DEF IInv, TypeOK
  <1> QED BY <1>1, EditKeeps DEF EditDish

LEMMA EditRestaurantStep ==
  ASSUME IInv, NEW r \in Restaurants, NEW row \in RestaurantRows, EditRestaurant(r, row)
  PROVE  IInv'
  <1>1. dish \in [Dishes -> DishRows] /\ touched \subseteq Dishes
        /\ restaurant \in [Restaurants -> RestaurantRows]
    BY DEF IInv, TypeOK
  <1>2. \A d \in Dishes : RestaurantOf[d] \in Restaurants
    BY CatalogAssumption
  <1>3. /\ restaurant' \in [Restaurants -> RestaurantRows]
        /\ touched' = touched \cup {d \in Dishes : RestaurantOf[d] = r}
        /\ \A d \in Dishes : RestaurantOf[d] # r =>
              restaurant'[RestaurantOf[d]] = restaurant[RestaurantOf[d]]
    BY <1>1, <1>2 DEF EditRestaurant
  <1>4. /\ UNCHANGED <<dish, pc, query, offset, rows, copies, answer, shown>>
        /\ edits < MaxEdits /\ edits' = edits + 1
    BY DEF EditRestaurant
  <1> QED BY <1>1, <1>3, <1>4, EditKeeps

LEMMA StutteringStep ==
  ASSUME IInv, UNCHANGED vars
  PROVE  IInv'
  <1>1. /\ UNCHANGED <<dish, restaurant, pc, query, offset, rows, copies, answer>>
        /\ UNCHANGED <<shown, edits, touched, tables>>
    BY DEF vars, tables, history
  <1>2. TypeOK'
    BY <1>1 DEF IInv, TypeOK
  <1>3. Ranked(query)' = Ranked(query) /\ RowsRead' = RowsRead
    BY <1>1, RankedFixed, RowsReadFixed
  <1>4. \A d : Copy(d)' = Copy(d) /\ (Affordable(query, d)' <=> Affordable(query, d))
    BY <1>1 DEF Copy, Affordable, Public, Priced, InArea, Cost
  <1>5. StagesHold' /\ CopiesHold' /\ PriceShownFits' /\ PortionsSuffice'
    BY <1>1, <1>4 DEF IInv, StagesHold, CopiesHold, PriceShownFits, PortionsSuffice
  <1>6. RowsHold'
    BY <1>1, <1>3, <1>4 DEF IInv, RowsHold, Ids
  <1>7. WalkHolds'
    BY <1>1, <1>3 DEF IInv, WalkHolds, Reached, Ids
  <1>8. PagesAgree'
    <2>1. /\ DemoPage(query, offset)' = DemoPage(query, offset)
          /\ DemoItems(query)' = DemoItems(query)
          /\ SpelledAlike(query)' <=> SpelledAlike(query)
          /\ \A d \in Dishes : Public(d)' /\ Priced(d)' <=> Public(d) /\ Priced(d)
      BY <1>1, DemoFixed
    <2> QED BY <1>1, <2>1 DEF IInv, PagesAgree
  <1> QED BY <1>2, <1>5, <1>6, <1>7, <1>8 DEF IInv

LEMMA Inductive == IInv /\ [Next]_vars => IInv'
  <1> SUFFICES ASSUME IInv, [Next]_vars PROVE IInv'
    OBVIOUS
  <1>1. ASSUME NEW q \in Queries, Ask(q) PROVE IInv'
    BY <1>1, AskStep
  <1>2. CASE NextPage
    BY <1>2, NextPageStep
  <1>3. CASE FindRestaurant
    BY <1>3, FindRestaurantStep
  <1>4. CASE ReadList
    BY <1>4, ReadListStep
  <1>5. CASE ReadQuantities
    BY <1>5, ReadQuantitiesStep
  <1>6. CASE ReadDishes
    BY <1>6, ReadDishesStep
  <1>7. CASE AnswerList \/ AnswerBudget
    BY <1>7, AnswerStep
  <1>8. ASSUME NEW d \in Dishes, NEW row \in DishRows, EditDish(d, row) PROVE IInv'
    BY <1>8, EditDishStep
  <1>9. ASSUME NEW r \in Restaurants, NEW row \in RestaurantRows, EditRestaurant(r, row)
        PROVE  IInv'
    BY <1>9, EditRestaurantStep
  <1>10. CASE UNCHANGED vars
    BY <1>10, StutteringStep
  <1> QED BY <1>1, <1>2, <1>3, <1>4, <1>5, <1>6, <1>7, <1>8, <1>9, <1>10 DEF Next

LEMMA Always == Spec => []IInv
  BY Initially, Inductive, PTL DEF Spec
-----------------------------------------------------------------------------
(***************************************************************************)
(* The ORDER BY of a statement leaves it no choice: one sequence of the    *)
(* selected rows follows it, so that two pages of a walk, read by two      *)
(* statements, cut the same sequence.                                      *)
(***************************************************************************)
THEOREM OrderDeterminesPages ==
  ASSUME TypeOK, NEW q \in Queries,
         NEW seq, Follows(seq, Cardinality(Wanted(q)), Wanted(q), Precedence(q))
  PROVE  seq = Ranked(q)
  <1>1. Orders(Precedence(q), Wanted(q))
    BY OrderIsTotal
  <1>2. Cardinality(Wanted(q)) \in Nat
    <2>1. IsFiniteSet(Wanted(q))
      BY CatalogAssumption, FS_Subset DEF Wanted
    <2> QED BY <2>1, FS_CardinalityType
  <1>3. Follows(Ranked(q), Cardinality(Wanted(q)), Wanted(q), Precedence(q))
    BY RankedIs
  <1> QED BY <1>1, <1>2, <1>3, OneSequenceFollows

(***************************************************************************)
(* Every variable of the search has its type.                              *)
(***************************************************************************)
THEOREM TypeCorrect == Spec => []TypeOK
  <1>1. IInv => TypeOK
    BY DEF IInv
  <1> QED BY <1>1, Always, PTL

(***************************************************************************)
(* Whatever is edited between the statements of a search, a proposal fits  *)
(* the budget at the price it shows.                                       *)
(***************************************************************************)
THEOREM BudgetHolds == Spec => []PriceShownFits
  <1>1. IInv => PriceShownFits
    BY DEF IInv
  <1> QED BY <1>1, Always, PTL

(***************************************************************************)
(* A proposal no edit touched feeds the people asked for.                  *)
(***************************************************************************)
THEOREM PeopleAreFed == Spec => []PortionsSuffice
  <1>1. IInv => PortionsSuffice
    BY DEF IInv
  <1> QED BY <1>1, Always, PTL

(***************************************************************************)
(* A walk to the end over a base that is not edited shows every dish asked *)
(* for, once and in order, for every number of dishes and every limit.     *)
(***************************************************************************)
THEOREM WalksAreComplete == Spec => []WalkIsComplete
  <1>1. ASSUME IInv PROVE WalkIsComplete
    <2> SUFFICES ASSUME pc = "answered", answer.next = Null, edits = 0
                 PROVE  Ids(shown) = Ranked(query)
      BY DEF WalkIsComplete, Walked
    <2> DEFINE s == Ranked(query)
               to == offset + query.limit
               w == Window(s, 0, to)
    <2>1. s \in Seq(Dishes) /\ to \in Nat
      BY <1>1, RankedIs, QueryIs DEF IInv, TypeOK
    <2>2. Ids(shown) = w /\ Len(s) <= to
      BY <1>1 DEF IInv, WalkHolds, Reached
    <2>3. w \in Seq(Dishes) /\ Len(w) = Fewer(to, Len(s))
          /\ \A i \in 1..Fewer(to, Len(s)) : w[i] = s[i]
      <3> HIDE DEF s, to
      <3> QED BY <2>1, FirstWindowIs
    <2>4. Fewer(to, Len(s)) = Len(s)
      <3>1. Len(s) \in Nat
        BY <2>1
      <3> HIDE DEF s, to
      <3> QED BY <2>1, <2>2, <3>1 DEF Fewer
    <2> HIDE DEF s, to, w
    <2>5. s = [i \in 1..Len(s) |-> s[i]] /\ w = [i \in 1..Len(s) |-> w[i]]
      BY <2>1, <2>3, <2>4
    <2>6. w = s
      BY <2>3, <2>4, <2>5
    <2> QED BY <2>2, <2>6 DEF s
  <1> QED BY <1>1, Always, PTL

(***************************************************************************)
(* On rows that all are public and priced, without edits, PostgreSQL shows *)
(* nothing that the demonstration does not; where no accent nor blank sets *)
(* texts apart, its pages are as long and lead on as far, the same in a    *)
(* budget search, and a whole walk has shown the same dishes.              *)
(***************************************************************************)
THEOREM SameCatalogues == Spec => []AgreesWithDemo
  <1>1. IInv /\ WalkIsComplete => AgreesWithDemo
    <2> SUFFICES ASSUME IInv, WalkIsComplete, pc = "answered", edits = 0,
                        \A d \in Dishes : Public(d) /\ Priced(d)
                 PROVE  /\ Range(answer.data) \subseteq Range(DemoItems(query))
                        /\ SpelledAlike(query) /\ DemoKnows(query) =>
                             IF query.kind = "budget" THEN answer = DemoPage(query, offset)
                             ELSE /\ Len(answer.data) = Len(DemoPage(query, offset).data)
                                  /\ answer.next = DemoPage(query, offset).next
                                  /\ answer.next = Null =>
                                       Range(Ids(shown)) = DemoDishes(query)
      BY DEF AgreesWithDemo
    <2>1. /\ Range(answer.data) \subseteq Range(DemoItems(query))
          /\ SpelledAlike(query) =>
               /\ Len(answer.data) = Len(DemoPage(query, offset).data)
               /\ answer.next = DemoPage(query, offset).next
               /\ query.kind = "budget" => answer = DemoPage(query, offset)
      BY DEF IInv, PagesAgree
    <2>2. ASSUME SpelledAlike(query), query.kind # "budget", answer.next = Null
          PROVE  Range(Ids(shown)) = DemoDishes(query)
      <3>1. Ids(shown) = Ranked(query)
        BY <2>2 DEF WalkIsComplete, Walked
      <3>2. Range(Ranked(query)) = Wanted(query)
        <4> DEFINE s == Ranked(query)
                   n == Cardinality(Wanted(query))
        <4>1. Follows(s, n, Wanted(query), Precedence(query))
          BY RankedIs DEF IInv, TypeOK
        <4> HIDE DEF s, n
        <4>2. /\ s \in [1..n -> Wanted(query)]
              /\ \A d \in Wanted(query) : \E i \in 1..n : s[i] = d
          BY <4>1 DEF Follows
        <4>3. Range(s) = {s[i] : i \in 1..n}
          BY <4>2 DEF Range
        <4> QED BY <4>2, <4>3 DEF s
      <3>3. Wanted(query) = DemoDishes(query)
        BY <2>2, DemoSelects DEF IInv, TypeOK, DemoWanted
      <3> QED BY <3>1, <3>2, <3>3
    <2> QED BY <2>1, <2>2
  <1> QED BY <1>1, Always, WalksAreComplete, PTL

(***************************************************************************)
(* Whatever is edited between the two reads, the page loses nothing that   *)
(* the edits did not touch, and keeps the order of the rows.               *)
(***************************************************************************)
THEOREM PagesKeepTheOthers == Spec => OthersStayOnThePage
  <1> DEFINE Rank(k) == CHOOSE i \in DOMAIN rows : rows[i].id = answer'.data[k].id
             Kept == pc = "including" /\ pc' = "answered" =>
                       /\ \A i \in DOMAIN rows :
                             i <= query.limit /\ rows[i].id \notin touched
                               => rows[i].id \in Range(Ids(answer'.data))
                       /\ \A j, k \in DOMAIN answer'.data : j < k => Rank(j) < Rank(k)
  <1>1. ASSUME IInv, [Next]_vars PROVE [Kept]_vars
    <2> SUFFICES ASSUME pc = "including", pc' = "answered" PROVE Kept
      OBVIOUS
    <2>1. AnswerList \/ AnswerBudget
      BY <1>1 DEF Next, Ask, NextPage, FindRestaurant, ReadList, ReadQuantities, ReadDishes,
                  EditDish, EditRestaurant, vars
    <2>2. PICK m, at : Answered(m, at)
      BY <1>1, <2>1, SomethingAnswered
    <2> DEFINE n == Fewer(query.limit, m)
    <2>3. /\ m \in Nat /\ query.limit \in Nat /\ n \in Nat
          /\ DOMAIN answer'.data = 1..n /\ DOMAIN rows = 1..Len(rows) /\ Len(rows) \in Nat
          /\ \A k \in 1..n : /\ k \in 1..m /\ at[k] \in DOMAIN rows
                             /\ answer'.data[k].id = rows[at[k]].id
      BY <1>1, <2>2, DataIs DEF IInv, TypeOK
    <2>4. /\ \A j, k \in 1..m : j < k => at[j] < at[k]
          /\ \A i \in 1..Len(rows) : rows[i].id \notin touched =>
               \E k \in 1..m : at[k] = i /\ k <= i
      BY <2>2 DEF Answered, Answers
    <2>5. \A i, j \in DOMAIN rows : rows[i].id = rows[j].id => i = j
      BY <1>1 DEF IInv, RowsHold
    <2>6. ASSUME NEW i \in DOMAIN rows, i <= query.limit, rows[i].id \notin touched
          PROVE  rows[i].id \in Range(Ids(answer'.data))
      <3>1. PICK k \in 1..m : at[k] = i /\ k <= i
        BY <2>3, <2>4, <2>6
      <3>2. k \in 1..n
        BY <2>3, <2>6, <3>1 DEF Fewer
      <3> HIDE DEF n
      <3> QED BY <2>3, <3>1, <3>2 DEF Range, Ids
    <2>7. \A k \in 1..n : Rank(k) = at[k]
      <3> HIDE DEF n
      <3> QED BY <2>3, <2>5
    <2> HIDE DEF n, Rank
    <2> QED BY <2>3, <2>4, <2>6, <2>7
  <1>2. [][Kept]_vars => OthersStayOnThePage
    BY PTL DEF OthersStayOnThePage
  <1> HIDE DEF Kept
  <1> QED BY <1>1, <1>2, Always, PTL DEF Spec
=============================================================================
