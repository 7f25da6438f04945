---------------------------- MODULE WebsiteProofs ----------------------------
(***************************************************************************)
(* What holds of the intake of partner pages for every registry, page,     *)
(* calendar and number of requests.                                        *)
(***************************************************************************)
EXTENDS Website, WellFoundedInduction, TLAPS

(***************************************************************************)
(* The review a request relies on was valid on the day it was read, and    *)
(* that day was today or yesterday.                                        *)
(***************************************************************************)
Reviewed ==
  \A s \in Sessions : session[s] # Null =>
    LET read == session[s]
    IN  /\ read.source.sound /\ read.source.covers
        /\ read.source.reviewed <= read.since
        /\ read.since - read.source.reviewed <= ReviewDays
        /\ read.since <= today /\ today - read.since <= 1

\* Each request has its place in session, so that EXCEPT changes it.
Placed == DOMAIN session = Sessions

TypeInv == TypeOK /\ Placed

-----------------------------------------------------------------------------
(***************************************************************************)
(* What a command stages: the sources it names show one of its candidates, *)
(* with the rights they were created with; the others are as they were.    *)
(***************************************************************************)
LEMMA StagedRows ==
  ASSUME NEW c, NEW ref \in DOMAIN Staged(c)
  PROVE  \/ ref \in DOMAIN record /\ Staged(c)[ref] = record[ref]
         \/ /\ \E i \in DOMAIN c.cands :
                  Staged(c)[ref].candidate = c.cands[i] /\ c.cands[i].ref = ref
            /\ Staged(c)[ref].snapshot = today
            /\ \/ Staged(c)[ref].rights = c.source /\ ref \notin DOMAIN record
               \/ /\ ref \in DOMAIN record
                  /\ Staged(c)[ref].rights = record[ref].rights
  <1> DEFINE refs == {c.cands[i].ref : i \in DOMAIN c.cands}
             of(x) == c.cands[CHOOSE i \in DOMAIN c.cands : c.cands[i].ref = x]
  <1>1. \A x \in refs : \E i \in DOMAIN c.cands :
            of(x) = c.cands[i] /\ c.cands[i].ref = x
    OBVIOUS
  <1>2. Staged(c) = [x \in DOMAIN record \cup refs |->
            IF x \notin refs THEN record[x]
            ELSE [candidate |-> of(x), snapshot |-> today,
                  rights |-> IF x \in DOMAIN record THEN record[x].rights
                             ELSE c.source]]
    BY DEF Staged
  <1> HIDE DEF of
  <1> QED BY <1>1, <1>2

-----------------------------------------------------------------------------
(***************************************************************************)
(* Registry, page, day, requests and records keep their types.             *)
(***************************************************************************)
LEMMA TypeInit == Init => TypeInv
  BY WebsiteAssumption DEF Init, TypeInv, TypeOK, Placed

\* A step of the registry, of the site, of the calendar or of a request.
LEMMA TypeNext == TypeInv /\ [Next]_vars => TypeInv'
  <1> SUFFICES ASSUME TypeInv, [Next]_vars PROVE TypeInv'
    OBVIOUS
  <1> USE DEF TypeInv, TypeOK, Placed
  <1>1. ASSUME NEW e \in Entry, Review(e) PROVE TypeInv'
    BY <1>1 DEF Review
  <1>2. ASSUME NEW p \in Pages, Publish(p) PROVE TypeInv'
    BY <1>2, WebsiteAssumption DEF Publish
  <1>3. CASE NextDay
    <2>1. today' \in 0..MaxDay /\ \A d \in 0..today : d \in 0..today'
      BY <1>3, WebsiteAssumption DEF NextDay
    <2> QED BY <1>3, <2>1 DEF NextDay
  <1>4. ASSUME NEW s \in Sessions, Check(s) PROVE TypeInv'
    <2>1. registry \in Entry /\ today \in 0..today
      BY WebsiteAssumption
    <2>2. DOMAIN session' = Sessions /\ UNCHANGED <<registry, page, today, record>>
      BY <1>4 DEF Check
    <2>3. ASSUME NEW t \in Sessions, session'[t] # Null
          PROVE  session'[t].source \in Entry /\ session'[t].since \in 0..today
      <3>1. CASE t = s
        <4>1. session'[t] = [source |-> registry, cands |-> Candidates(page),
                             since |-> today]
          BY <1>4, <3>1 DEF Check
        <4> QED BY <2>1, <4>1
      <3>2. CASE t # s
        BY <1>4, <2>3, <3>2 DEF Check
      <3> QED BY <3>1, <3>2
    <2> QED BY <2>2, <2>3
  <1>5. ASSUME NEW s \in Sessions, Store(s) PROVE TypeInv'
    <2>1. /\ session[s].source \in Entry /\ Command(s).source = session[s].source
          /\ today \in 0..today
      BY <1>5, WebsiteAssumption DEF Store, Command
    <2>2. \A ref \in DOMAIN Staged(Command(s)) :
             /\ Staged(Command(s))[ref].candidate.ref = ref
             /\ Staged(Command(s))[ref].rights \in Entry
             /\ Staged(Command(s))[ref].snapshot \in 0..today
      <3> DEFINE c == Command(s)
      <3> HIDE DEF c
      <3>1. ASSUME NEW ref \in DOMAIN Staged(c)
            PROVE  /\ Staged(c)[ref].candidate.ref = ref
                   /\ Staged(c)[ref].rights \in Entry
                   /\ Staged(c)[ref].snapshot \in 0..today
        <4>1. c.source \in Entry /\ today \in 0..today
          BY <2>1 DEF c
        <4> QED BY <4>1, StagedRows
      <3> QED BY <3>1 DEF c
    <2>3. /\ record' = record \/ record' = Staged(Command(s))
          /\ UNCHANGED <<registry, page, today>>
          /\ session' = [session EXCEPT ![s] = Null]
      BY <1>5 DEF Store
    <2>4. \A ref \in DOMAIN record' :
             /\ record'[ref].candidate.ref = ref
             /\ record'[ref].rights \in Entry /\ record'[ref].snapshot \in 0..today
      BY <2>2, <2>3
    <2> QED BY <2>3, <2>4
  <1>6. ASSUME NEW s \in Sessions, Fail(s) PROVE TypeInv'
    BY <1>6 DEF Fail
  <1>7. CASE UNCHANGED vars
    BY <1>7 DEF vars
  <1> QED BY <1>1, <1>2, <1>3, <1>4, <1>5, <1>6, <1>7 DEF Next

\* The state keeps its shape, whatever the registry, the pages and the days.
THEOREM TypeCorrect == Spec => []TypeOK
  <1>1. TypeInv => TypeOK
    BY DEF TypeInv
  <1> QED BY <1>1, TypeInit, TypeNext, PTL DEF Spec

-----------------------------------------------------------------------------
(***************************************************************************)
(* The least number of a set: what fails of some number fails first of     *)
(* one, which is how the loops of this module are reasoned about.          *)
(***************************************************************************)
LEMMA Least ==
  ASSUME NEW T, T \subseteq Nat, T # {}
  PROVE  \E x \in T : \A y \in T : x <= y
  <1> DEFINE R == OpToRel(<, Nat)
  <1>1. IsWellFoundedOn(OpToRel(<, Nat), Nat)
    BY NatLessThanWellFounded
  <1>2. \A x, y \in Nat : y < x => <<y, x>> \in R
    BY DEF OpToRel
  <1> HIDE DEF R
  <1>3. IsWellFoundedOn(R, Nat)
    BY <1>1 DEF R
  <1>4. PICK x \in T : \A y \in T : ~(<<y, x>> \in R)
    BY <1>3, WFMin
  <1>5. ASSUME NEW y \in T PROVE x <= y
    <2>1. x \in Nat /\ y \in Nat
      OBVIOUS
    <2>2. ~(y < x)
      BY <1>2, <1>4, <2>1
    <2> QED BY <2>1, <2>2
  <1> QED BY <1>5

(***************************************************************************)
(* The loop of the reader: read[i] is what was read of the first i nodes.  *)
(***************************************************************************)
Reading(p, n, read) ==
  read = [i \in 0..n |-> IF i = 0 THEN <<>> ELSE UnlessSeen(p, read[i - 1], p[i])]

LEMMA ReadingExists ==
  ASSUME NEW p, NEW n \in Nat
  PROVE  \E read : Reading(p, n, read)
  <1> DEFINE T == {m \in Nat : ~\E read : Reading(p, m, read)}
  <1> SUFFICES ASSUME T # {} PROVE FALSE
    OBVIOUS
  <1>1. PICK m \in T : \A k \in T : m <= k
    BY Least
  <1>2. m # 0
    <2> DEFINE f == [i \in 0..0 |-> <<>>]
    <2>1. Reading(p, 0, f)
      BY DEF Reading
    <2> QED BY <2>1
  <1>3. m - 1 \in Nat /\ m - 1 \notin T
    BY <1>1, <1>2
  <1>4. PICK g : Reading(p, m - 1, g)
    BY <1>3
  <1> DEFINE f == [i \in 0..m |-> IF i = m THEN UnlessSeen(p, g[m - 1], p[m]) ELSE g[i]]
  <1>5. \A i \in 0..m : f[i] = IF i = 0 THEN <<>> ELSE UnlessSeen(p, f[i - 1], p[i])
    <2> SUFFICES ASSUME NEW i \in 0..m
                 PROVE  f[i] = IF i = 0 THEN <<>> ELSE UnlessSeen(p, f[i - 1], p[i])
      OBVIOUS
    <2>1. CASE i = m
      BY <2>1, <1>2
    <2>2. CASE i # m
      <3>1. i \in 0..(m - 1) /\ (i # 0 => i - 1 \in 0..(m - 1))
        BY <2>2
      <3>2. g[i] = IF i = 0 THEN <<>> ELSE UnlessSeen(p, g[i - 1], p[i])
        BY <1>4, <3>1 DEF Reading
      <3> QED BY <3>1, <3>2
    <2> QED BY <2>1, <2>2
  <1>6. Reading(p, m, f)
    <2>1. f = [i \in 0..m |-> f[i]]
      OBVIOUS
    <2> HIDE DEF f
    <2> QED BY <1>5, <2>1 DEF Reading
  <1> QED BY <1>6

LEMMA CandidatesRead ==
  ASSUME NEW p, Len(p) \in Nat
  PROVE  \E read : /\ Candidates(p) = read[Len(p)]
                   /\ read[0] = <<>>
                   /\ \A i \in 1..Len(p) : read[i] = UnlessSeen(p, read[i - 1], p[i])
  <1> DEFINE read == CHOOSE f : Reading(p, Len(p), f)
  <1>1. Candidates(p) = read[Len(p)]
    BY DEF Candidates, Reading
  <1>2. Reading(p, Len(p), read)
    BY ReadingExists
  <1> HIDE DEF read
  <1>3. read[0] = <<>> /\ \A i \in 1..Len(p) : read[i] = UnlessSeen(p, read[i - 1], p[i])
    BY <1>2 DEF Reading
  <1> QED BY <1>1, <1>3
(***************************************************************************)
(* What the loop keeps of the first i nodes: the candidates of some of the *)
(* restaurants, each identity once, none forgotten.                        *)
(***************************************************************************)
KeptOf(p, i, cands) ==
  /\ cands \in Seq(Readings(p))
  /\ \A a, b \in DOMAIN cands : cands[a].ref = cands[b].ref => a = b
  /\ \A j \in 1..i : p[j].type # "other" =>
       \E a \in DOMAIN cands : cands[a].ref = Identity(p, p[j])

LEMMA OneTurn ==
  ASSUME NEW p \in Seq(Node), NEW i \in 1..Len(p), NEW cands, KeptOf(p, i - 1, cands)
  PROVE  KeptOf(p, i, UnlessSeen(p, cands, p[i]))
  <1> DEFINE c == CandidateOf(p, p[i])
             next == UnlessSeen(p, cands, p[i])
  <1>0. \A j \in 1..i : j \in 1..(i - 1) \/ j = i
    OBVIOUS
  <1>1. CASE p[i].type = "other" \/ \E a \in DOMAIN cands : cands[a].ref = Identity(p, p[i])
    <2>1. next = cands
      BY <1>1 DEF UnlessSeen
    <2> QED BY <1>0, <1>1, <2>1 DEF KeptOf
  <1>2. CASE ~(p[i].type = "other" \/ \E a \in DOMAIN cands : cands[a].ref = Identity(p, p[i]))
    <2>1. next = Append(cands, c) /\ c.ref = Identity(p, p[i])
      BY <1>2 DEF UnlessSeen, CandidateOf
    <2>2. c \in Readings(p)
      BY <1>2 DEF Readings, Restaurants
    <2>3. cands \in Seq(Readings(p))
      BY DEF KeptOf
    <2> HIDE DEF c, next
    <2>4. /\ next \in Seq(Readings(p)) /\ Len(next) = Len(cands) + 1
          /\ DOMAIN cands = 1..Len(cands) /\ DOMAIN next = 1..(Len(cands) + 1)
          /\ next[Len(cands) + 1] = c
          /\ \A a \in DOMAIN cands : next[a] = cands[a]
      BY <2>1, <2>2, <2>3
    <2>5. DOMAIN next = DOMAIN cands \cup {Len(cands) + 1}
      BY <2>3, <2>4
    <2>6. \A a \in DOMAIN cands : cands[a].ref # c.ref
      BY <1>2, <2>1
    <2>7. \A a, b \in DOMAIN next : next[a].ref = next[b].ref => a = b
      BY <2>4, <2>5, <2>6 DEF KeptOf
    <2>8. \A j \in 1..i : p[j].type # "other" =>
             \E a \in DOMAIN next : next[a].ref = Identity(p, p[j])
      BY <1>0, <2>1, <2>4, <2>5 DEF KeptOf
    <2> QED BY <2>4, <2>7, <2>8 DEF KeptOf, next
  <1> QED BY <1>1, <1>2

LEMMA AllKept ==
  ASSUME NEW p \in Seq(Node)
  PROVE  KeptOf(p, Len(p), Candidates(p))
  <1> PICK read : /\ Candidates(p) = read[Len(p)] /\ read[0] = <<>>
                  /\ \A i \in 1..Len(p) : read[i] = UnlessSeen(p, read[i - 1], p[i])
    <2>1. Len(p) \in Nat
      OBVIOUS
    <2> QED BY <2>1, CandidatesRead
  <1> DEFINE T == {i \in 0..Len(p) : ~KeptOf(p, i, read[i])}
  <1>1. ASSUME T # {} PROVE FALSE
    <2>0. T \subseteq Nat
      OBVIOUS
    <2>1. PICK i \in T : \A k \in T : i <= k
      <3> HIDE DEF T
      <3> QED BY <1>1, <2>0, Least
    <2>2. i # 0
      <3>1. KeptOf(p, 0, <<>>)
        BY DEF KeptOf
      <3> QED BY <2>1, <3>1
    <2>3. i \in 1..Len(p) /\ i - 1 \notin T /\ i - 1 \in 0..Len(p)
      BY <2>1, <2>2
    <2> QED BY <2>3, OneTurn
  <1> QED BY <1>1

(***************************************************************************)
(* What is read of a page: every identity of a restaurant, once.           *)
(***************************************************************************)
LEMMA WhatIsRead ==
  ASSUME NEW p \in Seq(Node)
  PROVE  /\ IsInjective([i \in DOMAIN Candidates(p) |-> Candidates(p)[i].ref])
         /\ ToSet(Candidates(p)) \subseteq Readings(p)
         /\ \A j \in Restaurants(p) :
              \E c \in ToSet(Candidates(p)) : c.ref = Identity(p, p[j])
  <1> DEFINE cands == Candidates(p)
  <1>1. KeptOf(p, Len(p), cands)
    BY AllKept
  <1> HIDE DEF cands
  <1>2. IsInjective([i \in DOMAIN cands |-> cands[i].ref])
    BY <1>1 DEF IsInjective, KeptOf
  <1>3. ToSet(cands) \subseteq Readings(p)
    BY <1>1 DEF ToSet, KeptOf
  <1>4. \A j \in Restaurants(p) : \E c \in ToSet(cands) : c.ref = Identity(p, p[j])
    BY <1>1 DEF ToSet, KeptOf, Restaurants
  <1> QED BY <1>2, <1>3, <1>4 DEF cands
(***************************************************************************)
(* The richest node of an @id, the first of the richest, exists as soon as *)
(* some node of the page has it.                                           *)
(***************************************************************************)
Richest(p, id, n, i) ==
  /\ i \in 1..n /\ p[i].id = id
  /\ \A j \in 1..n : p[j].id = id =>
       p[j].keys < p[i].keys \/ (p[j].keys = p[i].keys /\ i <= j)

LEMMA RichestExists ==
  ASSUME NEW p \in Seq(Node), NEW id, NEW n \in 0..Len(p), \E i \in 1..n : p[i].id = id
  PROVE  \E i \in 1..n : Richest(p, id, n, i)
  <1> DEFINE T == {m \in 0..n : (\E i \in 1..m : p[i].id = id)
                                 /\ ~\E i \in 1..m : Richest(p, id, m, i)}
  <1>0. n \in Nat /\ \A j \in 1..n : p[j].keys \in Nat
    <2>1. \A j \in 1..Len(p) : p[j] \in Node
      OBVIOUS
    <2>2. n \in Nat /\ 1..n \subseteq 1..Len(p)
      OBVIOUS
    <2>3. \A x \in Node : x.keys \in Nat
      BY DEF Node
    <2> QED BY <2>1, <2>2, <2>3
  <1> SUFFICES ASSUME ~\E i \in 1..n : Richest(p, id, n, i) PROVE FALSE
    OBVIOUS
  <1>1. n \in T
    BY <1>0
  <1>2. PICK m \in T : \A k \in T : m <= k
    <2>1. T \subseteq Nat
      BY <1>0
    <2> HIDE DEF T
    <2> QED BY <1>1, <2>1, Least
  <1>3. m \in Nat /\ m <= n /\ m # 0 /\ m - 1 \in 0..n /\ m - 1 \notin T
    BY <1>0, <1>2
  <1>4. \A j \in 1..m : (j \in 1..(m - 1) \/ j = m) /\ p[j].keys \in Nat
    BY <1>0, <1>3
  <1>5. CASE \A i \in 1..(m - 1) : p[i].id # id
    <2>1. Richest(p, id, m, m)
      BY <1>2, <1>3, <1>4, <1>5 DEF Richest
    <2> QED BY <1>2, <1>3, <2>1
  <1>6. CASE \E i \in 1..(m - 1) : p[i].id = id
    <2>1. PICK b \in 1..(m - 1) : Richest(p, id, m - 1, b)
      BY <1>3, <1>6
    <2> DEFINE key(j) == p[j].keys
    <2>2. \A j \in 1..m : key(j) \in Nat
      BY <1>4
    <2>3. b \in 1..m /\ m \in 1..m /\ p[b].id = id
      BY <1>3, <2>1 DEF Richest
    <2>4. \A j \in 1..(m - 1) : p[j].id = id =>
             key(j) < key(b) \/ (key(j) = key(b) /\ b <= j)
      BY <2>1 DEF Richest
    <2>5. ASSUME NEW i \in 1..m, p[i].id = id,
                 \A j \in 1..m : p[j].id = id =>
                    key(j) < key(i) \/ (key(j) = key(i) /\ i <= j)
          PROVE  FALSE
      BY <1>2, <1>3, <2>5 DEF Richest
    <2>6. \A j \in 1..m : j \in 1..(m - 1) \/ j = m
      BY <1>4
    <2> HIDE DEF T, key
    <2>7. CASE p[m].id = id /\ key(b) < key(m)
      <3>1. ASSUME NEW j \in 1..m, p[j].id = id
            PROVE  key(j) < key(m) \/ (key(j) = key(m) /\ m <= j)
        <4>1. CASE j = m
          BY <2>2, <2>3, <4>1
        <4>2. CASE j \in 1..(m - 1)
          <5>1. key(j) < key(b) \/ key(j) = key(b)
            BY <2>4, <3>1, <4>2
          <5> QED BY <2>2, <2>3, <2>7, <5>1
        <4> QED BY <2>6, <4>1, <4>2
      <3> QED BY <2>3, <2>5, <2>7, <3>1
    <2>8. CASE ~(p[m].id = id /\ key(b) < key(m))
      <3>1. ASSUME NEW j \in 1..m, p[j].id = id
            PROVE  key(j) < key(b) \/ (key(j) = key(b) /\ b <= j)
        <4>1. CASE j = m
          <5>1. key(m) \in Nat /\ key(b) \in Nat /\ ~(key(b) < key(m)) /\ b <= m
            BY <2>2, <2>3, <2>8, <3>1, <4>1
          <5> QED BY <4>1, <5>1
        <4>2. CASE j \in 1..(m - 1)
          BY <2>4, <3>1, <4>2
        <4> QED BY <2>6, <4>1, <4>2
      <3> QED BY <2>3, <2>5, <3>1
    <2> QED BY <2>7, <2>8
  <1> QED BY <1>5, <1>6

LEMMA ByIdIs ==
  ASSUME NEW p \in Seq(Node), NEW id, \E i \in DOMAIN p : p[i].id = id
  PROVE  /\ ById(p, id) \in DOMAIN p /\ p[ById(p, id)].id = id
         /\ \A j \in DOMAIN p : p[j].id = id => p[j].keys <= p[ById(p, id)].keys
  <1> DEFINE Best(i) == /\ p[i].id = id
                        /\ \A j \in DOMAIN p : p[j].id = id =>
                             p[j].keys < p[i].keys \/ (p[j].keys = p[i].keys /\ i <= j)
  <1>0. DOMAIN p = 1..Len(p) /\ Len(p) \in 0..Len(p) /\ \A j \in DOMAIN p : p[j] \in Node
    OBVIOUS
  <1>1. \E i \in DOMAIN p : Best(i)
    <2>1. PICK i \in 1..Len(p) : Richest(p, id, Len(p), i)
      BY <1>0, RichestExists
    <2>2. i \in DOMAIN p /\ Best(i)
      BY <1>0, <2>1 DEF Richest
    <2> QED BY <2>2
  <1>2. ById(p, id) \in DOMAIN p /\ Best(ById(p, id))
    BY <1>1 DEF ById
  <1>3. \A j \in DOMAIN p : p[j].keys \in Nat
    BY <1>0 DEF Node
  <1> QED BY <1>2, <1>3

(***************************************************************************)
(* Two pages with the same nodes in another order.                         *)
(***************************************************************************)
Shuffle(p, f) == [i \in DOMAIN p |-> p[f[i]]]

LEMMA ShuffleIs ==
  ASSUME NEW p \in Seq(Node), NEW f \in Bijection(DOMAIN p, DOMAIN p)
  PROVE  /\ Shuffle(p, f) \in Seq(Node) /\ DOMAIN Shuffle(p, f) = DOMAIN p
         /\ \A i \in DOMAIN p : f[i] \in DOMAIN p /\ Shuffle(p, f)[i] = p[f[i]]
         /\ \A j \in DOMAIN p : \E i \in DOMAIN p : f[i] = j
         /\ \A i, j \in DOMAIN p : f[i] = f[j] => i = j
  <1>1. DOMAIN p = 1..Len(p) /\ Len(p) \in Nat /\ \A j \in DOMAIN p : p[j] \in Node
    OBVIOUS
  <1>2. /\ f \in [DOMAIN p -> DOMAIN p]
        /\ \A j \in DOMAIN p : \E i \in DOMAIN p : f[i] = j
        /\ \A i, j \in DOMAIN p : f[i] = f[j] => i = j
    BY DEF Bijection, Injection, Surjection, IsInjective
  <1>3. Shuffle(p, f) \in [1..Len(p) -> Node]
    BY <1>1, <1>2 DEF Shuffle
  <1>4. Shuffle(p, f) \in Seq(Node)
    BY <1>1, <1>3
  <1> QED BY <1>1, <1>2, <1>4 DEF Shuffle

(***************************************************************************)
(* A reference leads to the same point wherever its target stands.         *)
(***************************************************************************)
LEMMA SamePlace ==
  ASSUME NEW p \in Seq(Node), NEW f \in Bijection(DOMAIN p, DOMAIN p),
         TargetsAgree(p), NEW n
  PROVE  Place(Shuffle(p, f), n) = Place(p, n)
  <1> DEFINE q == Shuffle(p, f)
  <1>1. /\ q \in Seq(Node) /\ DOMAIN q = DOMAIN p
        /\ \A i \in DOMAIN p : f[i] \in DOMAIN p /\ q[i] = p[f[i]]
        /\ \A j \in DOMAIN p : \E i \in DOMAIN p : f[i] = j
    BY ShuffleIs
  <1> HIDE DEF q
  <1>2. ASSUME n.geo \notin NodeIds
        PROVE  Place(q, n) = Place(p, n)
    BY <1>2 DEF Place
  <1>3. ASSUME n.geo \in NodeIds, \A i \in DOMAIN p : p[i].id # n.geo
        PROVE  Place(q, n) = Place(p, n)
    <2>1. ~\E i \in DOMAIN q : q[i].id = n.geo
      <3> SUFFICES ASSUME NEW i \in DOMAIN q PROVE q[i].id # n.geo
        OBVIOUS
      <3>1. f[i] \in DOMAIN p /\ q[i] = p[f[i]]
        BY <1>1
      <3> QED BY <1>3, <3>1
    <2> QED BY <1>3, <2>1 DEF Place
  <1>4. ASSUME n.geo \in NodeIds, \E i \in DOMAIN p : p[i].id = n.geo
        PROVE  Place(q, n) = Place(p, n)
    <2> DEFINE id == n.geo
               a == ById(p, id)
               b == ById(q, id)
    <2>1. \E i \in DOMAIN q : q[i].id = id
      <3>1. PICK j \in DOMAIN p : p[j].id = n.geo
        BY <1>4
      <3>2. PICK i \in DOMAIN p : f[i] = j
        BY <1>1
      <3>3. i \in DOMAIN q /\ q[i] = p[j]
        BY <1>1, <3>2
      <3> QED BY <3>1, <3>3
    <2>2. /\ a \in DOMAIN p /\ p[a].id = id
          /\ \A j \in DOMAIN p : p[j].id = id => p[j].keys <= p[a].keys
      BY <1>4, ByIdIs
    <2>3. /\ b \in DOMAIN q /\ q[b].id = id
          /\ \A j \in DOMAIN q : q[j].id = id => q[j].keys <= q[b].keys
      BY <1>1, <2>1, ByIdIs
    <2>4. Place(p, n) = p[a].point /\ Place(q, n) = q[b].point
      BY <1>4, <2>1 DEF Place
    <2> HIDE DEF id, a, b
    <2>5. PICK c \in DOMAIN q : q[c] = p[a]
      <3>1. PICK i \in DOMAIN p : f[i] = a
        BY <1>1, <2>2
      <3> QED BY <1>1, <3>1
    <2>6. f[b] \in DOMAIN p /\ q[b] = p[f[b]]
      BY <1>1, <2>3
    <2>7. p[f[b]].keys <= p[a].keys /\ p[a].keys <= p[f[b]].keys
      BY <2>2, <2>3, <2>5, <2>6
    <2>8. p[a].keys \in Nat /\ p[f[b]].keys \in Nat
      <3>1. p[a] \in Node /\ p[f[b]] \in Node
        BY <2>2, <2>6
      <3> QED BY <3>1 DEF Node
    <2>9. p[a].keys = p[f[b]].keys /\ id # Null
      BY <2>7, <2>8, <1>4, WebsiteAssumption DEF id
    <2>10. p[a].point = p[f[b]].point
      BY <2>2, <2>3, <2>6, <2>9 DEF TargetsAgree
    <2> QED BY <2>4, <2>6, <2>10
  <1>5. Place(q, n) = Place(p, n)
    BY <1>2, <1>3, <1>4
  <1> QED BY <1>5 DEF q
(***************************************************************************)
(* Another order of the scripts has the same restaurants, read the same.   *)
(***************************************************************************)
LEMMA ShuffleReadsTheSame ==
  ASSUME NEW p \in Seq(Node), NEW f \in Bijection(DOMAIN p, DOMAIN p), TargetsAgree(p)
  PROVE  Readings(Shuffle(p, f)) = Readings(p)
  <1> DEFINE q == Shuffle(p, f)
  <1>1. /\ q \in Seq(Node) /\ DOMAIN q = DOMAIN p
        /\ \A i \in DOMAIN p : f[i] \in DOMAIN p /\ q[i] = p[f[i]]
        /\ \A j \in DOMAIN p : \E i \in DOMAIN p : f[i] = j
        /\ \A i, j \in DOMAIN p : f[i] = f[j] => i = j
    BY ShuffleIs
  <1>2. \A n : Place(q, n) = Place(p, n)
    BY SamePlace
  <1> HIDE DEF q
  <1>3. \A n : Identity(q, n) = Identity(p, n) /\ CandidateOf(q, n) = CandidateOf(p, n)
    BY <1>2 DEF Identity, CandidateOf
  <1>4. ASSUME NEW j \in Restaurants(p)
        PROVE  CandidateOf(p, p[j]) \in Readings(q)
    <2>1. PICK i \in DOMAIN p : f[i] = j
      BY <1>1, <1>4 DEF Restaurants
    <2>2. q[i] = p[j] /\ i \in Restaurants(q)
      BY <1>1, <1>4, <2>1 DEF Restaurants
    <2> QED BY <1>3, <2>2 DEF Readings
  <1>5. ASSUME NEW i \in Restaurants(q)
        PROVE  CandidateOf(q, q[i]) \in Readings(p)
    <2>1. f[i] \in Restaurants(p) /\ q[i] = p[f[i]]
      BY <1>1, <1>5 DEF Restaurants
    <2> QED BY <1>3, <2>1 DEF Readings
  <1>6. Readings(q) = Readings(p)
    BY <1>4, <1>5 DEF Readings
  <1> QED BY <1>6 DEF q

LEMMA PageIsNodes == TypeOK => page \in Seq(Node)
  BY WebsiteAssumption DEF TypeOK

(***************************************************************************)
(* A page of any length names each source once, which Import assumes of    *)
(* its commands, and loses no restaurant (parseRestaurantJsonLd).          *)
(***************************************************************************)
THEOREM SourcesOnce == Spec => []EachSourceOnce
  <1>1. ASSUME page \in Seq(Node) PROVE EachSourceOnce
    <2>1. IsInjective([i \in DOMAIN Candidates(page) |-> Candidates(page)[i].ref])
      BY <1>1, WhatIsRead
    <2>2. ToSet(Candidates(page)) = Read
      BY DEF Read, ToSet
    <2>3. ASSUME NEW i \in DOMAIN page, page[i].type # "other"
          PROVE  \E c \in Read : IF page[i].id # Null THEN c.ref = <<page[i].id>>
                       ELSE c.name = page[i].name /\ c.place = Place(page, page[i])
      <3>1. PICK c \in Read : c.ref = Identity(page, page[i])
        BY <1>1, <2>2, <2>3, WhatIsRead DEF Restaurants
      <3>2. PICK j \in Restaurants(page) : c = CandidateOf(page, page[j])
        BY <1>1, <2>2, <3>1, WhatIsRead DEF Readings
      <3>3. Identity(page, page[j]) = Identity(page, page[i]) /\ c.name = page[j].name
            /\ c.place = Place(page, page[j])
        BY <3>1, <3>2 DEF CandidateOf
      <3>4. CASE page[i].id # Null
        BY <3>1, <3>4 DEF Identity
      <3>5. CASE page[i].id = Null
        <4> DEFINE a == page[i].name
                   b == Place(page, page[i])
        <4>1. Identity(page, page[i]) = <<a, b>>
          BY <3>5 DEF Identity
        <4>2. Len(<<a, b>>) = 2 /\ Len(<<page[j].id>>) = 1
          OBVIOUS
        <4>3. page[j].id = Null
          BY <3>3, <4>1, <4>2 DEF Identity
        <4>4. <<page[j].name, Place(page, page[j])>> = <<a, b>>
          BY <3>3, <4>1, <4>3 DEF Identity
        <4> HIDE DEF a, b
        <4>5. page[j].name = a /\ Place(page, page[j]) = b
          BY <4>4
        <4>6. c.name = page[i].name /\ c.place = Place(page, page[i])
          BY <3>3, <4>5 DEF a, b
        <4> QED BY <3>5, <4>6
      <3> QED BY <3>4, <3>5
    <2> QED BY <2>1, <2>3 DEF EachSourceOnce
  <1> QED BY <1>1, PageIsNodes, TypeCorrect, PTL

(***************************************************************************)
(* The establishments of a page are those of its restaurants.              *)
(***************************************************************************)
LEMMA EstablishmentsRead ==
  ASSUME NEW p \in Seq(Node)
  PROVE  {c.ref : c \in ToSet(Candidates(p))} = {c.ref : c \in Readings(p)}
  <1>1. \A c \in ToSet(Candidates(p)) : c \in Readings(p)
    BY WhatIsRead
  <1>2. ASSUME NEW c \in Readings(p)
        PROVE  \E d \in ToSet(Candidates(p)) : d.ref = c.ref
    <2>1. PICK j \in Restaurants(p) : c = CandidateOf(p, p[j])
      BY DEF Readings
    <2>2. c.ref = Identity(p, p[j])
      BY <2>1 DEF CandidateOf
    <2> QED BY <2>2, WhatIsRead
  <1> QED BY <1>1, <1>2

(***************************************************************************)
(* Whatever the order of a page's scripts, the same establishments are     *)
(* read of it, each as one of its nodes has it: only where two restaurants *)
(* contradict each other under one identity may the order choose.          *)
(***************************************************************************)
THEOREM AnyOrderReadsTheSame == Spec => []OrderIsIrrelevant
  <1>1. ASSUME page \in Seq(Node) PROVE OrderIsIrrelevant
    <2> SUFFICES ASSUME TargetsAgree(page), NEW f \in Bijection(DOMAIN page, DOMAIN page)
                 PROVE  LET other == ToSet(Candidates([i \in DOMAIN page |-> page[f[i]]]))
                        IN /\ {c.ref : c \in other} = {c.ref : c \in Read}
                           /\ other \subseteq Readings(page)
                           /\ \A c \in other \ Read :
                                \E d \in Readings(page) : d.ref = c.ref /\ d # c
      BY DEF OrderIsIrrelevant
    <2> DEFINE q == Shuffle(page, f)
               other == ToSet(Candidates(q))
    <2>1. ToSet(Candidates(page)) = Read
      BY DEF Read, ToSet
    <2>2. q \in Seq(Node) /\ Readings(q) = Readings(page)
      BY <1>1, ShuffleIs, ShuffleReadsTheSame
    <2> HIDE DEF q
    <2>3. other \subseteq Readings(page)
      BY <2>2, WhatIsRead
    <2>4. Read \subseteq Readings(page)
      BY <1>1, <2>1, WhatIsRead
    <2>5. /\ {c.ref : c \in other} = {c.ref : c \in Readings(page)}
          /\ {c.ref : c \in Read} = {c.ref : c \in Readings(page)}
      BY <1>1, <2>1, <2>2, EstablishmentsRead
    <2> HIDE DEF other
    <2>6. ASSUME NEW c \in other \ Read
          PROVE  \E d \in Readings(page) : d.ref = c.ref /\ d # c
      <3>1. c.ref \in {d.ref : d \in Read}
        BY <2>5
      <3> QED BY <2>4, <2>6, <3>1
    <2> QED BY <2>3, <2>5, <2>6 DEF q, other, Shuffle
  <1> QED BY <1>1, PageIsNodes, TypeCorrect, PTL

-----------------------------------------------------------------------------
(***************************************************************************)
(* A record is owed to the runs: no step stages a candidate without its    *)
(* run, and none forgets a run.                                            *)
(***************************************************************************)
LEMMA AccountedNext ==
  TypeInv /\ RecordsAccountedFor /\ [Next]_vars => RecordsAccountedFor'
  <1> SUFFICES ASSUME RecordsAccountedFor, [Next]_vars
               PROVE  RecordsAccountedFor'
    OBVIOUS
  <1>1. ASSUME NEW s \in Sessions, Store(s) PROVE RecordsAccountedFor'
    <2> DEFINE c == Command(s)
    <2>1. runs' = runs \cup {c}
      BY <1>1 DEF Store
    <2>2. CASE c \in runs
      BY <1>1, <2>1, <2>2 DEF Store, RecordsAccountedFor
    <2>3. CASE c \notin runs
      <3>1. record' = Staged(c)
        BY <1>1, <2>3 DEF Store
      <3>2. \A i \in DOMAIN c.cands : c.cands[i] \in ToSet(c.cands)
        BY DEF ToSet
      <3> HIDE DEF c
      <3>3. ASSUME NEW ref \in DOMAIN record'
            PROVE  /\ \E d \in runs' : record'[ref].candidate \in ToSet(d.cands)
                   /\ \E d \in runs' : d.source = record'[ref].rights
        <4>1. c \in runs' /\ runs \subseteq runs'
          BY <2>1
        <4>2. CASE ref \in DOMAIN record /\ record'[ref] = record[ref]
          BY <4>1, <4>2 DEF RecordsAccountedFor
        <4>3. CASE ~(ref \in DOMAIN record /\ record'[ref] = record[ref])
          <5>1. /\ \E i \in DOMAIN c.cands : record'[ref].candidate = c.cands[i]
                /\ \/ record'[ref].rights = c.source
                   \/ /\ ref \in DOMAIN record
                      /\ record'[ref].rights = record[ref].rights
            BY <3>1, <4>3, StagedRows
          <5>2. record'[ref].candidate \in ToSet(c.cands)
            BY <3>2, <5>1
          <5>3. \E d \in runs' : d.source = record'[ref].rights
            BY <4>1, <5>1 DEF RecordsAccountedFor
          <5> QED BY <4>1, <5>2, <5>3
        <4> QED BY <4>2, <4>3
      <3> QED BY <3>3 DEF RecordsAccountedFor
    <2> QED BY <2>2, <2>3
  <1>2. CASE \A s \in Sessions : ~Store(s)
    <2>1. UNCHANGED <<record, runs>>
      BY <1>2 DEF Next, vars, Review, Publish, NextDay, Check, Fail
    <2> QED BY <2>1 DEF RecordsAccountedFor
  <1> QED BY <1>1, <1>2

(***************************************************************************)
(* What a record shows was staged by a stored run, and a stored run has    *)
(* the rights it was created with, however requests, replays and           *)
(* rollbacks interleave.                                                   *)
(***************************************************************************)
THEOREM RecordsOwed == Spec => []RecordsAccountedFor
  <1>1. Init => RecordsAccountedFor
    BY DEF Init, RecordsAccountedFor
  <1> QED BY <1>1, AccountedNext, TypeInit, TypeNext, PTL DEF Spec

-----------------------------------------------------------------------------
(***************************************************************************)
(* What a request read stays valid to a day: it began on an approved day,  *)
(* and no second midnight passes before it ends.                           *)
(***************************************************************************)
LEMMA ReviewedNext == TypeInv /\ Reviewed /\ [Next]_vars => Reviewed'
  <1> SUFFICES ASSUME TypeOK, Placed, Reviewed, [Next]_vars PROVE Reviewed'
    BY DEF TypeInv
  <1>0. today \in Nat
    BY WebsiteAssumption DEF TypeOK
  <1>1. ASSUME NEW s \in Sessions, Check(s) PROVE Reviewed'
    <2>1. /\ registry.sound /\ registry.covers /\ registry.reviewed <= today
          /\ today - registry.reviewed <= ReviewDays
      BY <1>1 DEF Check, Allowed
    <2>2. session' = [session EXCEPT ![s] =
            [source |-> registry, cands |-> Candidates(page), since |-> today]]
          /\ today' = today
      BY <1>1 DEF Check
    <2>3. session'[s].source = registry /\ session'[s].since = today
      BY <2>2 DEF Placed
    <2>4. \A t \in Sessions \ {s} : session'[t] = session[t]
      BY <2>2 DEF Placed
    <2>5. today <= today /\ today - today <= 1
      BY <1>0
    <2> QED BY <2>1, <2>2, <2>3, <2>4, <2>5 DEF Reviewed
  <1>2. ASSUME NEW s \in Sessions, Store(s) \/ Fail(s) PROVE Reviewed'
    <2>1. \A t \in Sessions : session'[t] \in {Null, session[t]} /\ today' = today
      BY <1>2 DEF Store, Fail, Placed
    <2> QED BY <2>1 DEF Reviewed
  <1>3. CASE NextDay
    <2>1. ASSUME NEW s \in Sessions, session'[s] # Null
          PROVE  /\ session' = session /\ session[s].since = today
                 /\ session[s].since <= today' /\ today' - session[s].since <= 1
      BY <1>0, <1>3, <2>1 DEF NextDay
    <2> QED BY <2>1 DEF Reviewed
  <1>4. CASE UNCHANGED <<session, today>>
    BY <1>4 DEF Reviewed
  <1> QED BY <1>1, <1>2, <1>3, <1>4 DEF Next, vars, Review, Publish

(***************************************************************************)
(* A record that appears was allowed when its registry entry was read.     *)
(***************************************************************************)
LEMMA NewRecord ==
  ASSUME TypeInv, Reviewed, [Next]_vars,
         NEW ref \in DOMAIN record' \ DOMAIN record
  PROVE  ReviewedInTime(record'[ref].rights)
  <1>1. PICK s \in Sessions : Store(s)
    <2>1. record' # record
      OBVIOUS
    <2> QED BY <2>1 DEF Next, vars, Review, Publish, NextDay, Check, Fail
  <1>2. record' = Staged(Command(s)) /\ Command(s).source = session[s].source
        /\ session[s] # Null
    BY <1>1 DEF Store, Command
  <1>3. record'[ref].rights = session[s].source
    BY <1>2, StagedRows
  <1> DEFINE read == session[s]
  <1>4. /\ read.source.sound /\ read.source.covers
        /\ read.source.reviewed <= read.since
        /\ read.since - read.source.reviewed <= ReviewDays
        /\ read.since <= today /\ today - read.since <= 1
    BY <1>2 DEF Reviewed
  <1>5. read.source.reviewed \in Int /\ read.since \in Int /\ today \in Int
    <2>1. read.source \in Entry /\ read.since \in 0..today /\ today \in 0..MaxDay
      BY <1>2 DEF TypeInv, TypeOK
    <2>2. read.source.reviewed \in Reviews
      <3> HIDE DEF read
      <3> QED BY <2>1 DEF Entry
    <2>3. Reviews \subseteq Int /\ MaxDay \in Nat
      BY WebsiteAssumption
    <2> HIDE DEF read
    <2>4. today \in Int
      BY <2>1, <2>3
    <2>5. read.since \in Int
      BY <2>1, <2>4
    <2> QED BY <2>2, <2>3, <2>4, <2>5
  <1> HIDE DEF read
  <1>6. read.source.reviewed <= today /\ today - read.source.reviewed <= ReviewDays + 1
    BY <1>4, <1>5, WebsiteAssumption
  <1>7. record'[ref].rights = read.source
    BY <1>3 DEF read
  <1> QED BY <1>4, <1>6, <1>7 DEF ReviewedInTime

(***************************************************************************)
(* Nothing is staged without a sound entry and a review that was valid     *)
(* when the request began, though the registry was read before the wait    *)
(* for the lock and may have changed since.                                *)
(***************************************************************************)
THEOREM ReviewHolds == Spec => StagedUnderReview
  <1>1. Init => Reviewed
    BY DEF Init, Reviewed
  <1>2. TypeInv /\ Reviewed /\ [Next]_vars =>
          [\A ref \in DOMAIN record' \ DOMAIN record :
              ReviewedInTime(record'[ref].rights)]_vars
    BY NewRecord
  <1> QED BY <1>1, <1>2, ReviewedNext, TypeInit, TypeNext, PTL
          DEF Spec, StagedUnderReview
==============================================================================
