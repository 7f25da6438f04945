-------------------------- MODULE BackOfficeProofs --------------------------
(***************************************************************************)
(* What holds of the request limit and of a walk through a list for every  *)
(* limit, window, table and sequence of writes.                            *)
(***************************************************************************)
EXTENDS BackOffice, FiniteSetTheorems, TLAPS

(***************************************************************************)
(* What a step does to the limit, whatever else it does.                   *)
(***************************************************************************)
GuardStep == Accept \/ Refuse \/ RestartServer \/ Tick \/ UNCHANGED guard

GuardInv == GuardTypeOK /\ CountIsExact /\ WindowHeld

LEMMA StepsOfTheGuard == [Next]_vars => GuardStep
  BY DEF Next, vars, ReadPage, TooFar, Write, GuardStep

LEMMA GuardTypeInit == GuardInit => GuardInv
  <1> SUFFICES ASSUME GuardInit PROVE GuardInv
    OBVIOUS
  <1>1. GuardTypeOK /\ CountIsExact
    BY DEF GuardInit, GuardTypeOK, CountIsExact, Recent
  <1>2. \A s : {n \in 1..Len(at) : s <= at[n] /\ at[n] < s + Window} = {}
    BY DEF GuardInit
  <1>3. WindowHeld
    BY <1>2, FS_EmptySet, GuardAssumption DEF WindowHeld
  <1> QED BY <1>1, <1>3 DEF GuardInv

(***************************************************************************)
(* An accepted request takes the next number and the time of the clock.    *)
(***************************************************************************)
LEMMA Accepted ==
  ASSUME GuardTypeOK, Accept
  PROVE  LET n == Len(at) + 1
         IN  /\ Len(at) \in Nat /\ Len(at') = n /\ at' \in Seq(Nat) /\ at'[n] = now
             /\ \A m \in 1..Len(at) : at'[m] = at[m]
             /\ requests' = Recent \cup {n} /\ Recent \subseteq 1..Len(at)
             /\ now' = now /\ Cardinality(Recent) < Limit
  <1>1. at \in Seq(Nat) /\ now \in Nat /\ requests \subseteq 1..Len(at)
    BY DEF GuardTypeOK
  <1>2. at' = Append(at, now) /\ requests' = Recent \cup {Len(at) + 1}
        /\ now' = now /\ Cardinality(Recent) < Limit
    BY DEF Accept
  <1>3. Recent \subseteq 1..Len(at)
    BY <1>1 DEF Recent
  <1> QED BY <1>1, <1>2, <1>3

LEMMA GuardTypeStep == GuardTypeOK /\ GuardStep => GuardTypeOK'
  <1> SUFFICES ASSUME GuardTypeOK, GuardStep PROVE GuardTypeOK'
    OBVIOUS
  <1>1. CASE Accept
    <2> DEFINE n == Len(at) + 1
    <2>1. /\ Len(at) \in Nat /\ Len(at') = n /\ at' \in Seq(Nat) /\ at'[n] = now
          /\ \A m \in 1..Len(at) : at'[m] = at[m]
          /\ requests' = Recent \cup {n} /\ Recent \subseteq 1..Len(at)
          /\ now' = now
      BY <1>1, Accepted
    <2>2. \A m \in 1..Len(at) : at[m] \in Nat
      BY DEF GuardTypeOK
    <2>3. ASSUME NEW m \in 1..n, NEW k \in 1..n, m <= k
          PROVE  at'[m] <= at'[k] /\ at'[k] <= now
      <3>1. now \in Nat /\ \A i, j \in 1..Len(at) : i <= j => at[i] <= at[j] /\ at[j] <= now
        BY DEF GuardTypeOK
      <3>2. CASE k \in 1..Len(at)
        <4>1. m \in 1..Len(at) /\ at'[m] = at[m] /\ at'[k] = at[k]
          BY <3>2, <2>1, <2>3
        <4> QED BY <4>1, <3>1, <3>2, <2>3
      <3>3. CASE k = n
        <4>1. m \in 1..Len(at) => at'[m] <= now
          BY <2>1, <2>2, <3>1
        <4>2. m \notin 1..Len(at) => m = n
          BY <2>1
        <4> QED BY <4>1, <4>2, <3>3, <3>1, <2>1
      <3>4. k \in 1..Len(at) \/ k = n
        BY <2>1
      <3> QED BY <3>2, <3>3, <3>4
    <2>4. now \in Nat /\ n \in 1..n /\ 1..Len(at) \subseteq 1..n
      BY <2>1 DEF GuardTypeOK
    <2> HIDE DEF n
    <2>5. requests' \subseteq 1..Len(at') /\ now' \in Nat
      BY <2>1, <2>4
    <2> QED BY <2>1, <2>3, <2>5 DEF GuardTypeOK
  <1>2. CASE Tick
    BY <1>2 DEF Tick, GuardTypeOK
  <1>3. CASE Refuse \/ UNCHANGED guard
    BY <1>3 DEF Refuse, Recent, GuardTypeOK, guard
  <1>4. CASE RestartServer
    <2>1. at' = << >> /\ requests' = {} /\ now' = now
      BY <1>4 DEF RestartServer
    <2>2. at' \in Seq(Nat) /\ 1..Len(at') = {}
      BY <2>1
    <2> QED BY <2>1, <2>2 DEF GuardTypeOK
  <1> QED BY <1>1, <1>2, <1>3, <1>4 DEF GuardStep

LEMMA CountStep == GuardTypeOK /\ CountIsExact /\ GuardStep => CountIsExact'
  <1> SUFFICES ASSUME GuardTypeOK, CountIsExact, GuardStep PROVE CountIsExact'
    OBVIOUS
  <1>0. now \in Nat /\ \A m \in 1..Len(at) : at[m] \in Nat
    BY DEF GuardTypeOK
  <1>1. CASE Accept
    <2>1. /\ Len(at) \in Nat /\ Len(at') = Len(at) + 1 /\ at'[Len(at) + 1] = now
          /\ \A m \in 1..Len(at) : at'[m] = at[m]
          /\ requests' = Recent \cup {Len(at) + 1} /\ now' = now
      BY <1>1, Accepted
    <2> QED BY <2>1, <1>0, GuardAssumption DEF CountIsExact, Recent
  <1>2. CASE Tick
    <2>1. now' = now + 1 /\ at' = at /\ requests' = requests
      BY <1>2 DEF Tick
    <2>2. requests \subseteq 1..Len(at)
      BY DEF GuardTypeOK
    <2>3. ASSUME NEW n \in 1..Len(at), (now + 1) - at[n] < Window
          PROVE  n \in requests
      <3>1. now - at[n] < Window
        BY <1>0, <2>3, GuardAssumption
      <3> QED BY <3>1 DEF CountIsExact, Recent
    <2>4. Recent' = {n \in requests : (now + 1) - at[n] < Window}
      BY <2>1 DEF Recent
    <2> QED BY <2>1, <2>2, <2>3, <2>4 DEF CountIsExact
  <1>3. CASE Refuse \/ UNCHANGED guard
    BY <1>3 DEF Refuse, CountIsExact, Recent, guard
  <1>4. CASE RestartServer
    BY <1>4 DEF RestartServer, CountIsExact, Recent
  <1> QED BY <1>1, <1>2, <1>3, <1>4 DEF GuardStep

(***************************************************************************)
(* The span that ends with the request just accepted saw those the array   *)
(* counted and this one; any other span sees what it saw before.           *)
(***************************************************************************)
LEMMA WindowStep == GuardInv /\ GuardStep => WindowHeld'
  <1> SUFFICES ASSUME GuardInv, GuardStep, NEW s \in 0..now'
               PROVE  Cardinality({n \in 1..Len(at') : s <= at'[n] /\ at'[n] < s + Window})
                        <= Limit
    BY DEF WindowHeld
  <1> DEFINE Span == {n \in 1..Len(at) : s <= at[n] /\ at[n] < s + Window}
             SpanAfter == {n \in 1..Len(at') : s <= at'[n] /\ at'[n] < s + Window}
  <1>0. now \in Nat /\ Len(at) \in Nat /\ \A m \in 1..Len(at) : at[m] \in Nat /\ at[m] <= now
    BY DEF GuardInv, GuardTypeOK
  <1>1. s \in 0..now => Cardinality(Span) <= Limit
    BY DEF GuardInv, WindowHeld
  <1>2. CASE Accept
    <2> DEFINE k == Len(at) + 1
    <2>1. /\ Len(at') = k /\ at'[k] = now /\ \A m \in 1..Len(at) : at'[m] = at[m]
          /\ Recent \subseteq 1..Len(at) /\ Cardinality(Recent) < Limit /\ now' = now
      BY <1>2, Accepted DEF GuardInv
    <2>2. CASE now < s + Window
      <3>1. Recent = {n \in 1..Len(at) : now - at[n] < Window}
        BY DEF GuardInv, CountIsExact
      <3>2. SpanAfter \subseteq Recent \cup {k}
        BY <2>1, <2>2, <3>1, <1>0, GuardAssumption
      <3>3. IsFiniteSet(Recent) /\ k \notin Recent
        <4>1. IsFiniteSet(1..Len(at))
          BY <1>0, FS_Interval
        <4>2. k \notin 1..Len(at)
          BY <1>0
        <4> HIDE DEF k
        <4> QED BY <4>1, <4>2, <2>1, FS_Subset
      <3>4. /\ IsFiniteSet(Recent \cup {k})
            /\ Cardinality(Recent \cup {k}) = Cardinality(Recent) + 1
        BY <3>3, FS_AddElement
      <3>5. /\ Cardinality(SpanAfter) <= Cardinality(Recent \cup {k})
            /\ Cardinality(SpanAfter) \in Nat /\ Cardinality(Recent) \in Nat
        BY <3>2, <3>3, <3>4, FS_Subset, FS_CardinalityType
      <3> QED BY <3>4, <3>5, <2>1, GuardAssumption
    <2>3. CASE ~(now < s + Window)
      <3>1. SpanAfter = Span
        BY <2>1, <2>3, <1>0
      <3> QED BY <3>1, <1>1, <2>1
    <2> QED BY <2>2, <2>3
  <1>3. CASE Refuse \/ UNCHANGED guard
    BY <1>1, <1>3 DEF Refuse, guard
  <1>4. CASE Tick
    <2>1. CASE s \in 0..now
      BY <2>1, <1>1, <1>4 DEF Tick
    <2>2. CASE s \notin 0..now
      <3>1. s = now + 1 /\ at' = at
        BY <2>2, <1>0, <1>4 DEF Tick
      <3>2. SpanAfter = {}
        BY <3>1, <1>0
      <3> QED BY <3>2, FS_EmptySet, GuardAssumption
    <2> QED BY <2>1, <2>2
  <1>5. CASE RestartServer
    <2>1. SpanAfter = {}
      BY <1>5 DEF RestartServer
    <2> QED BY <2>1, FS_EmptySet, GuardAssumption
  <1> QED BY <1>2, <1>3, <1>4, <1>5 DEF GuardStep

LEMMA GuardAlways == Spec => []GuardInv
  <1>1. Init => GuardInv
    BY GuardTypeInit DEF Init
  <1>2. GuardInv /\ [Next]_vars => GuardInv'
    BY StepsOfTheGuard, GuardTypeStep, CountStep, WindowStep DEF GuardInv
  <1> QED BY <1>1, <1>2, PTL DEF Spec

(***************************************************************************)
(* However requests come and wherever a window begins, it never sees more  *)
(* than Limit of them pass; and what a refusal was decided on is exactly   *)
(* those that passed less than Window ago.                                 *)
(***************************************************************************)
THEOREM LimitHolds == Spec => []WindowHeld
  <1>1. GuardInv => WindowHeld
    BY DEF GuardInv
  <1> QED BY <1>1, GuardAlways, PTL

THEOREM RefusalsAreFair == Spec => []CountIsExact
  <1>1. GuardInv => CountIsExact
    BY DEF GuardInv
  <1> QED BY <1>1, GuardAlways, PTL

-----------------------------------------------------------------------------
(* The walk. *)

(***************************************************************************)
(* The table and the walk keep their shape.                                *)
(***************************************************************************)
LEMMA TypeInit == Init => TypeOK
  <1> SUFFICES ASSUME Init PROVE TypeOK
    OBVIOUS
  <1>1. GuardTypeOK /\ now = 0
    BY GuardTypeInit DEF Init, GuardInit, GuardInv
  <1>2. PICK S \in SUBSET Ids : rows \in [S -> [updatedAt : {0}, status : Statuses]]
    BY DEF Init
  <1>3. /\ DOMAIN rows \subseteq Ids /\ rows \in [DOMAIN rows -> Row]
        /\ \A x \in DOMAIN rows : rows[x].updatedAt <= now
    BY <1>1, <1>2 DEF Row
  <1>4. walk \in Walk
    BY <1>3 DEF Init, Walk, Wanted
  <1> QED BY <1>1, <1>3, <1>4 DEF TypeOK

(***************************************************************************)
(* What the list holds is finite, and a row's rank in it is the number of  *)
(* rows ahead, the row itself not among them.                              *)
(***************************************************************************)
LEMMA WantedFinite ==
  ASSUME TypeOK, NEW w
  PROVE  /\ IsFiniteSet(Wanted(w.list, w.status))
         /\ Cardinality(Wanted(w.list, w.status)) \in Nat
         /\ \A x : /\ IsFiniteSet({y \in Wanted(w.list, w.status) : Ahead(w.list, y, x)})
                   /\ Rank(w, x) \in Nat
  <1>1. Wanted(w.list, w.status) \in SUBSET Ids
    BY DEF TypeOK, Wanted
  <1>2. IsFiniteSet(Wanted(w.list, w.status))
    BY <1>1, FS_Subset, BackOfficeAssumption
  <1>3. Cardinality(Wanted(w.list, w.status)) \in Nat
    BY <1>2, FS_CardinalityType
  <1>4. ASSUME NEW x
        PROVE  /\ IsFiniteSet({y \in Wanted(w.list, w.status) : Ahead(w.list, y, x)})
               /\ Rank(w, x) \in Nat
    <2> DEFINE W == Wanted(w.list, w.status)
               A == {y \in W : Ahead(w.list, y, x)}
    <2>1. A \in SUBSET W
      OBVIOUS
    <2> HIDE DEF W, A
    <2>2. IsFiniteSet(W)
      BY <1>2 DEF W
    <2>3. IsFiniteSet(A)
      BY <2>1, <2>2, FS_Subset
    <2>4. Cardinality(A) \in Nat
      BY <2>3, FS_CardinalityType
    <2> QED BY <2>3, <2>4 DEF A, W, Rank
  <1> QED BY <1>2, <1>3, <1>4

LEMMA TypeNext == TypeOK /\ [Next]_vars => TypeOK'
  <1> SUFFICES ASSUME TypeOK, [Next]_vars PROVE TypeOK'
    OBVIOUS
  <1>1. GuardTypeOK'
    BY StepsOfTheGuard, GuardTypeStep DEF TypeOK
  <1>2. now \in Nat /\ now' \in Nat /\ now <= now'
    BY <1>1, StepsOfTheGuard
    DEF TypeOK, GuardTypeOK, GuardStep, Accept, Refuse, RestartServer, Tick, guard
  <1>3. CASE ReadPage
    <2>1. NextOffset(walk) \in Nat /\ More(walk) \in BOOLEAN /\ Page(walk) \subseteq Ids
      <3>1. walk.offset \in Nat /\ walk.limit \in Nat
        BY BackOfficeAssumption DEF TypeOK, Walk
      <3>2. NextOffset(walk) \in Nat
        BY <3>1 DEF NextOffset
      <3>3. More(walk) \in BOOLEAN
        <4> DEFINE size == Cardinality(Wanted(walk.list, walk.status))
                   bound == walk.offset + walk.limit
        <4>1. size \in Nat /\ bound \in Nat
          BY <3>1, WantedFinite
        <4>2. More(walk) = IF walk.list = "websites" THEN size >= bound ELSE size > bound
          BY Zenon DEF More
        <4> HIDE DEF size, bound
        <4>3. (size >= bound) \in BOOLEAN /\ (size > bound) \in BOOLEAN
          BY <4>1
        <4> QED BY <4>2, <4>3, Zenon
      <3>4. Page(walk) \subseteq Ids
        BY DEF Page, Wanted, TypeOK
      <3> QED BY <3>2, <3>3, <3>4
    <2> QED BY <1>1, <1>2, <1>3, <2>1 DEF ReadPage, TypeOK, Walk, Accept
  <1>4. ASSUME NEW x \in Ids, NEW time \in 0..now, NEW status \in Statuses,
               Write(x, time, status)
        PROVE  TypeOK'
    <2>1. time \in Nat /\ time <= now'
      BY <1>2
    <2>2. /\ DOMAIN rows' \subseteq Ids /\ rows' \in [DOMAIN rows' -> Row]
          /\ \A y \in DOMAIN rows' : rows'[y].updatedAt <= now'
      <3>1. DOMAIN rows' = DOMAIN rows \cup {x}
        BY <1>4 DEF Write
      <3>2. ASSUME NEW y \in DOMAIN rows'
            PROVE  rows'[y] \in Row /\ rows'[y].updatedAt <= now'
        <4>1. CASE y = x
          BY <4>1, <3>1, <1>4, <2>1 DEF Write, Row
        <4>2. CASE y # x
          <5>1. rows'[y] = rows[y] /\ y \in DOMAIN rows
            BY <4>2, <3>1, <1>4 DEF Write
          <5>2. rows[y] \in Row /\ rows[y].updatedAt <= now
            BY <5>1 DEF TypeOK
          <5>3. rows[y].updatedAt \in Nat
            BY <5>2 DEF Row
          <5> QED BY <5>1, <5>2, <5>3, <1>2
        <4> QED BY <4>1, <4>2
      <3>3. rows' = [y \in DOMAIN rows' |-> rows'[y]]
        BY <1>4 DEF Write
      <3> QED BY <3>1, <3>2, <3>3 DEF TypeOK
    <2>3. walk' \in Walk
      BY <1>4 DEF Write, TypeOK, Walk
    <2> QED BY <1>1, <2>2, <2>3 DEF TypeOK
  <1>5. CASE UNCHANGED <<rows, walk>>
    <2>1. \A x \in DOMAIN rows : rows[x].updatedAt \in Nat
      BY DEF TypeOK, Row
    <2> QED BY <1>1, <1>2, <1>5, <2>1 DEF TypeOK
  <1> QED BY <1>3, <1>4, <1>5 DEF Next, TooFar, vars

LEMMA RankBelowSize ==
  ASSUME TypeOK, NEW w, NEW x \in Wanted(w.list, w.status)
  PROVE  Rank(w, x) < Cardinality(Wanted(w.list, w.status))
  <1> DEFINE W == Wanted(w.list, w.status)
             A == {y \in W : Ahead(w.list, y, x)}
  <1>1. ~Ahead(w.list, x, x)
    <2>1. x \in Nat /\ rows[x].updatedAt \in Nat
      BY BackOfficeAssumption DEF TypeOK, Wanted, Row
    <2> QED BY <2>1 DEF Ahead
  <1>2. A \in SUBSET (W \ {x})
    BY <1>1
  <1>3. IsFiniteSet(W) /\ x \in W
    BY WantedFinite
  <1>4. Rank(w, x) = Cardinality(A)
    BY DEF Rank
  <1> HIDE DEF W, A
  <1>5. IsFiniteSet(W \ {x}) /\ Cardinality(W \ {x}) = Cardinality(W) - 1
    BY <1>3, FS_RemoveElement
  <1>6. Cardinality(A) <= Cardinality(W \ {x}) /\ IsFiniteSet(A)
    BY <1>2, <1>5, FS_Subset
  <1>7. Cardinality(A) \in Nat /\ Cardinality(W) \in Nat
    BY <1>3, <1>6, FS_CardinalityType
  <1> QED BY <1>4, <1>5, <1>6, <1>7 DEF W

(***************************************************************************)
(* A row that was there at the start and that nobody wrote is still on the *)
(* list; it was shown or it lies ahead.  After the last page the offset    *)
(* has passed the whole list.  As long as nothing was written, what was    *)
(* shown lies behind the offset.                                           *)
(***************************************************************************)
Listed == Wanted(walk.list, walk.status)

Covered ==
  ~walk.left => \A x \in walk.due \ walk.touched :
                   x \in Listed /\ (x \in walk.seen \/ Rank(walk, x) >= walk.offset)

AtEnd == ~walk.more => Cardinality(Listed) <= walk.offset

Behind ==
  walk.touched = {} => /\ ~walk.twice
                       /\ \A x \in walk.seen : x \in Listed /\ Rank(walk, x) < walk.offset

WalkInv == TypeOK /\ Covered /\ AtEnd /\ Behind

LEMMA SameRows ==
  ASSUME UNCHANGED rows, walk'.list = walk.list, walk'.status = walk.status
  PROVE  Listed' = Listed /\ \A x : Rank(walk, x)' = Rank(walk, x)
  BY DEF Listed, Wanted, Rank, Ahead

LEMMA WalkInit == Init => WalkInv
  <1> SUFFICES ASSUME Init PROVE WalkInv
    OBVIOUS
  <1>1. TypeOK
    BY TypeInit
  <1>2. /\ walk.due = Listed /\ walk.seen = {} /\ ~walk.twice /\ walk.more
        /\ walk.offset = 0
    BY DEF Init, Listed
  <1>3. \A x : Rank(walk, x) \in Nat
    BY <1>1, WantedFinite
  <1> QED BY <1>1, <1>2, <1>3 DEF WalkInv, Covered, AtEnd, Behind

(***************************************************************************)
(* A page shows the rows from the offset to the next one.                  *)
(***************************************************************************)
LEMMA PageStep ==
  ASSUME WalkInv, ReadPage
  PROVE  Covered' /\ AtEnd' /\ Behind'
  <1>1. walk.offset \in Nat /\ walk.limit \in Nat \ {0}
    BY BackOfficeAssumption DEF WalkInv, TypeOK, Walk
  <1>2. /\ walk'.list = walk.list /\ walk'.status = walk.status
        /\ walk'.due = walk.due /\ walk'.touched = walk.touched /\ walk'.left = walk.left
        /\ walk'.offset = walk.offset + walk.limit /\ walk'.more = More(walk)
        /\ walk'.seen = walk.seen \cup Page(walk)
        /\ walk'.twice = (walk.twice \/ Page(walk) \cap walk.seen # {})
        /\ rows' = rows
    BY DEF ReadPage, NextOffset, WalkInv, TypeOK, Walk
  <1>3. Listed' = Listed /\ \A x : Rank(walk, x)' = Rank(walk, x)
    BY <1>2, SameRows
  <1>4. /\ \A x \in Listed : Rank(walk, x) \in Nat
        /\ Cardinality(Listed) \in Nat
    BY WantedFinite DEF WalkInv, Listed
  <1>5. Page(walk) = {x \in Listed : /\ walk.offset <= Rank(walk, x)
                                     /\ Rank(walk, x) < walk.offset + walk.limit}
    BY DEF Page, Listed
  <1>6. Covered'
    BY <1>1, <1>2, <1>3, <1>4, <1>5 DEF WalkInv, Covered
  <1>7. AtEnd'
    <2> SUFFICES ASSUME ~More(walk)
                 PROVE  Cardinality(Listed) <= walk.offset + walk.limit
      BY <1>2, <1>3 DEF AtEnd
    <2> QED BY <1>1, <1>4 DEF More, Listed
  <1>8. Behind'
    <2> SUFFICES ASSUME walk.touched = {}
                 PROVE  /\ ~(walk.twice \/ Page(walk) \cap walk.seen # {})
                        /\ \A x \in walk.seen \cup Page(walk) :
                              x \in Listed /\ Rank(walk, x) < walk.offset + walk.limit
      BY <1>2, <1>3 DEF Behind
    <2>1. ~walk.twice /\ \A x \in walk.seen : x \in Listed /\ Rank(walk, x) < walk.offset
      BY DEF WalkInv, Behind
    <2> QED BY <2>1, <1>1, <1>4, <1>5
  <1> QED BY <1>6, <1>7, <1>8

(***************************************************************************)
(* A write moves its row to the front, or leaves it there: whoever was     *)
(* behind it stays behind it, unless the row leaves the list.              *)
(***************************************************************************)
LEMMA WriteMovesAhead ==
  ASSUME TypeOK, TypeOK', NEW x \in Ids, NEW time \in 0..now, NEW status \in Statuses,
         Write(x, time, status), ~walk'.left, NEW y \in Listed, y # x
  PROVE  y \in Listed' /\ Rank(walk, y) <= Rank(walk, y)' /\ Rank(walk, y)' \in Nat
  <1> DEFINE A == {z \in Listed : Ahead(walk.list, z, y)}
  <1>1. /\ walk'.list = walk.list /\ walk'.status = walk.status /\ ~walk.left
        /\ ~(/\ x \in Listed /\ walk.list = "restaurants"
             /\ walk.status \notin {Any, status})
    BY DEF Write, TypeOK, Walk, Listed
  <1>2. /\ DOMAIN rows' = DOMAIN rows \cup {x}
        /\ rows'[x] = [updatedAt |-> time, status |-> status]
        /\ \A z \in DOMAIN rows : z # x => rows'[z] = rows[z]
        /\ x \in DOMAIN rows => rows[x].updatedAt <= time
    BY DEF Write
  <1>3. time \in Nat /\ x \in Nat /\ y \in Nat /\ y \in DOMAIN rows
        /\ \A z \in DOMAIN rows : rows[z].updatedAt \in Nat
    BY BackOfficeAssumption DEF TypeOK, GuardTypeOK, Listed, Wanted, Row
  <1>4. Listed \subseteq Listed'
    <2> SUFFICES ASSUME NEW z \in Listed PROVE z \in Listed'
      OBVIOUS
    <2>1. CASE z = x
      BY <2>1, <1>1, <1>2 DEF Listed, Wanted
    <2>2. CASE z # x
      BY <2>2, <1>1, <1>2 DEF Listed, Wanted
    <2> QED BY <2>1, <2>2
  <1>5. ASSUME NEW z \in A
        PROVE  Ahead(walk.list, z, y)'
    <2>1. z \in DOMAIN rows /\ Ahead(walk.list, z, y) /\ rows'[y] = rows[y]
      BY <1>2, <1>3 DEF Listed, Wanted
    <2>2. CASE walk.list = "websites"
      BY <2>1, <2>2, <1>1 DEF Ahead
    <2>3. CASE walk.list # "websites" /\ z # x
      BY <2>1, <2>3, <1>1, <1>2 DEF Ahead
    <2>4. CASE walk.list # "websites" /\ z = x
      <3>1. rows'[z].updatedAt = time /\ rows[z].updatedAt <= time
        BY <2>1, <2>4, <1>2
      <3> QED BY <3>1, <2>1, <2>4, <1>1, <1>3 DEF Ahead
    <2> QED BY <2>2, <2>3, <2>4
  <1> DEFINE B == {z \in Listed' : Ahead(walk.list, z, y)'}
  <1>6. A \in SUBSET B
    BY <1>4, <1>5
  <1>7. IsFiniteSet(B)
    <2>1. Listed' \subseteq Ids
      BY DEF Listed, Wanted, TypeOK
    <2>2. B \in SUBSET Ids
      BY <2>1
    <2> QED BY <2>2, FS_Subset, BackOfficeAssumption
  <1>8. Rank(walk, y) = Cardinality(A) /\ Rank(walk, y)' = Cardinality(B)
    BY DEF Rank, Listed
  <1> HIDE DEF A, B
  <1>9. Cardinality(A) <= Cardinality(B) /\ Cardinality(B) \in Nat
    BY <1>6, <1>7, FS_Subset, FS_CardinalityType
  <1> QED BY <1>4, <1>8, <1>9

LEMMA WriteStep ==
  ASSUME WalkInv, TypeOK', NEW x \in Ids, NEW time \in 0..now, NEW status \in Statuses,
         Write(x, time, status)
  PROVE  Covered' /\ AtEnd' /\ Behind'
  <1>1. /\ walk.more /\ walk'.more = walk.more /\ walk'.due = walk.due
        /\ walk'.seen = walk.seen /\ walk'.offset = walk.offset
        /\ walk'.touched = walk.touched \cup {x} /\ walk'.left \in BOOLEAN
        /\ ~walk'.left => ~walk.left
    BY DEF Write, WalkInv, TypeOK, Walk
  <1>2. AtEnd' /\ Behind'
    BY <1>1 DEF AtEnd, Behind
  <1>3. Covered'
    <2> SUFFICES ASSUME ~walk'.left, NEW y \in walk.due \ (walk.touched \cup {x})
                 PROVE  /\ y \in Listed'
                        /\ y \in walk.seen \/ Rank(walk, y)' >= walk.offset
      BY <1>1 DEF Covered
    <2>1. y \in Listed /\ (y \in walk.seen \/ Rank(walk, y) >= walk.offset) /\ y # x
      BY <1>1 DEF WalkInv, Covered
    <2>2. y \in Listed' /\ Rank(walk, y) <= Rank(walk, y)' /\ Rank(walk, y)' \in Nat
      BY <2>1, WriteMovesAhead DEF WalkInv
    <2>3. Rank(walk, y) \in Nat /\ walk.offset \in Nat
      BY WantedFinite DEF WalkInv, TypeOK, Walk
    <2> QED BY <2>1, <2>2, <2>3
  <1> QED BY <1>2, <1>3

LEMMA WalkNext == WalkInv /\ [Next]_vars => WalkInv'
  <1> SUFFICES ASSUME WalkInv, [Next]_vars PROVE WalkInv'
    OBVIOUS
  <1>1. TypeOK'
    BY TypeNext DEF WalkInv
  <1>2. CASE ReadPage
    BY <1>1, <1>2, PageStep DEF WalkInv
  <1>3. ASSUME NEW x \in Ids, NEW time \in 0..now, NEW status \in Statuses,
               Write(x, time, status)
        PROVE  WalkInv'
    BY <1>1, <1>3, WriteStep DEF WalkInv
  <1>4. CASE UNCHANGED <<rows, walk>>
    <2>1. Listed' = Listed /\ \A x : Rank(walk, x)' = Rank(walk, x)
      BY <1>4, SameRows
    <2> QED BY <1>1, <1>4, <2>1 DEF WalkInv, Covered, AtEnd, Behind
  <1> QED BY <1>2, <1>3, <1>4 DEF Next, TooFar, vars

LEMMA WalkAlways == Spec => []WalkInv
  BY WalkInit, WalkNext, PTL DEF Spec

THEOREM TypeCorrect == Spec => []TypeOK
  <1>1. WalkInv => TypeOK
    BY DEF WalkInv
  <1> QED BY <1>1, WalkAlways, PTL

(***************************************************************************)
(* A walk that ends showed every row that was there and that nobody wrote, *)
(* however many were written meanwhile; without a write it shows none      *)
(* twice.                                                                  *)
(***************************************************************************)
THEOREM WalkComplete == Spec => []WalkMissesNothing
  <1>1. WalkInv => WalkMissesNothing
    <2> SUFFICES ASSUME WalkInv, ~walk.more, ~walk.left,
                        NEW x \in walk.due \ walk.touched
                 PROVE  x \in walk.seen
      BY DEF WalkMissesNothing
    <2>1. x \in Listed /\ (x \in walk.seen \/ Rank(walk, x) >= walk.offset)
          /\ Cardinality(Listed) <= walk.offset
      BY DEF WalkInv, Covered, AtEnd
    <2>2. Rank(walk, x) < Cardinality(Listed)
      BY <2>1, RankBelowSize DEF WalkInv, Listed
    <2>3. Rank(walk, x) \in Nat /\ Cardinality(Listed) \in Nat /\ walk.offset \in Nat
      BY WantedFinite DEF WalkInv, TypeOK, Walk, Listed
    <2> QED BY <2>1, <2>2, <2>3
  <1> QED BY <1>1, WalkAlways, PTL

THEOREM ShownOnce == Spec => []ShownOnceWhenQuiet
  <1>1. WalkInv => ShownOnceWhenQuiet
    BY DEF WalkInv, Behind, ShownOnceWhenQuiet
  <1> QED BY <1>1, WalkAlways, PTL
=============================================================================
