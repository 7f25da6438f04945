--------------------------- MODULE EditorialProofs ---------------------------
(***************************************************************************)
(* What holds of the editorial workflow for every set of sessions, sheets, *)
(* dishes, bodies and versions: the optimistic version check makes what a  *)
(* handler read, or a client saw, the row that is overwritten.             *)
(***************************************************************************)
EXTENDS Editorial, TLAPS

(***************************************************************************)
(* A session has a screen, a request or a row to commit when its stage     *)
(* says so.                                                                *)
(***************************************************************************)
Shape(s) ==
    /\ stage[s] = "loaded" => screen[s] # Null
    /\ stage[s] \in {"submitted", "read", "written"} => request[s] # Null

(***************************************************************************)
(* A screen shows a row as it is or as it was: at the same version, the    *)
(* same identity.                                                          *)
(***************************************************************************)
ScreenTrue(s) ==
    screen[s] # Null =>
        /\ Row(screen[s].row) # Null
        /\ screen[s].version <= Row(screen[s].row).version
        /\ screen[s].row \in Restaurants =>
              /\ screen[s].identity \in Identities
              /\ screen[s].version = restaurant[screen[s].row].version
                    => screen[s].identity = restaurant[screen[s].row].identity

(***************************************************************************)
(* The row a request names exists, but for a dish to create.  A request    *)
(* that attests vouches for the identity its body names or, as long as the *)
(* version it was sent from is current, for the one the row will have.     *)
(***************************************************************************)
Edits(q) == q.kind \in {"update", "publish", "dish"}

VouchedAsSeen(q) ==
    /\ q.expected <= restaurant[q.target].version
    /\ q.expected = restaurant[q.target].version
       => q.vouched = Or(q.patch.identity, restaurant[q.target].identity)

RequestTrue(s) ==
    LET q == request[s]
    IN  q # Null =>
        /\ Edits(q) => Row(q.target) # Null
        /\ (q.kind = "update" /\ q.patch.verified = TRUE)
           => q.vouched # Null /\ (q.vouched = q.patch.identity \/ VouchedAsSeen(q))
        /\ q.kind = "newDish" => dish[q.target] = Null

(***************************************************************************)
(* What a handler read is a version of the row, and still the row if that  *)
(* version is current.                                                     *)
(***************************************************************************)
CopyTrue(s) ==
    LET q == request[s]
        c == copy[s]
    IN  stage[s] = "read" =>
        /\ q.kind = "update" =>
              /\ c \in UpdateCopy /\ c.version <= restaurant[q.target].version
              /\ c.version = restaurant[q.target].version
                 => c.provenance = restaurant[q.target].provenance
        /\ q.kind = "publish" =>
              /\ c \in PublishCopy /\ c.version <= restaurant[q.target].version
              /\ c.version = restaurant[q.target].version
                 => c.verified = restaurant[q.target].verified
        /\ q.kind = "dish" =>
              /\ c \in DishCopy /\ c.version <= dish[q.target].version
              /\ c.version = dish[q.target].version
                 => c.price = dish[q.target].price /\ c.status = dish[q.target].status

(***************************************************************************)
(* A row written and not committed is the next version of the row, locked  *)
(* by its session, and may be committed without breaking anything, unless  *)
(* it was decided ahead of the row it replaces.                            *)
(***************************************************************************)
SheetSound(s, x, row) ==
    /\ row \in Restaurant
    /\ row.version = restaurant[x].version + 1
    /\ row.status = "PUBLISHED" =>
          restaurant[x].status = "PUBLISHED" \/ row.verified \/ Ahead(s)
    /\ row.verified =>
          row.identity = IF Vouches(s) THEN Or(request[s].vouched, row.identity)
                         ELSE attested[x]
    /\ restaurant[x].provenance # Null =>
          \/ /\ row.provenance # Null
             /\ RootOf(row.provenance) = RootOf(restaurant[x].provenance)
          \/ Ahead(s)

DishSound(s, x, row) ==
    /\ row \in Dish
    /\ row.version = IF dish[x] = Null THEN 1 ELSE dish[x].version + 1
    /\ row.status = "PUBLISHED" => row.price # Null \/ Ahead(s)

SheetPending(s) == SheetSound(s, request[s].target, pending[s])
DishPending(s) == DishSound(s, request[s].target, pending[s])

PendingTrue(s) ==
    stage[s] = "written" =>
        /\ writer[request[s].target] = s
        /\ request[s].target \in Restaurants => SheetPending(s)
        /\ request[s].target \in Dishes => DishPending(s)

SessionTrue(s) ==
    Shape(s) /\ ScreenTrue(s) /\ RequestTrue(s) /\ CopyTrue(s) /\ PendingTrue(s)

(***************************************************************************)
(* A row is locked by the session that wrote it, and a dish is created by  *)
(* one request.                                                            *)
(***************************************************************************)
Locks ==
    \A x \in Rows : writer[x] # Null =>
        stage[writer[x]] = "written" /\ request[writer[x]].target = x

NewDishAlone ==
    \A s, t \in Sessions :
        (/\ s # t /\ request[s] # Null /\ request[t] # Null
         /\ request[s].kind = "newDish")
        => request[t].target # request[s].target

(***************************************************************************)
(* The versions a row has had since the back office edits it.              *)
(***************************************************************************)
EditedVersions(x) ==
    IF x \in Restaurants THEN 2..restaurant[x].version
    ELSE IF dish[x] = Null THEN {} ELSE 1..dish[x].version

AuditTrue ==
    \A x \in Rows, v \in Version : <<x, v>> \in audit <=> v \in EditedVersions(x)

TablesTrue == AuditTrue /\ VerifiedWasSeen /\ PublishedDishPriced

IInv == /\ TypeOK /\ Locks /\ NewDishAlone /\ TablesTrue
        /\ \A s \in Sessions : SessionTrue(s)

-----------------------------------------------------------------------------
LEMMA Kinds ==
    ASSUME NEW q \in Request
    PROVE  /\ q # Null /\ q.target \in Rows
           /\ q.kind \in {"update", "publish", "dish", "newDish"}
           /\ q.kind = "update" => q \in UpdateRequest
           /\ q.kind = "publish" => q \in PublishRequest
           /\ q.kind = "dish" => q \in DishRequest
           /\ q.kind = "newDish" => q \in NewDishRequest
    BY NullsAssumption
    DEF Request, UpdateRequest, PublishRequest, DishRequest, NewDishRequest, Rows

LEMMA RowType ==
    ASSUME TypeOK, NEW x \in Rows
    PROVE  /\ x \in Restaurants => /\ x \notin Dishes /\ Row(x) = restaurant[x]
                                   /\ Row(x) \in Restaurant /\ Row(x) # Null
           /\ x \in Dishes => /\ x \notin Restaurants /\ Row(x) = dish[x]
                              /\ Row(x) # Null => Row(x) \in Dish
           /\ Row(x) # Null => Row(x).version \in Version
    BY PatchAssumption, NullsAssumption DEF TypeOK, Row, Rows, Restaurant, Dish

LEMMA RequestType ==
    ASSUME TypeOK, NEW s \in Sessions, request[s] # Null
    PROVE  request[s] \in Request
    BY DEF TypeOK

LEMMA VersionType == \A v \in Version : v \in Nat /\ v >= 1 /\ v <= MaxVersion
    BY PatchAssumption DEF Version

(***************************************************************************)
(* What a session knows does not change when the tables, its own state and *)
(* the locks it holds do not.                                              *)
(***************************************************************************)
LEMMA Frame ==
    ASSUME TypeOK, NEW t \in Sessions, SessionTrue(t), UNCHANGED tables,
           stage'[t] = stage[t], screen'[t] = screen[t], request'[t] = request[t],
           copy'[t] = copy[t], pending'[t] = pending[t],
           \A x \in Rows : writer[x] = t => writer'[x] = t
    PROVE  SessionTrue(t)'
    <1>1. /\ restaurant' = restaurant /\ dish' = dish /\ attested' = attested
          /\ \A x : Row(x)' = Row(x)
        BY DEF tables, Row
    <1>2. Shape(t)' /\ ScreenTrue(t)' /\ RequestTrue(t)' /\ CopyTrue(t)'
        BY <1>1 DEF SessionTrue, Shape, ScreenTrue, RequestTrue, VouchedAsSeen, CopyTrue
    <1>3. ASSUME stage[t] = "written" PROVE PendingTrue(t)'
        <2>1. request[t].target \in Rows
            BY <1>3, RequestType, Kinds DEF SessionTrue, Shape
        <2>2. Vouches(t)' = Vouches(t) /\ Ahead(t)' = Ahead(t)
            BY DEF Vouches, Ahead
        <2> QED BY <1>1, <1>3, <2>1, <2>2
                DEF SessionTrue, PendingTrue, SheetPending, DishPending, SheetSound,
                    DishSound
    <1>4. stage[t] # "written" => PendingTrue(t)'
        BY DEF PendingTrue
    <1> QED BY <1>2, <1>3, <1>4 DEF SessionTrue

LEMMA TablesFrame ==
    ASSUME TablesTrue, UNCHANGED tables
    PROVE  TablesTrue'
    <1>1. restaurant' = restaurant /\ dish' = dish /\ attested' = attested
          /\ audit' = audit /\ ahead' = ahead
        BY DEF tables
    <1> QED BY <1>1 DEF TablesTrue, AuditTrue, EditedVersions, VerifiedWasSeen,
                        PublishedDishPriced

-----------------------------------------------------------------------------
LEMMA InitTrue == Init => IInv
    <1> SUFFICES ASSUME Init PROVE IInv
        OBVIOUS
    <1>1. TypeOK
        <2>1. [edit |-> 0, derivedFrom |-> Null] \in Provenance /\ 1 \in Version
            BY PatchAssumption DEF Provenance, Version
        <2>2. ASSUME NEW r \in Restaurants PROVE restaurant[r] \in Restaurant
            <3>1. restaurant[r] \in [identity : Identities, status : {"DRAFT"},
                        verified : {FALSE}, version : {1},
                        provenance : {Null, [edit |-> 0, derivedFrom |-> Null]}]
                BY DEF Init
            <3> QED BY <2>1, <3>1 DEF Restaurant, Status
        <2>3. DOMAIN restaurant = Restaurants
              /\ restaurant = [r \in Restaurants |-> restaurant[r]]
            BY DEF Init
        <2>4. restaurant \in [Restaurants -> Restaurant]
            BY <2>2, <2>3
        <2> QED BY <2>4 DEF Init, TypeOK
    <1>2. Locks /\ NewDishAlone
        BY DEF Init, Locks, NewDishAlone
    <1>3. \A s \in Sessions : SessionTrue(s)
        BY DEF Init, SessionTrue, Shape, ScreenTrue, RequestTrue, CopyTrue, PendingTrue
    <1>4. AuditTrue
        <2> SUFFICES ASSUME NEW x \in Rows, NEW v \in Version
                     PROVE  v \notin EditedVersions(x)
            BY DEF Init, AuditTrue
        <2>1. x \in Restaurants => restaurant[x].version = 1
            BY DEF Init
        <2>2. x \notin Restaurants => dish[x] = Null
            BY DEF Init, Rows
        <2> QED BY <2>1, <2>2, VersionType DEF EditedVersions
    <1>5. VerifiedWasSeen /\ PublishedDishPriced
        BY DEF Init, VerifiedWasSeen, PublishedDishPriced
    <1> QED BY <1>1, <1>2, <1>3, <1>4, <1>5 DEF IInv, TablesTrue

(***************************************************************************)
(* A step of one session that leaves the tables alone: it remains to look  *)
(* at that session.                                                        *)
(***************************************************************************)
OnlyBy(s) ==
    \A t \in Sessions \ {s} :
        /\ stage'[t] = stage[t] /\ screen'[t] = screen[t] /\ request'[t] = request[t]
        /\ copy'[t] = copy[t] /\ pending'[t] = pending[t]
        /\ \A x \in Rows : writer[x] = t => writer'[x] = t

LEMMA QuietStep ==
    ASSUME IInv, NEW s \in Sessions, UNCHANGED tables, OnlyBy(s),
           TypeOK', Locks', NewDishAlone', SessionTrue(s)'
    PROVE  IInv'
    <1>1. ASSUME NEW t \in Sessions PROVE SessionTrue(t)'
        <2>1. CASE t = s
            BY <2>1
        <2>2. CASE t # s
            BY <2>2, Frame DEF IInv, OnlyBy
        <2> QED BY <2>1, <2>2
    <1>2. TablesTrue'
        BY TablesFrame DEF IInv
    <1> QED BY <1>1, <1>2 DEF IInv

LEMMA LoadStep ==
    ASSUME IInv, NEW s \in Sessions, NEW x \in Rows, Load(s, x)
    PROVE  IInv'
    <1> DEFINE seen == [row |-> x, version |-> Row(x).version,
                        identity |-> IF x \in Restaurants THEN restaurant[x].identity
                                     ELSE Null]
    <1>0. TypeOK /\ SessionTrue(s)
        BY DEF IInv
    <1>1. /\ UNCHANGED tables /\ writer' = writer /\ request' = request
          /\ copy' = copy /\ pending' = pending /\ Row(x) # Null /\ stage[s] = "idle"
          /\ screen' = [screen EXCEPT ![s] = seen]
          /\ stage' = [stage EXCEPT ![s] = "loaded"]
        BY DEF Load
    <1>2. seen \in Screen /\ seen # Null
        BY <1>0, <1>1, RowType, NullsAssumption DEF Screen, Restaurant, Rows
    <1>3. TypeOK'
        BY <1>0, <1>1, <1>2 DEF TypeOK, tables
    <1>4. /\ screen'[s] = seen /\ stage'[s] = "loaded"
          /\ \A t \in Sessions \ {s} : screen'[t] = screen[t] /\ stage'[t] = stage[t]
        BY <1>0, <1>1 DEF TypeOK
    <1>5. /\ seen.row = x /\ seen.version = Row(x).version
          /\ x \in Restaurants => seen.identity = restaurant[x].identity
        OBVIOUS
    <1> HIDE DEF seen
    <1>6. ScreenTrue(s)'
        <2>1. Row(x)' = Row(x) /\ restaurant' = restaurant
            BY <1>1 DEF tables, Row
        <2>2. Row(x).version \in Nat
            BY <1>0, <1>1, RowType, VersionType
        <2>3. x \in Restaurants => /\ restaurant[x].identity \in Identities
                                   /\ Row(x) = restaurant[x]
            BY <1>0, RowType DEF Restaurant
        <2> QED BY <1>1, <1>4, <1>5, <2>1, <2>2, <2>3 DEF ScreenTrue
    <1>7. RequestTrue(s)'
        <2>1. \A y : Row(y)' = Row(y)
            BY <1>1 DEF tables, Row
        <2> QED BY <1>0, <1>1, <2>1 DEF SessionTrue, RequestTrue, VouchedAsSeen, tables
    <1>8. SessionTrue(s)'
        BY <1>1, <1>2, <1>4, <1>6, <1>7 DEF SessionTrue, Shape, CopyTrue, PendingTrue
    <1>9. Locks' /\ NewDishAlone'
        BY <1>1, <1>4 DEF IInv, Locks, NewDishAlone
    <1> QED BY <1>1, <1>3, <1>4, <1>8, <1>9, QuietStep DEF OnlyBy

(***************************************************************************)
(* Submitting: the request is one of the forms, sound for the screen it is *)
(* sent from, and no other creates the dish it names.                      *)
(***************************************************************************)
LEMMA SubmitStepTrue ==
    ASSUME IInv, NEW s \in Sessions, NEW q \in Request, Submit(s, q),
           /\ Edits(q) => q.target = screen[s].row
           /\ (q.kind = "update" /\ q.patch.verified = TRUE)
                 => q.vouched = IF q.expected = screen[s].version
                                THEN Or(q.patch.identity, screen[s].identity)
                                ELSE q.patch.identity,
           q.kind = "newDish" =>
              /\ dish[q.target] = Null
              /\ \A t \in Sessions : request[t] # Null => request[t].target # q.target
    PROVE  IInv'
    <1>0. TypeOK /\ SessionTrue(s)
        BY DEF IInv
    <1>1. /\ UNCHANGED tables /\ writer' = writer
          /\ copy' = copy /\ pending' = pending /\ stage[s] = "loaded"
          /\ request' = [request EXCEPT ![s] = q]
          /\ screen' = [screen EXCEPT ![s] = Null]
          /\ stage' = [stage EXCEPT ![s] = "submitted"]
        BY DEF Submit
    <1>2. TypeOK'
        BY <1>0, <1>1 DEF TypeOK, tables
    <1>3. /\ screen'[s] = Null /\ stage'[s] = "submitted" /\ request'[s] = q
          /\ \A t \in Sessions \ {s} : /\ screen'[t] = screen[t] /\ stage'[t] = stage[t]
                                       /\ request'[t] = request[t]
        BY <1>0, <1>1 DEF TypeOK
    <1>4. q # Null /\ q.target \in Rows
        BY Kinds
    <1>5. RequestTrue(s)'
        <2>1. /\ restaurant' = restaurant /\ dish' = dish
              /\ \A y : Row(y)' = Row(y)
            BY <1>1 DEF tables, Row
        <2>2. ScreenTrue(s) /\ screen[s] # Null
            BY <1>0, <1>1 DEF SessionTrue, Shape
        <2>3. Edits(q) => Row(q.target) # Null
            BY <2>2 DEF ScreenTrue
        <2>4. ASSUME q.kind = "update", q.patch.verified = TRUE
              PROVE  /\ q.vouched # Null
                     /\ q.vouched = q.patch.identity \/ VouchedAsSeen(q)
            <3>1. q \in UpdateRequest
                BY <2>4, Kinds
            <3>2. q.target \in Restaurants /\ q.target = screen[s].row
                  /\ q.patch \in Patch
                BY <2>4, <3>1, PatchAssumption DEF Edits, UpdateRequest
            <3>3. /\ screen[s].identity \in Identities
                  /\ screen[s].version <= restaurant[q.target].version
                  /\ screen[s].version = restaurant[q.target].version
                     => screen[s].identity = restaurant[q.target].identity
                BY <2>2, <3>2 DEF ScreenTrue, Row
            <3>4. q.patch.identity \in Identities \cup {Absent}
                BY <3>2 DEF Patch
            <3>5. q.vouched # Null
                BY <2>4, <3>3, <3>4, NullsAssumption DEF Or
            <3>6. CASE q.expected = screen[s].version
                BY <2>4, <3>3, <3>5, <3>6 DEF VouchedAsSeen
            <3>7. CASE q.expected # screen[s].version
                BY <2>4, <3>5, <3>7
            <3> QED BY <3>6, <3>7
        <2> QED BY <1>3, <2>1, <2>3, <2>4 DEF RequestTrue, VouchedAsSeen
    <1>6. SessionTrue(s)'
        BY <1>3, <1>4, <1>5 DEF SessionTrue, Shape, ScreenTrue, CopyTrue, PendingTrue
    <1>7. Locks'
        BY <1>0, <1>1, <1>3 DEF IInv, Locks, TypeOK
    <1>8. NewDishAlone'
        <2> SUFFICES ASSUME NEW t \in Sessions, NEW u \in Sessions, t # u,
                            request'[t] # Null, request'[u] # Null,
                            request'[t].kind = "newDish"
                     PROVE  request'[u].target # request'[t].target
            BY DEF NewDishAlone
        <2>1. CASE t = s
            BY <2>1, <1>3
        <2>2. CASE u = s
            <3>1. request[t] # Null /\ request[t].kind = "newDish"
                BY <2>2, <1>3
            <3>2. request[t] \in Request /\ RequestTrue(t)
                BY <3>1, <1>0, RequestType DEF IInv, SessionTrue
            <3>3. request[t].target \in Dishes /\ dish[request[t].target] = Null
                BY <3>1, <3>2, Kinds DEF NewDishRequest, RequestTrue
            <3>4. Row(request[t].target) = Null
                BY <3>3, <1>0, RowType DEF Rows
            <3>5. Edits(q) => Row(q.target) # Null
                BY <1>0, <1>1 DEF SessionTrue, Shape, ScreenTrue
            <3>6. ~Edits(q) => q.kind = "newDish"
                BY Kinds DEF Edits
            <3> QED BY <2>2, <1>3, <3>1, <3>4, <3>5, <3>6
        <2>3. CASE t # s /\ u # s
            BY <2>3, <1>3 DEF IInv, NewDishAlone
        <2> QED BY <2>1, <2>2, <2>3
    <1> QED BY <1>1, <1>2, <1>3, <1>6, <1>7, <1>8, QuietStep DEF OnlyBy

LEMMA SubmitsTrue ==
    ASSUME IInv, NEW s \in Sessions,
           \/ \E p \in Patches, version \in Expected : SubmitUpdate(s, p, version)
           \/ \E version \in Expected : SubmitPublish(s, version)
           \/ \E p \in DishPatches, version \in Expected : SubmitDish(s, p, version)
           \/ \E d \in Dishes, price \in Prices \cup {Null} : SubmitNewDish(s, d, price)
    PROVE  IInv'
    <1>0. TypeOK /\ ScreenTrue(s) /\ Shape(s)
        BY DEF IInv, SessionTrue
    <1>1. ASSUME stage[s] = "loaded"
          PROVE  screen[s] \in Screen /\ screen[s] # Null /\ ScreenTrue(s)
        BY <1>0, <1>1 DEF TypeOK, Shape
    <1>a. \A version \in Expected : version \in Version
        BY PatchAssumption DEF Expected, Version
    <1>2. ASSUME NEW p \in Patches, NEW version \in Expected, SubmitUpdate(s, p, version)
          PROVE  IInv'
        <2> DEFINE q == [kind |-> "update", target |-> screen[s].row, patch |-> p,
                         expected |-> version,
                         vouched |-> IF p.verified # TRUE THEN Null
                                     ELSE IF version = screen[s].version
                                     THEN Or(p.identity, screen[s].identity)
                                     ELSE p.identity]
        <2>1. Submit(s, q) /\ stage[s] = "loaded" /\ screen[s].row \in Restaurants
            BY <1>2 DEF SubmitUpdate
        <2>2. screen[s].identity \in Identities
            BY <1>1, <2>1 DEF Screen, ScreenTrue
        <2>3. p.identity \in Identities \cup {Absent}
            BY PatchAssumption DEF Patch
        <2>4. q.vouched \in Identities \cup {Null, Absent}
            BY <2>2, <2>3 DEF Or
        <2>5. q \in UpdateRequest
            BY <1>a, <2>1, <2>4 DEF UpdateRequest
        <2>6. /\ q.kind = "update" /\ q.target = screen[s].row
              /\ q.patch.verified = TRUE =>
                    q.vouched = IF q.expected = screen[s].version
                                THEN Or(q.patch.identity, screen[s].identity)
                                ELSE q.patch.identity
            OBVIOUS
        <2>7. q \in Request
            BY <2>5 DEF Request
        <2> HIDE DEF q
        <2> QED BY <2>1, <2>6, <2>7, SubmitStepTrue
    <1>3. ASSUME NEW version \in Expected, SubmitPublish(s, version) PROVE IInv'
        <2> DEFINE q == [kind |-> "publish", target |-> screen[s].row,
                         expected |-> version]
        <2>1. Submit(s, q) /\ stage[s] = "loaded" /\ screen[s].row \in Restaurants
            BY <1>3 DEF SubmitPublish
        <2>2. q \in Request
            BY <1>a, <2>1 DEF Request, PublishRequest
        <2>3. q.kind = "publish" /\ q.target = screen[s].row
            OBVIOUS
        <2> HIDE DEF q
        <2> QED BY <2>1, <2>2, <2>3, SubmitStepTrue
    <1>4. ASSUME NEW p \in DishPatches, NEW version \in Expected, SubmitDish(s, p, version)
          PROVE  IInv'
        <2> DEFINE q == [kind |-> "dish", target |-> screen[s].row, patch |-> p,
                         expected |-> version]
        <2>1. Submit(s, q) /\ stage[s] = "loaded" /\ screen[s].row \in Dishes
            BY <1>4 DEF SubmitDish
        <2>2. q \in Request
            BY <1>a, <2>1 DEF Request, DishRequest
        <2>3. q.kind = "dish" /\ q.target = screen[s].row
            OBVIOUS
        <2> HIDE DEF q
        <2> QED BY <2>1, <2>2, <2>3, SubmitStepTrue
    <1>5. ASSUME NEW d \in Dishes, NEW price \in Prices \cup {Null},
                 SubmitNewDish(s, d, price)
          PROVE  IInv'
        <2> DEFINE q == [kind |-> "newDish", target |-> d, price |-> price]
        <2>1. /\ Submit(s, q) /\ dish[d] = Null
              /\ \A t \in Sessions : request[t] # Null => request[t].target # d
            BY <1>5 DEF SubmitNewDish
        <2>2. q \in Request
            BY DEF Request, NewDishRequest
        <2>3. q.kind = "newDish" /\ q.target = d
            OBVIOUS
        <2> HIDE DEF q
        <2>4. ~Edits(q)
            BY <2>3 DEF Edits
        <2> QED BY <2>1, <2>2, <2>3, <2>4, SubmitStepTrue
    <1> QED BY <1>2, <1>3, <1>4, <1>5

LEMMA ReadStep ==
    ASSUME IInv, NEW s \in Sessions, Read(s)
    PROVE  IInv'
    <1> DEFINE q == request[s]
    <1>0. TypeOK /\ SessionTrue(s)
        BY DEF IInv
    <1>1. /\ UNCHANGED tables /\ writer' = writer /\ screen' = screen
          /\ request' = request /\ pending' = pending /\ stage[s] = "submitted"
          /\ copy' = [copy EXCEPT ![s] = CopyFor(q)]
          /\ stage' = [stage EXCEPT ![s] = "read"]
        BY DEF Read
    <1>2. q # Null /\ q \in Request
        BY <1>0, <1>1, RequestType DEF SessionTrue, Shape
    <1>3. q.kind = "update" =>
             /\ CopyFor(q) \in UpdateCopy
             /\ CopyFor(q).version = restaurant[q.target].version
             /\ CopyFor(q).version \in Version
             /\ CopyFor(q).provenance = restaurant[q.target].provenance
        <2> SUFFICES ASSUME q.kind = "update"
                     PROVE  /\ CopyFor(q) \in UpdateCopy
                            /\ CopyFor(q).version = restaurant[q.target].version
                            /\ CopyFor(q).version \in Version
                            /\ CopyFor(q).provenance = restaurant[q.target].provenance
            OBVIOUS
        <2>1. restaurant[q.target] \in Restaurant
            BY <1>0, <1>2, Kinds DEF UpdateRequest, TypeOK
        <2>2. CopyFor(q) = [version |-> restaurant[q.target].version,
                            provenance |-> restaurant[q.target].provenance]
            BY DEF CopyFor
        <2> QED BY <2>1, <2>2 DEF UpdateCopy, Restaurant
    <1>4. q.kind = "publish" =>
             /\ CopyFor(q) \in PublishCopy
             /\ CopyFor(q).version = restaurant[q.target].version
             /\ CopyFor(q).version \in Version
             /\ CopyFor(q).verified = restaurant[q.target].verified
        <2> SUFFICES ASSUME q.kind = "publish"
                     PROVE  /\ CopyFor(q) \in PublishCopy
                            /\ CopyFor(q).version = restaurant[q.target].version
                            /\ CopyFor(q).version \in Version
                            /\ CopyFor(q).verified = restaurant[q.target].verified
            OBVIOUS
        <2>1. restaurant[q.target] \in Restaurant
            BY <1>0, <1>2, Kinds DEF PublishRequest, TypeOK
        <2>2. CopyFor(q) = [version |-> restaurant[q.target].version,
                            verified |-> restaurant[q.target].verified]
            BY DEF CopyFor
        <2> QED BY <2>1, <2>2 DEF PublishCopy, Restaurant
    <1>5. q.kind = "dish" =>
             /\ CopyFor(q) \in DishCopy
             /\ CopyFor(q).version = dish[q.target].version
             /\ CopyFor(q).version \in Version
             /\ CopyFor(q).price = dish[q.target].price
             /\ CopyFor(q).status = dish[q.target].status
        <2> SUFFICES ASSUME q.kind = "dish"
                     PROVE  /\ CopyFor(q) \in DishCopy
                            /\ CopyFor(q).version = dish[q.target].version
                            /\ CopyFor(q).version \in Version
                            /\ CopyFor(q).price = dish[q.target].price
                            /\ CopyFor(q).status = dish[q.target].status
            OBVIOUS
        <2>1. q.target \in Dishes
            BY <1>2, Kinds DEF DishRequest
        <2>2. Row(q.target) # Null
            BY <1>0, <1>2 DEF SessionTrue, RequestTrue, Edits
        <2>3. dish[q.target] \in Dish
            BY <1>0, <2>1, <2>2, RowType DEF Rows
        <2>4. /\ CopyFor(q).version = dish[q.target].version
              /\ CopyFor(q).price = dish[q.target].price
              /\ CopyFor(q).status = dish[q.target].status
              /\ \E b \in BOOLEAN : CopyFor(q) = [version |-> dish[q.target].version,
                     price |-> dish[q.target].price,
                     status |-> dish[q.target].status, open |-> b]
            BY DEF CopyFor
        <2> QED BY <2>3, <2>4 DEF DishCopy, Dish
    <1>6. CopyFor(q) \in Copy \cup {Null}
        <2>1. q.kind = "newDish" => CopyFor(q) = Null
            BY DEF CopyFor
        <2> QED BY <1>2, <1>3, <1>4, <1>5, <2>1, Kinds DEF Copy
    <1>7. TypeOK'
        BY <1>0, <1>1, <1>6 DEF TypeOK, tables
    <1>8. /\ copy'[s] = CopyFor(q) /\ stage'[s] = "read"
          /\ \A t \in Sessions \ {s} : copy'[t] = copy[t] /\ stage'[t] = stage[t]
        BY <1>0, <1>1 DEF TypeOK
    <1>9. CopyTrue(s)'
        BY <1>1, <1>3, <1>4, <1>5, <1>8, VersionType DEF CopyTrue, tables
    <1>10. ScreenTrue(s)' /\ RequestTrue(s)'
        <2>1. \A y : Row(y)' = Row(y)
            BY <1>1 DEF tables, Row
        <2> QED BY <1>0, <1>1, <2>1 DEF SessionTrue, ScreenTrue, RequestTrue, VouchedAsSeen, tables
    <1>11. SessionTrue(s)'
        BY <1>1, <1>2, <1>8, <1>9, <1>10 DEF SessionTrue, Shape, PendingTrue
    <1>12. Locks' /\ NewDishAlone'
        BY <1>0, <1>1, <1>8 DEF IInv, Locks, NewDishAlone, TypeOK
    <1> QED BY <1>1, <1>7, <1>8, <1>11, <1>12, QuietStep DEF OnlyBy

-----------------------------------------------------------------------------
(***************************************************************************)
(* Writing a row keeps the invariant when the row is a sound next version. *)
(***************************************************************************)
LEMMA Written ==
    ASSUME IInv, NEW s \in Sessions, NEW row, NEW x \in Rows, x = request[s].target,
           UNCHANGED <<tables, screen, request>>, stage[s] = "read",
           writer[x] = Null \/ request[s].kind = "newDish",
           writer' = [writer EXCEPT ![x] = s],
           pending' = [pending EXCEPT ![s] = row],
           copy' = copy,
           stage' = [stage EXCEPT ![s] = "written"],
           x \in Restaurants => SheetSound(s, x, row),
           x \in Dishes => DishSound(s, x, row)
    PROVE  IInv'
    <1>0. TypeOK /\ SessionTrue(s) /\ Locks /\ NewDishAlone
        BY DEF IInv
    <1>1. request[s] # Null /\ request[s] \in Request
        BY <1>0, RequestType DEF SessionTrue, Shape
    <1>2. row \in Restaurant \cup Dish
        BY DEF Rows, SheetSound, DishSound
    <1>3. TypeOK'
        BY <1>0, <1>2 DEF TypeOK, tables
    <1>4. /\ pending'[s] = row /\ stage'[s] = "written" /\ writer'[x] = s
          /\ \A t \in Sessions \ {s} : /\ pending'[t] = pending[t] /\ stage'[t] = stage[t]
                                       /\ copy'[t] = copy[t]
          /\ \A y \in Rows \ {x} : writer'[y] = writer[y]
        BY <1>0 DEF TypeOK
    <1>5. writer[x] = Null
        <2> SUFFICES ASSUME writer[x] # Null, request[s].kind = "newDish" PROVE FALSE
            OBVIOUS
        <2>1. writer[x] \in Sessions /\ stage[writer[x]] = "written"
              /\ request[writer[x]].target = x
            BY <1>0 DEF Locks, TypeOK
        <2>2. request[writer[x]] # Null
            BY <2>1 DEF IInv, SessionTrue, Shape
        <2> QED BY <1>0, <1>1, <2>1, <2>2 DEF NewDishAlone
    <1>6. PendingTrue(s)'
        <2>1. /\ restaurant' = restaurant /\ dish' = dish /\ attested' = attested
              /\ request' = request /\ Vouches(s)' = Vouches(s) /\ Ahead(s)' = Ahead(s)
            BY DEF tables, Vouches, Ahead
        <2> QED BY <1>4, <2>1
            DEF PendingTrue, SheetPending, DishPending, SheetSound, DishSound
    <1>7. ScreenTrue(s)' /\ RequestTrue(s)'
        <2>1. \A y : Row(y)' = Row(y)
            BY DEF tables, Row
        <2> QED BY <1>0, <2>1 DEF SessionTrue, ScreenTrue, RequestTrue, VouchedAsSeen, tables
    <1>8. SessionTrue(s)'
        BY <1>1, <1>4, <1>6, <1>7 DEF SessionTrue, Shape, CopyTrue
    <1>9. Locks'
        BY <1>0, <1>4, NullsAssumption DEF Locks, TypeOK
    <1>10. NewDishAlone'
        BY <1>0 DEF NewDishAlone
    <1>11. OnlyBy(s)
        BY <1>4, <1>5, NullsAssumption DEF OnlyBy
    <1> QED BY <1>3, <1>8, <1>9, <1>10, <1>11, QuietStep

LEMMA WriteStep ==
    ASSUME IInv, NEW s \in Sessions, NEW row, Write(s, row), stage[s] = "read",
           request[s].target \in Restaurants => SheetSound(s, request[s].target, row),
           request[s].target \in Dishes => DishSound(s, request[s].target, row)
    PROVE  IInv'
    <1>1. request[s] \in Request
        BY RequestType DEF IInv, SessionTrue, Shape
    <1>2. request[s].target \in Rows
        BY <1>1, Kinds
    <1>3. /\ UNCHANGED <<tables, screen, request>> /\ writer[request[s].target] = Null
          /\ writer' = [writer EXCEPT ![request[s].target] = s]
          /\ pending' = [pending EXCEPT ![s] = row]
          /\ copy' = copy
          /\ stage' = [stage EXCEPT ![s] = "written"]
        BY DEF Write
    <1> QED BY <1>2, <1>3, Written

(***************************************************************************)
(* The stamp of an edit is a provenance with the root of the one it        *)
(* replaces.                                                               *)
(***************************************************************************)
LEMMA StampKeepsRoot ==
    ASSUME NEW base \in Provenance \cup {Null}, NEW v \in Version
    PROVE  /\ Stamped(base, v) \in Provenance /\ Stamped(base, v) # Null
           /\ base # Null => RootOf(Stamped(base, v)) = RootOf(base)
    <1>1. v \in 0..MaxVersion /\ \A n \in 0..MaxVersion : n \in Nat
        BY PatchAssumption DEF Version
    <1>2. CASE base = Null
        BY <1>1, <1>2, NullsAssumption DEF Stamped, Provenance
    <1>3. CASE base # Null
        <2>1. base.edit \in 0..MaxVersion /\ base.derivedFrom \in (0..MaxVersion) \cup {Null}
            BY <1>3 DEF Provenance
        <2> QED BY <1>1, <1>3, <2>1, NullsAssumption DEF Stamped, Provenance, RootOf
    <1> QED BY <1>2, <1>3

LEMMA UpdateRestaurantStep ==
    ASSUME IInv, NEW s \in Sessions, UpdateRestaurant(s)
    PROVE  IInv'
    <1> DEFINE q == request[s]
               x == request[s].target
               p == request[s].patch
               now == restaurant[x]
               row == [identity |-> Or(p.identity, now.identity),
                       status |-> Or(p.status, now.status),
                       verified |-> VerifiedAfter(p, now.verified),
                       version |-> now.version + 1,
                       provenance |-> Stamped(copy[s].provenance, now.version + 1)]
    <1>0. TypeOK /\ SessionTrue(s)
        BY DEF IInv
    <1>1. stage[s] = "read" /\ q.kind = "update" /\ Write(s, row)
        BY DEF UpdateRestaurant, Reads
    <1>2. q # Null /\ q \in UpdateRequest
        BY <1>0, <1>1, RequestType, Kinds DEF SessionTrue, Shape
    <1>3. x \in Restaurants /\ p \in Patch /\ x \in Rows /\ x \notin Dishes /\ Row(x) = now
        BY <1>0, <1>2, PatchAssumption, RowType DEF UpdateRequest, Rows
    <1>4. now \in Restaurant
        BY <1>0, <1>3 DEF TypeOK
    <1>5. now.version = q.expected /\ now.version < MaxVersion
        BY <1>1, <1>3 DEF Write, Matches
    <1>6. now.version + 1 \in Version
        BY <1>4, <1>5, VersionType, PatchAssumption DEF Version, Restaurant
    <1>7. /\ copy[s].provenance \in Provenance \cup {Null}
          /\ Ahead(s) \/ copy[s].provenance = now.provenance
        <2>1. /\ copy[s] \in UpdateCopy /\ copy[s].version <= now.version
              /\ copy[s].version = now.version => copy[s].provenance = now.provenance
            BY <1>0, <1>1 DEF SessionTrue, CopyTrue
        <2>2. copy[s].version \in Nat /\ now.version \in Nat
            BY <1>4, <2>1, VersionType DEF UpdateCopy, Restaurant
        <2> QED BY <1>1, <1>5, <2>1, <2>2 DEF UpdateCopy, Ahead
    <1>8. p.identity \in Identities \cup {Absent} /\ p.verified \in BOOLEAN \cup {Absent}
          /\ p.status \in (Status \ {"PUBLISHED"}) \cup {Absent} /\ "identity" \in DOMAIN p
        BY <1>3 DEF Patch
    <1>9. /\ now.identity \in Identities /\ now.status \in Status
          /\ now.provenance \in Provenance \cup {Null}
        BY <1>4 DEF Restaurant
    <1>10. VerifiedAfter(p, now.verified) = (p.verified = TRUE)
        BY <1>8, NullsAssumption DEF VerifiedAfter, Keys, Or
    <1>11. (p.verified = TRUE) =>
              /\ Vouches(s)
              /\ q.vouched = p.identity \/ q.vouched = Or(p.identity, now.identity)
        BY <1>0, <1>1, <1>2, <1>5 DEF SessionTrue, RequestTrue, VouchedAsSeen, Vouches
    <1>12. /\ Stamped(copy[s].provenance, now.version + 1) \in Provenance
           /\ Stamped(copy[s].provenance, now.version + 1) # Null
           /\ now.provenance # Null =>
                \/ RootOf(Stamped(copy[s].provenance, now.version + 1)) = RootOf(now.provenance)
                \/ Ahead(s)
        BY <1>6, <1>7, <1>9, StampKeepsRoot
    <1>13. Or(p.status, now.status) \in Status
           /\ (Or(p.status, now.status) = "PUBLISHED" => now.status = "PUBLISHED")
        BY <1>8, <1>9, NullsAssumption DEF Or
    <1>14. Or(p.identity, now.identity) \in Identities
        BY <1>8, <1>9 DEF Or
    <1>15. row \in Restaurant
        BY <1>6, <1>10, <1>12, <1>13, <1>14 DEF Restaurant
    <1>16. row.verified => Vouches(s) /\ row.identity = Or(q.vouched, row.identity)
        BY <1>8, <1>10, <1>11 DEF Or
    <1>17. SheetSound(s, x, row)
        BY <1>12, <1>13, <1>15, <1>16 DEF SheetSound
    <1> HIDE DEF row
    <1> QED BY <1>1, <1>3, <1>17, WriteStep

LEMMA PublishStep ==
    ASSUME IInv, NEW s \in Sessions, Publish(s)
    PROVE  IInv'
    <1> DEFINE q == request[s]
               x == request[s].target
               now == restaurant[x]
               row == [now EXCEPT !.status = "PUBLISHED", !.version = @ + 1]
    <1>0. TypeOK /\ SessionTrue(s) /\ VerifiedWasSeen
        BY DEF IInv, TablesTrue
    <1>1. stage[s] = "read" /\ q.kind = "publish" /\ copy[s].verified /\ Write(s, row)
        BY DEF Publish, Reads
    <1>2. q # Null /\ q \in PublishRequest
        BY <1>0, <1>1, RequestType, Kinds DEF SessionTrue, Shape
    <1>3. x \in Restaurants /\ x \in Rows /\ x \notin Dishes /\ Row(x) = now
        BY <1>0, <1>2, PatchAssumption, RowType DEF PublishRequest, Rows
    <1>4. now \in Restaurant
        BY <1>0, <1>3 DEF TypeOK
    <1>5. now.version = q.expected /\ now.version < MaxVersion
        BY <1>1, <1>3 DEF Write, Matches
    <1>6. now.version + 1 \in Version
        BY <1>4, <1>5, VersionType, PatchAssumption DEF Version, Restaurant
    <1>7. Ahead(s) \/ now.verified
        <2>1. /\ copy[s] \in PublishCopy /\ copy[s].version <= now.version
              /\ copy[s].version = now.version => now.verified
            BY <1>0, <1>1 DEF SessionTrue, CopyTrue
        <2>2. copy[s].version \in Nat /\ now.version \in Nat
            BY <1>4, <2>1, VersionType DEF PublishCopy, Restaurant
        <2> QED BY <1>1, <1>5, <2>1, <2>2 DEF Ahead
    <1>8. (now.verified => now.identity = attested[x]) /\ ~Vouches(s)
        BY <1>0, <1>1, <1>3 DEF VerifiedWasSeen, Vouches
    <1>9. /\ row \in Restaurant /\ row.version = now.version + 1
          /\ row.identity = now.identity /\ row.verified = now.verified
          /\ row.provenance = now.provenance
        BY <1>4, <1>6 DEF Restaurant, Status
    <1> HIDE DEF row
    <1>10. SheetSound(s, x, row)
        BY <1>7, <1>8, <1>9 DEF SheetSound
    <1> QED BY <1>1, <1>3, <1>10, WriteStep

LEMMA UpdateDishStep ==
    ASSUME IInv, NEW s \in Sessions, UpdateDish(s)
    PROVE  IInv'
    <1> DEFINE q == request[s]
               x == request[s].target
               p == request[s].patch
               now == dish[x]
               row == [price |-> Or(p.price, now.price),
                       status |-> Or(p.status, now.status),
                       version |-> now.version + 1]
    <1>0. TypeOK /\ SessionTrue(s)
        BY DEF IInv
    <1>1. stage[s] = "read" /\ q.kind = "dish" /\ DishAllowed(s) /\ Write(s, row)
        BY DEF UpdateDish, Reads
    <1>2. q # Null /\ q \in DishRequest
        BY <1>0, <1>1, RequestType, Kinds DEF SessionTrue, Shape
    <1>3. x \in Dishes /\ p \in DishPatch /\ x \in Rows
        BY <1>2, PatchAssumption DEF DishRequest, Rows
    <1>4. Row(x) # Null
        BY <1>0, <1>1, <1>2 DEF SessionTrue, RequestTrue, Edits
    <1>5. x \notin Restaurants /\ Row(x) = now /\ now \in Dish /\ now # Null
        BY <1>0, <1>3, <1>4, RowType
    <1>6. now.version = q.expected /\ now.version < MaxVersion
        BY <1>1, <1>5 DEF Write, Matches
    <1>7. now.version + 1 \in Version
        BY <1>5, <1>6, VersionType, PatchAssumption DEF Version, Dish
    <1>8. Ahead(s) \/ (copy[s].price = now.price /\ copy[s].status = now.status)
        <2>1. /\ copy[s] \in DishCopy /\ copy[s].version <= now.version
              /\ copy[s].version = now.version
                 => copy[s].price = now.price /\ copy[s].status = now.status
            BY <1>0, <1>1 DEF SessionTrue, CopyTrue
        <2>2. copy[s].version \in Nat /\ now.version \in Nat
            BY <1>5, <2>1, VersionType DEF DishCopy, Dish
        <2> QED BY <1>1, <1>6, <2>1, <2>2 DEF Ahead
    <1>9. /\ p.price \in Prices \cup {Null, Absent}
          /\ p.status \in (Status \ {"PENDING_REVIEW"}) \cup {Absent}
          /\ now.price \in Prices \cup {Null} /\ now.status \in Status
        BY <1>3, <1>5 DEF DishPatch, Dish
    <1>10. row \in Dish
        BY <1>7, <1>9 DEF Or, Dish
    <1>11. row.status = "PUBLISHED" => row.price # Null \/ Ahead(s)
        BY <1>1, <1>8 DEF DishAllowed
    <1>12. DishSound(s, x, row)
        BY <1>5, <1>10, <1>11 DEF DishSound
    <1> HIDE DEF row
    <1> QED BY <1>1, <1>5, <1>12, WriteStep

LEMMA CreateDishStep ==
    ASSUME IInv, NEW s \in Sessions, CreateDish(s)
    PROVE  IInv'
    <1> DEFINE q == request[s]
               x == request[s].target
               row == [price |-> q.price, status |-> "DRAFT", version |-> 1]
    <1>0. TypeOK /\ SessionTrue(s)
        BY DEF IInv
    <1>1. /\ stage[s] = "read" /\ q.kind = "newDish"
          /\ UNCHANGED <<tables, screen, request>> /\ copy' = copy
          /\ writer' = [writer EXCEPT ![x] = s]
          /\ pending' = [pending EXCEPT ![s] = row]
          /\ stage' = [stage EXCEPT ![s] = "written"]
        BY DEF CreateDish, Reads
    <1>2. q # Null /\ q \in NewDishRequest
        BY <1>0, <1>1, RequestType, Kinds DEF SessionTrue, Shape
    <1>3. x \in Dishes /\ x \in Rows /\ x \notin Restaurants /\ dish[x] = Null
        BY <1>0, <1>1, <1>2, PatchAssumption
        DEF NewDishRequest, Rows, SessionTrue, RequestTrue
    <1>4. row \in Dish /\ row.version = 1 /\ row.status # "PUBLISHED"
        BY <1>2, PatchAssumption DEF Dish, NewDishRequest, Version, Status
    <1> HIDE DEF row
    <1>5. DishSound(s, x, row)
        BY <1>3, <1>4 DEF DishSound
    <1> QED BY <1>1, <1>3, <1>5, Written

-----------------------------------------------------------------------------
(***************************************************************************)
(* A session that ends holds nothing and knows nothing.                    *)
(***************************************************************************)
LEMMA Ended ==
    ASSUME TypeOK, Locks, NewDishAlone, NEW s \in Sessions, EndSession(s),
           writer' = Released(s)
    PROVE  /\ SessionTrue(s)' /\ OnlyBy(s) /\ Locks' /\ NewDishAlone'
           /\ writer' \in [Rows -> Sessions \cup {Null}]
           /\ stage' \in [Sessions -> {"idle", "loaded", "submitted", "read", "written"}]
           /\ screen' \in [Sessions -> Screen \cup {Null}]
           /\ request' \in [Sessions -> Request \cup {Null}]
           /\ copy' \in [Sessions -> Copy \cup {Null}]
           /\ pending' \in [Sessions -> Restaurant \cup Dish \cup {Null}]
    <1>1. /\ stage'[s] = "idle" /\ screen'[s] = Null /\ request'[s] = Null
          /\ \A t \in Sessions \ {s} :
                /\ stage'[t] = stage[t] /\ screen'[t] = screen[t]
                /\ request'[t] = request[t] /\ copy'[t] = copy[t]
                /\ pending'[t] = pending[t]
        BY DEF TypeOK, EndSession
    <1>2. /\ writer' \in [Rows -> Sessions \cup {Null}]
          /\ \A y \in Rows : writer'[y] = IF writer[y] = s THEN Null ELSE writer[y]
        BY DEF TypeOK, Released
    <1>3. /\ stage' \in [Sessions -> {"idle", "loaded", "submitted", "read", "written"}]
          /\ screen' \in [Sessions -> Screen \cup {Null}]
          /\ request' \in [Sessions -> Request \cup {Null}]
        BY DEF TypeOK, EndSession
    <1>4. /\ copy' \in [Sessions -> Copy \cup {Null}]
          /\ pending' \in [Sessions -> Restaurant \cup Dish \cup {Null}]
        BY DEF TypeOK, EndSession
    <1>5. SessionTrue(s)'
        BY <1>1 DEF SessionTrue, Shape, ScreenTrue, RequestTrue, CopyTrue, PendingTrue
    <1>6. OnlyBy(s)
        BY <1>1, <1>2 DEF OnlyBy
    <1>7. Locks'
        BY <1>1, <1>2 DEF Locks, TypeOK
    <1>8. NewDishAlone'
        BY <1>1 DEF NewDishAlone
    <1> QED BY <1>2, <1>3, <1>4, <1>5, <1>6, <1>7, <1>8

LEMMA EndStep ==
    ASSUME IInv, NEW s \in Sessions, Refuse(s) \/ Abort(s)
    PROVE  IInv'
    <1>0. TypeOK /\ Locks /\ NewDishAlone
        BY DEF IInv
    <1>1. EndSession(s) /\ UNCHANGED tables
        BY DEF Refuse, Abort
    <1>2. writer' = Released(s)
        <2>1. CASE Abort(s)
            BY <2>1 DEF Abort
        <2>2. CASE Refuse(s)
            <3>1. stage[s] = "read" /\ writer' = writer
                BY <2>2 DEF Refuse
            <3>2. \A y \in Rows : writer[y] # s
                BY <3>1, NullsAssumption DEF IInv, Locks
            <3>3. writer = [y \in Rows |-> writer[y]]
                BY <1>0 DEF TypeOK
            <3> QED BY <3>1, <3>2, <3>3 DEF Released
        <2> QED BY <2>1, <2>2
    <1>3. TypeOK'
        BY <1>0, <1>1, <1>2, Ended DEF TypeOK, tables
    <1> QED BY <1>0, <1>1, <1>2, <1>3, Ended, QuietStep

(***************************************************************************)
(* A commit replaces one row, that no other transaction has locked, by its *)
(* next version.                                                           *)
(***************************************************************************)
LEMMA Committed ==
    ASSUME IInv, NEW s \in Sessions, Commit(s)
    PROVE  LET x == request[s].target
           IN  /\ request[s] # Null /\ request[s] \in Request /\ x \in Rows
               /\ writer[x] = s /\ writer' = Released(s) /\ EndSession(s)
               /\ x \in Restaurants => SheetPending(s)
               /\ x \in Dishes => DishPending(s)
               /\ restaurant' \in [Restaurants -> Restaurant]
               /\ dish' \in [Dishes -> Dish \cup {Null}]
               /\ attested' \in [Restaurants -> Identities \cup {Null}]
               /\ ahead' = IF Ahead(s) THEN ahead \cup {x} ELSE ahead \ {x}
               /\ x \in Restaurants => restaurant'[x] = pending[s]
               /\ x \in Dishes => dish'[x] = pending[s]
               /\ \A r \in Restaurants \ {x} : restaurant'[r] = restaurant[r]
                                               /\ attested'[r] = attested[r]
               /\ x \in Restaurants =>
                    attested'[x] = IF Vouches(s)
                                   THEN Or(request[s].vouched, pending[s].identity)
                                   ELSE attested[x]
               /\ \A d \in Dishes \ {x} : dish'[d] = dish[d]
               /\ audit' = audit \cup {<<x, pending[s].version>>}
    <1> DEFINE x == request[s].target
    <1>0. TypeOK /\ SessionTrue(s)
        BY DEF IInv
    <1>1. stage[s] = "written" /\ writer' = Released(s) /\ EndSession(s)
          /\ audit' = audit \cup {<<x, pending[s].version>>}
          /\ ahead' = IF Ahead(s) THEN ahead \cup {x} ELSE ahead \ {x}
        BY DEF Commit
    <1>2. request[s] # Null /\ request[s] \in Request /\ x \in Rows
        BY <1>0, <1>1, RequestType, Kinds DEF SessionTrue, Shape
    <1>3. /\ writer[x] = s
          /\ x \in Restaurants => SheetPending(s)
          /\ x \in Dishes => DishPending(s)
        BY <1>0, <1>1 DEF SessionTrue, PendingTrue
    <1>4. /\ x \in Restaurants => pending[s] \in Restaurant
          /\ x \in Dishes => pending[s] \in Dish
        BY <1>3 DEF SheetPending, DishPending, SheetSound, DishSound
    <1>5. /\ restaurant' \in [Restaurants -> Restaurant]
          /\ x \in Restaurants => restaurant'[x] = pending[s]
          /\ \A r \in Restaurants \ {x} : restaurant'[r] = restaurant[r]
        BY <1>0, <1>4 DEF Commit, TypeOK
    <1>6. /\ dish' \in [Dishes -> Dish \cup {Null}]
          /\ x \in Dishes => dish'[x] = pending[s]
          /\ \A d \in Dishes \ {x} : dish'[d] = dish[d]
        BY <1>0, <1>4 DEF Commit, TypeOK
    <1>7. Vouches(s) => /\ x \in Restaurants
                        /\ Or(request[s].vouched, pending[s].identity)
                                \in Identities \cup {Null}
        <2>1. Vouches(s) => /\ x \in Restaurants
                            /\ request[s].vouched \in Identities \cup {Null, Absent}
            BY <1>2, Kinds DEF Vouches, UpdateRequest
        <2> QED BY <1>4, <2>1 DEF Or, Restaurant
    <1>8. attested' = IF Vouches(s)
                      THEN [attested EXCEPT ![x] = Or(request[s].vouched,
                                                      pending[s].identity)]
                      ELSE attested
        BY DEF Commit
    <1>9. /\ attested' \in [Restaurants -> Identities \cup {Null}]
          /\ \A r \in Restaurants \ {x} : attested'[r] = attested[r]
          /\ x \in Restaurants =>
                attested'[x] = IF Vouches(s)
                               THEN Or(request[s].vouched, pending[s].identity)
                               ELSE attested[x]
        BY <1>0, <1>7, <1>8 DEF TypeOK
    <1> QED BY <1>1, <1>2, <1>3, <1>5, <1>6, <1>9

LEMMA CommitTables ==
    ASSUME IInv, NEW s \in Sessions, Commit(s)
    PROVE  TypeOK' /\ TablesTrue'
    <1> DEFINE x == request[s].target
               next == pending[s].version
    <1>0. TypeOK /\ Locks /\ NewDishAlone /\ TablesTrue
        BY DEF IInv
    <1>1. /\ x \in Rows /\ writer' = Released(s) /\ EndSession(s)
          /\ x \in Restaurants => SheetPending(s)
          /\ x \in Dishes => DishPending(s)
          /\ restaurant' \in [Restaurants -> Restaurant]
          /\ dish' \in [Dishes -> Dish \cup {Null}]
          /\ attested' \in [Restaurants -> Identities \cup {Null}]
          /\ x \in Restaurants => restaurant'[x] = pending[s]
          /\ x \in Dishes => dish'[x] = pending[s]
          /\ \A r \in Restaurants \ {x} : restaurant'[r] = restaurant[r]
                                          /\ attested'[r] = attested[r]
          /\ x \in Restaurants =>
                attested'[x] = IF Vouches(s)
                               THEN Or(request[s].vouched, pending[s].identity)
                               ELSE attested[x]
          /\ \A d \in Dishes \ {x} : dish'[d] = dish[d]
          /\ audit' = audit \cup {<<x, next>>}
          /\ ahead' = IF Ahead(s) THEN ahead \cup {x} ELSE ahead \ {x}
        BY Committed
    <1>2. next \in Version
        BY <1>1 DEF Rows, SheetPending, DishPending, SheetSound, DishSound, Restaurant, Dish
    <1>3. TypeOK'
        <2>1. audit' \subseteq Rows \X Version
            BY <1>0, <1>1, <1>2 DEF TypeOK
        <2>2. ahead' \subseteq Rows
            BY <1>0, <1>1 DEF TypeOK
        <2> QED BY <1>0, <1>1, <2>1, <2>2, Ended DEF TypeOK
    <1>4. AuditTrue'
        <2> SUFFICES ASSUME NEW y \in Rows, NEW v \in Version
                     PROVE  <<y, v>> \in audit' <=> v \in EditedVersions(y)'
            BY DEF AuditTrue
        <2>1. <<y, v>> \in audit <=> v \in EditedVersions(y)
            BY <1>0 DEF TablesTrue, AuditTrue
        <2>2. CASE y # x
            <3>1. EditedVersions(y)' = EditedVersions(y)
                BY <1>1, <2>2 DEF EditedVersions, Rows
            <3> QED BY <1>1, <2>1, <2>2, <3>1
        <2>3. CASE y = x /\ x \in Restaurants
            <3>1. restaurant'[x].version = next /\ next = restaurant[x].version + 1
                BY <1>1, <2>3 DEF SheetPending, SheetSound
            <3>2. restaurant[x].version \in Version
                BY <1>0, <2>3 DEF TypeOK, Restaurant
            <3>3. EditedVersions(y) = 2..restaurant[x].version
                  /\ EditedVersions(y)' = 2..next
                BY <2>3, <3>1 DEF EditedVersions
            <3>4. v \in 2..next <=> v \in 2..restaurant[x].version \/ v = next
                BY <3>1, <3>2, VersionType
            <3> QED BY <1>1, <2>1, <2>3, <3>3, <3>4
        <2>4. CASE y = x /\ x \in Dishes
            <3>1. /\ dish'[y].version = next /\ dish'[y] # Null
                  /\ next = IF dish[y] = Null THEN 1 ELSE dish[y].version + 1
                BY <1>1, <2>4, NullsAssumption DEF DishPending, DishSound
            <3>2. y \notin Restaurants
                BY <2>4, PatchAssumption
            <3>3. dish[y] # Null => dish[y].version \in Version
                BY <1>0, <2>4 DEF TypeOK, Dish
            <3>4. EditedVersions(y) = (IF dish[y] = Null THEN {} ELSE 1..dish[y].version)
                  /\ EditedVersions(y)' = 1..next
                BY <3>1, <3>2 DEF EditedVersions
            <3>5. v \in 1..next <=> v \in EditedVersions(y) \/ v = next
                BY <3>1, <3>3, <3>4, VersionType
            <3> QED BY <1>1, <2>1, <2>4, <3>4, <3>5
        <2> QED BY <2>2, <2>3, <2>4, <1>1 DEF Rows
    <1>5. VerifiedWasSeen'
        <2> SUFFICES ASSUME NEW r \in Restaurants, restaurant'[r].verified
                     PROVE  restaurant'[r].identity = attested'[r]
            BY DEF VerifiedWasSeen
        <2>1. CASE r = x
            BY <1>1, <2>1 DEF SheetPending, SheetSound
        <2>2. CASE r # x
            BY <1>0, <1>1, <2>2 DEF TablesTrue, VerifiedWasSeen
        <2> QED BY <2>1, <2>2
    <1>6. PublishedDishPriced'
        <2> SUFFICES ASSUME NEW d \in Dishes, dish'[d] # Null, dish'[d].status = "PUBLISHED"
                     PROVE  dish'[d].price # Null \/ d \in ahead'
            BY DEF PublishedDishPriced
        <2>1. CASE d = x
            BY <1>1, <2>1 DEF DishPending, DishSound
        <2>2. CASE d # x
            BY <1>0, <1>1, <2>2 DEF TablesTrue, PublishedDishPriced
        <2> QED BY <2>1, <2>2
    <1> QED BY <1>3, <1>4, <1>5, <1>6 DEF TablesTrue

(***************************************************************************)
(* What another session saw, expects or read is of an older version of the *)
(* row committed, and what it wrote is another row.                        *)
(***************************************************************************)
LEMMA CommitOthers ==
    ASSUME IInv, NEW s \in Sessions, Commit(s), NEW t \in Sessions, t # s
    PROVE  SessionTrue(t)'
    <1> DEFINE x == request[s].target
    <1>0. TypeOK /\ SessionTrue(t) /\ NewDishAlone
        BY DEF IInv
    <1>1. /\ request[s] # Null /\ x \in Rows /\ writer[x] = s
          /\ writer' = Released(s) /\ EndSession(s)
          /\ x \in Restaurants => SheetPending(s)
          /\ x \in Dishes => DishPending(s)
          /\ x \in Restaurants => restaurant'[x] = pending[s]
          /\ x \in Dishes => dish'[x] = pending[s]
          /\ \A r \in Restaurants \ {x} : restaurant'[r] = restaurant[r]
                                          /\ attested'[r] = attested[r]
          /\ \A d \in Dishes \ {x} : dish'[d] = dish[d]
        BY Committed
    <1>2. /\ stage'[t] = stage[t] /\ screen'[t] = screen[t] /\ request'[t] = request[t]
          /\ copy'[t] = copy[t] /\ pending'[t] = pending[t]
          /\ \A y \in Rows : writer[y] = t => writer'[y] = t
        BY <1>0, <1>1, Ended DEF IInv, OnlyBy
    <1>3. ASSUME NEW y \in Rows, Row(y) # Null
          PROVE  /\ Row(y)' # Null
                 /\ Row(y)'.version \in Nat /\ Row(y).version \in Nat
                 /\ y # x => Row(y)' = Row(y)
                 /\ y = x => Row(y)'.version = Row(y).version + 1
                 /\ y \in Restaurants => Row(y) = restaurant[y] /\ Row(y)' = restaurant'[y]
                 /\ y \in Dishes => Row(y) = dish[y] /\ Row(y)' = dish'[y]
        <2>1. Row(y).version \in Nat
            BY <1>0, <1>3, RowType, VersionType
        <2>2. /\ y \in Restaurants => Row(y) = restaurant[y] /\ Row(y)' = restaurant'[y]
              /\ y \in Dishes => Row(y) = dish[y] /\ Row(y)' = dish'[y]
            BY PatchAssumption DEF Row
        <2>3. CASE y # x
            BY <1>1, <1>3, <2>1, <2>2, <2>3 DEF Rows
        <2>4. CASE y = x /\ y \in Restaurants
            BY <1>1, <2>1, <2>2, <2>4, NullsAssumption DEF SheetPending, SheetSound
        <2>5. CASE y = x /\ y \in Dishes
            BY <1>1, <1>3, <2>1, <2>2, <2>5, NullsAssumption DEF DishPending, DishSound
        <2> QED BY <2>3, <2>4, <2>5 DEF Rows
    <1>4. Shape(t)'
        BY <1>0, <1>2 DEF SessionTrue, Shape
    <1>5. ScreenTrue(t)'
        <2> DEFINE y == screen[t].row
        <2> SUFFICES ASSUME screen[t] # Null PROVE ScreenTrue(t)'
            BY <1>2 DEF ScreenTrue
        <2>1. screen[t] \in Screen
            BY <1>0 DEF TypeOK
        <2>2. y \in Rows /\ screen[t].version \in Nat
            BY <2>1, VersionType DEF Screen
        <2>3. /\ Row(y) # Null /\ screen[t].version <= Row(y).version
              /\ y \in Restaurants =>
                    /\ screen[t].identity \in Identities
                    /\ screen[t].version = restaurant[y].version
                        => screen[t].identity = restaurant[y].identity
            BY <1>0 DEF SessionTrue, ScreenTrue
        <2>4. PICK z \in Rows : z = y
            BY <2>2
        <2>5. /\ Row(z)' # Null /\ screen[t].version <= Row(z)'.version
              /\ screen[t].version = Row(z)'.version => Row(z)' = Row(z)
              /\ z \in Restaurants => Row(z) = restaurant[z] /\ Row(z)' = restaurant'[z]
            BY <1>3, <2>2, <2>3, <2>4
        <2>6. Row(z)' = IF z \in Restaurants THEN restaurant'[z] ELSE dish'[z]
            BY DEF Row
        <2> QED BY <1>2, <2>3, <2>4, <2>5, <2>6 DEF ScreenTrue, Row
    <1>6. ASSUME request[t] # Null PROVE request[t] \in Request /\ request[t].target \in Rows
        BY <1>0, <1>6, RequestType, Kinds
    <1>7. RequestTrue(t)'
        <2> SUFFICES ASSUME request[t] # Null PROVE RequestTrue(t)'
            BY <1>2 DEF RequestTrue
        <2>1. PICK y \in Rows : y = request[t].target
            BY <1>6
        <2>2. /\ Edits(request[t]) => Row(y) # Null
              /\ (request[t].kind = "update" /\ request[t].patch.verified = TRUE)
                 => /\ request[t].vouched # Null
                    /\ \/ request[t].vouched = request[t].patch.identity
                       \/ /\ request[t].expected <= restaurant[y].version
                          /\ request[t].expected = restaurant[y].version
                             => request[t].vouched
                                 = Or(request[t].patch.identity, restaurant[y].identity)
              /\ request[t].kind = "newDish" => dish[y] = Null
            BY <1>0, <2>1 DEF SessionTrue, RequestTrue, VouchedAsSeen
        <2>3. Edits(request[t]) => request[t].expected \in Nat
            BY <1>6, Kinds, VersionType
            DEF Edits, UpdateRequest, PublishRequest, DishRequest
        <2>4. Edits(request[t]) => Row(y)' # Null
            BY <1>3, <2>2
        <2>5. ASSUME request[t].kind = "update",
                     request[t].expected <= restaurant[y].version
              PROVE  /\ request[t].expected <= restaurant'[y].version
                     /\ request[t].expected = restaurant'[y].version
                        => request[t].expected = restaurant[y].version
                           /\ restaurant'[y] = restaurant[y]
            <3>1. y \in Restaurants /\ Edits(request[t])
                BY <1>6, <2>1, <2>5, Kinds DEF UpdateRequest, Edits
            <3>2. /\ Row(y) = restaurant[y] /\ Row(y)' = restaurant'[y]
                  /\ Row(y)'.version \in Nat /\ Row(y).version \in Nat
                  /\ y = x => Row(y)'.version = Row(y).version + 1
                  /\ y # x => Row(y)' = Row(y)
                BY <1>3, <2>2, <3>1
            <3>3. request[t].expected \in Nat
                BY <2>3, <3>1
            <3> QED BY <2>5, <3>2, <3>3
        <2>6. request[t].kind = "newDish" => dish'[y] = Null
            <3> SUFFICES ASSUME request[t].kind = "newDish" PROVE dish'[y] = Null
                OBVIOUS
            <3>1. y \in Dishes
                BY <1>6, <2>1, Kinds DEF NewDishRequest
            <3>2. y # x
                BY <1>0, <1>1, <2>1 DEF NewDishAlone
            <3> QED BY <1>1, <2>2, <3>1, <3>2
        <2>7. Row(y)' = IF y \in Restaurants THEN restaurant'[y] ELSE dish'[y]
            BY DEF Row
        <2>8. /\ Edits(request[t]) => Row(y)' # Null
              /\ (request[t].kind = "update" /\ request[t].patch.verified = TRUE)
                 => /\ request[t].vouched # Null
                    /\ \/ request[t].vouched = request[t].patch.identity
                       \/ /\ request[t].expected <= restaurant'[y].version
                          /\ request[t].expected = restaurant'[y].version
                             => request[t].vouched
                                 = Or(request[t].patch.identity, restaurant'[y].identity)
              /\ request[t].kind = "newDish" => dish'[y] = Null
            BY <2>2, <2>4, <2>5, <2>6
        <2> QED BY <1>2, <2>1, <2>7, <2>8 DEF RequestTrue, VouchedAsSeen, Row
    <1>8. CopyTrue(t)'
        <2> SUFFICES ASSUME stage[t] = "read" PROVE CopyTrue(t)'
            BY <1>2 DEF CopyTrue
        <2>1. request[t] # Null
            BY <1>0 DEF SessionTrue, Shape
        <2>2. PICK y \in Rows : y = request[t].target
            BY <1>6, <2>1
        <2>3. Edits(request[t]) => Row(y) # Null
            BY <1>0, <2>1, <2>2 DEF SessionTrue, RequestTrue
        <2>4. ASSUME Edits(request[t]), copy[t].version \in Nat,
                     copy[t].version <= Row(y).version
              PROVE  /\ copy[t].version <= Row(y)'.version
                     /\ copy[t].version = Row(y)'.version => Row(y)' = Row(y)
            BY <1>3, <2>3, <2>4
        <2>5. /\ request[t].kind \in {"update", "publish"} =>
                    y \in Restaurants /\ Edits(request[t])
              /\ request[t].kind = "dish" => y \in Dishes /\ Edits(request[t])
            BY <1>6, <2>1, <2>2, Kinds
            DEF Edits, UpdateRequest, PublishRequest, DishRequest
        <2>6. /\ y \in Restaurants => Row(y) = restaurant[y] /\ Row(y)' = restaurant'[y]
              /\ y \in Dishes => Row(y) = dish[y] /\ Row(y)' = dish'[y]
            BY PatchAssumption DEF Row
        <2>7. CopyTrue(t)
            BY <1>0 DEF SessionTrue
        <2>8. /\ copy[t] \in UpdateCopy => copy[t].version \in Nat
              /\ copy[t] \in PublishCopy => copy[t].version \in Nat
              /\ copy[t] \in DishCopy => copy[t].version \in Nat
            BY VersionType DEF UpdateCopy, PublishCopy, DishCopy
        <2> QED BY <1>2, <2>2, <2>4, <2>5, <2>6, <2>7, <2>8 DEF CopyTrue
    <1>9. PendingTrue(t)'
        <2> SUFFICES ASSUME stage[t] = "written" PROVE PendingTrue(t)'
            BY <1>2 DEF PendingTrue
        <2>1. request[t] # Null
            BY <1>0 DEF SessionTrue, Shape
        <2>2. request[t].target \in Rows /\ PendingTrue(t)
            BY <1>0, <1>6, <2>1 DEF SessionTrue
        <2>3. writer[request[t].target] = t /\ request[t].target # x
            BY <1>1, <2>2 DEF PendingTrue
        <2>4. /\ request[t].target \in Restaurants =>
                    /\ restaurant'[request[t].target] = restaurant[request[t].target]
                    /\ attested'[request[t].target] = attested[request[t].target]
              /\ request[t].target \in Dishes =>
                    dish'[request[t].target] = dish[request[t].target]
            BY <1>1, <2>3
        <2>5. Vouches(t)' = Vouches(t) /\ Ahead(t)' = Ahead(t)
            BY <1>2 DEF Vouches, Ahead
        <2> QED BY <1>2, <2>2, <2>3, <2>4, <2>5
                DEF PendingTrue, SheetPending, DishPending, SheetSound, DishSound
    <1> QED BY <1>4, <1>5, <1>7, <1>8, <1>9 DEF SessionTrue

LEMMA CommitStep ==
    ASSUME IInv, NEW s \in Sessions, Commit(s)
    PROVE  IInv'
    <1>1. writer' = Released(s) /\ EndSession(s)
        BY DEF Commit
    <1>2. SessionTrue(s)' /\ Locks' /\ NewDishAlone'
        BY <1>1, Ended DEF IInv
    <1>3. \A t \in Sessions : SessionTrue(t)'
        BY <1>2, CommitOthers
    <1> QED BY <1>2, <1>3, CommitTables DEF IInv

LEMMA StepTrue == IInv /\ [Next]_vars => IInv'
    <1> SUFFICES ASSUME IInv, [Next]_vars PROVE IInv'
        OBVIOUS
    <1>1. ASSUME NEW s \in Sessions, SubmitStep(s) PROVE IInv'
        BY <1>1, LoadStep, SubmitsTrue DEF SubmitStep
    <1>2. ASSUME NEW s \in Sessions, HandlerStep(s) PROVE IInv'
        BY <1>2, ReadStep, UpdateRestaurantStep, PublishStep, UpdateDishStep,
           CreateDishStep, CommitStep, EndStep DEF HandlerStep
    <1>3. ASSUME NEW s \in Sessions, Abort(s) PROVE IInv'
        BY <1>3, EndStep
    <1>4. CASE UNCHANGED vars
        <2>1. UNCHANGED tables /\ UNCHANGED <<writer, stage, screen, request, copy, pending>>
            BY <1>4 DEF vars, session
        <2>2. TablesTrue' /\ \A s \in Sessions : SessionTrue(s)'
            BY <2>1, TablesFrame, Frame DEF IInv
        <2>3. TypeOK' /\ Locks' /\ NewDishAlone'
            BY <2>1 DEF IInv, TypeOK, tables, Locks, NewDishAlone
        <2> QED BY <2>2, <2>3 DEF IInv
    <1> QED BY <1>1, <1>2, <1>3, <1>4 DEF Next

LEMMA Always == Spec => []IInv
    BY InitTrue, StepTrue, PTL DEF Spec

-----------------------------------------------------------------------------
(***************************************************************************)
(* The tables, the locks and what every session holds keep their types.    *)
(***************************************************************************)
THEOREM TypeCorrect == Spec => []TypeOK
    <1>1. IInv => TypeOK
        BY DEF IInv
    <1> QED BY <1>1, Always, PTL

(***************************************************************************)
(* A verified sheet shows the identity an operator vouched for, whatever   *)
(* other sessions edit, publish or roll back meanwhile.                    *)
(***************************************************************************)
THEOREM AttestationsHold == Spec => []VerifiedWasSeen
    <1>1. IInv => VerifiedWasSeen
        BY DEF IInv, TablesTrue
    <1> QED BY <1>1, Always, PTL

(***************************************************************************)
(* The price read when a dish was allowed is the price of the row that is  *)
(* published.                                                              *)
(***************************************************************************)
THEOREM PricesHold == Spec => []PublishedDishPriced
    <1>1. IInv => PublishedDishPriced
        BY DEF IInv, TablesTrue
    <1> QED BY <1>1, Always, PTL

(***************************************************************************)
(* Each version of each row is audited, and none that was rolled back is.  *)
(***************************************************************************)
THEOREM AuditComplete == Spec => []EveryVersionAudited
    <1>1. IInv => EveryVersionAudited
        <2> SUFFICES ASSUME IInv PROVE EveryVersionAudited
            OBVIOUS
        <2>0. TypeOK /\ AuditTrue
            BY DEF IInv, TablesTrue
        <2>1. ASSUME NEW x \in Rows
              PROVE  {e[2] : e \in {f \in audit : f[1] = x}} = EditedVersions(x)
            <3>1. EditedVersions(x) \subseteq Version
                <4>1. x \in Restaurants => restaurant[x].version \in Version
                    BY <2>0 DEF TypeOK, Restaurant
                <4>2. x \notin Restaurants /\ dish[x] # Null => dish[x].version \in Version
                    BY <2>0, <2>1 DEF TypeOK, Dish, Rows
                <4> QED BY <4>1, <4>2, PatchAssumption DEF EditedVersions, Version
            <3>2. \A e \in audit : e = <<e[1], e[2]>> /\ e[1] \in Rows /\ e[2] \in Version
                BY <2>0 DEF TypeOK
            <3>3. \A v \in EditedVersions(x) : <<x, v>> \in audit
                BY <2>0, <3>1 DEF AuditTrue
            <3>4. \A e \in audit : e[1] = x => e[2] \in EditedVersions(x)
                BY <2>0, <3>2 DEF AuditTrue
            <3>5. ASSUME NEW v \in EditedVersions(x)
                  PROVE  v \in {e[2] : e \in {f \in audit : f[1] = x}}
                <4>1. <<x, v>> \in {f \in audit : f[1] = x} /\ <<x, v>>[2] = v
                    BY <3>3
                <4> QED BY <4>1
            <3>6. {e[2] : e \in {f \in audit : f[1] = x}} \subseteq EditedVersions(x)
                BY <3>4
            <3> QED BY <3>5, <3>6
        <2>2. ASSUME NEW r \in Restaurants
              PROVE  {e[2] : e \in {f \in audit : f[1] = r}} = 2..restaurant[r].version
            BY <2>1 DEF EditedVersions, Rows
        <2>3. ASSUME NEW d \in Dishes
              PROVE  {e[2] : e \in {f \in audit : f[1] = d}} =
                        IF dish[d] = Null THEN {} ELSE 1..dish[d].version
            BY <2>1, PatchAssumption DEF EditedVersions, Rows
        <2> QED BY <2>2, <2>3 DEF EveryVersionAudited
    <1> QED BY <1>1, Always, PTL

(***************************************************************************)
(* A step changes a sheet only by committing the next version of it.       *)
(***************************************************************************)
LEMMA SheetsChangeByCommit ==
    ASSUME IInv, [Next]_vars, NEW r \in Restaurants, restaurant'[r] # restaurant[r]
    PROVE  \E s \in Sessions : /\ request[s].target = r /\ restaurant'[r] = pending[s]
                               /\ SheetPending(s)
                               /\ Ahead(s) => r \in ahead'
    <1>1. restaurant' # restaurant
        OBVIOUS
    <1>2. PICK s \in Sessions : Commit(s)
        <2>1. ASSUME NEW s \in Sessions, SubmitStep(s) PROVE restaurant' = restaurant
            BY <2>1 DEF SubmitStep, Load, SubmitUpdate, SubmitPublish, SubmitDish,
                        SubmitNewDish, Submit, tables
        <2>2. ASSUME NEW s \in Sessions, HandlerStep(s), ~Commit(s)
              PROVE  restaurant' = restaurant
            BY <2>2 DEF HandlerStep, Read, UpdateRestaurant, Publish, UpdateDish,
                        CreateDish, Write, Refuse, tables
        <2>3. ASSUME NEW s \in Sessions, Abort(s) PROVE restaurant' = restaurant
            BY <2>3 DEF Abort, tables
        <2> QED BY <1>1, <2>1, <2>2, <2>3 DEF Next, vars, tables
    <1>3. request[s].target = r
        BY <1>2, Committed
    <1> QED BY <1>2, <1>3, Committed

(***************************************************************************)
(* No interleaving publishes a sheet that is not verified, but by a        *)
(* publication that names a version the sheet had not reached when it was  *)
(* read.                                                                   *)
(***************************************************************************)
THEOREM PublicationChecked == Spec => PublishNeedsVerification
    <1>1. IInv /\ [Next]_vars =>
            [\A r \in Restaurants :
                BecomesPublished(r) => restaurant'[r].verified \/ r \in ahead']_vars
        <2> SUFFICES ASSUME IInv, [Next]_vars, NEW r \in Restaurants, BecomesPublished(r)
                     PROVE  restaurant'[r].verified \/ r \in ahead'
            OBVIOUS
        <2>1. restaurant'[r] # restaurant[r]
            BY DEF BecomesPublished
        <2> QED BY <2>1, SheetsChangeByCommit
                DEF BecomesPublished, SheetPending, SheetSound
    <1> QED BY <1>1, Always, PTL DEF Spec, PublishNeedsVerification

(***************************************************************************)
(* The evidence a sheet started from survives every edit that does not     *)
(* name a version ahead of the sheet it reads.                             *)
(***************************************************************************)
THEOREM EvidencePermanent == Spec => EvidenceRootKept
    <1>1. IInv /\ [Next]_vars =>
            [\A r \in Restaurants : restaurant[r].provenance # Null =>
                \/ /\ restaurant'[r].provenance # Null
                   /\ RootOf(restaurant'[r].provenance) = RootOf(restaurant[r].provenance)
                \/ r \in ahead' /\ restaurant'[r] # restaurant[r]
            ]_vars
        <2> SUFFICES ASSUME IInv, [Next]_vars, NEW r \in Restaurants,
                            restaurant[r].provenance # Null
                     PROVE  \/ /\ restaurant'[r].provenance # Null
                               /\ RootOf(restaurant'[r].provenance)
                                    = RootOf(restaurant[r].provenance)
                            \/ r \in ahead' /\ restaurant'[r] # restaurant[r]
            OBVIOUS
        <2>1. CASE restaurant'[r] = restaurant[r]
            BY <2>1
        <2>2. CASE restaurant'[r] # restaurant[r]
            BY <2>2, SheetsChangeByCommit DEF SheetPending, SheetSound
        <2> QED BY <2>1, <2>2
    <1> QED BY <1>1, Always, PTL DEF Spec, EvidenceRootKept
=============================================================================
