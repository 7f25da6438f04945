------------------------------ MODULE Editorial ------------------------------
(***************************************************************************)
(* The editorial workflow of the back office: edition, verification and    *)
(* publication of sheets and of their dishes (src/admin/admin.service.ts). *)
(*                                                                         *)
(* A client loads a sheet or a dish, then submits a change with a version  *)
(* of its choice: the one on screen, or one it reckons the row will have,  *)
(* as docs/collection/USAGE.md:86 does.  The handler opens a READ          *)
(* COMMITTED transaction without any lock, reads the row, decides on that  *)
(* copy, then writes with updateMany where version = expectedVersion,      *)
(* audits and commits.  The row written stays locked until the end of the  *)
(* transaction; nothing guards what was read.  Any open transaction may be *)
(* rolled back.                                                            *)
(***************************************************************************)
EXTENDS Naturals

CONSTANTS
    Sessions, Restaurants, Dishes,
    DishOf,      \* the restaurant of each dish
    Identities,  \* a name, an address and coordinates
    Prices,
    Patches,     \* accepted bodies of PATCH /restaurants/:id
    DishPatches, \* accepted bodies of PATCH /dishes/:id
    MaxVersion,  \* bound on the versions of sheets and dishes
    Null,        \* null
    Absent       \* undefined

Rows == Restaurants \cup Dishes
Status == {"DRAFT", "PENDING_REVIEW", "PUBLISHED", "HIDDEN", "ARCHIVED"}
Version == 1..MaxVersion

(***************************************************************************)
(* The versions a request may name: any integer from 1 (VersionDto), up to *)
(* the last one that the bound lets a row leave.                           *)
(***************************************************************************)
Expected == 1..(MaxVersion - 1)

(***************************************************************************)
(* A patch is an instance of its DTO class.  The build targets ES2023:     *)
(* every field the class declares is an own property of every instance,    *)
(* undefined (Absent) when the body does not carry it, so that Object.keys *)
(* lists them all.  A patch with no field here edits other columns: phone, *)
(* website, opening hours, cuisines, photo.                                *)
(***************************************************************************)
Patch == [identity : Identities \cup {Absent},
          status : (Status \ {"PUBLISHED"}) \cup {Absent},
          verified : BOOLEAN \cup {Absent}]
DishPatch == [price : Prices \cup {Null, Absent},
              status : (Status \ {"PENDING_REVIEW"}) \cup {Absent}]

ASSUME PatchAssumption ==
    /\ Patches \subseteq Patch /\ DishPatches \subseteq DishPatch
    /\ DishOf \in [Dishes -> Restaurants]
    /\ Restaurants \cap Dishes = {}
    /\ MaxVersion \in Nat \ {0}

(***************************************************************************)
(* The provenance of a field group: the version that wrote it (0 for the   *)
(* source that created the sheet) and the evidence it derives from.        *)
(***************************************************************************)
Provenance == [edit : 0..MaxVersion, derivedFrom : (0..MaxVersion) \cup {Null}]

Restaurant == [identity : Identities, status : Status,
               verified : BOOLEAN, version : Version,
               provenance : Provenance \cup {Null}]
Dish == [price : Prices \cup {Null}, status : Status, version : Version]

(***************************************************************************)
(* A request, and with it what its author vouches for: who sends verified: *)
(* true vouches for the identity in the body, else for the one on screen,  *)
(* else, when the version named is not the one on screen, for whatever     *)
(* that version holds (Absent).                                            *)
(***************************************************************************)
UpdateRequest ==
    [kind : {"update"}, target : Restaurants, patch : Patches, expected : Version,
     vouched : Identities \cup {Null, Absent}]
PublishRequest == [kind : {"publish"}, target : Restaurants, expected : Version]
DishRequest ==
    [kind : {"dish"}, target : Dishes, patch : DishPatches, expected : Version]
NewDishRequest == [kind : {"newDish"}, target : Dishes, price : Prices \cup {Null}]

Request == UpdateRequest \cup PublishRequest \cup DishRequest \cup NewDishRequest

(***************************************************************************)
(* What each handler keeps of the rows it reads, with their version, that  *)
(* it does not look at.                                                    *)
(***************************************************************************)
UpdateCopy  == [version : Version, provenance : Provenance \cup {Null}]
PublishCopy == [version : Version, verified : BOOLEAN]
DishCopy    == [version : Version, price : Prices \cup {Null}, status : Status,
                open : BOOLEAN]

Copy == UpdateCopy \cup PublishCopy \cup DishCopy

(***************************************************************************)
(* What a client has on screen: a row, its version, a sheet's identity.    *)
(***************************************************************************)
Screen == [row : Rows, version : Version, identity : Identities \cup {Null}]

ASSUME NullsAssumption ==
    /\ Absent \notin Identities /\ Absent \notin Prices /\ Absent \notin Status
    /\ Absent \notin BOOLEAN /\ Absent # Null
    /\ Null \notin Sessions /\ Null \notin Identities /\ Null \notin Prices
    /\ Null \notin Nat /\ Null \notin Provenance
    /\ Null \notin Restaurant /\ Null \notin Dish
    /\ Null \notin Request /\ Null \notin Copy /\ Null \notin Screen

VARIABLES
    restaurant,  \* committed sheets
    dish,        \* committed dishes, Null before their creation
    writer,      \* the transaction that holds the lock of each row
    audit,       \* committed AdminAudit rows, as <<row, version written>>
    attested,    \* ghost: the identity an operator last vouched for, by sheet
    ahead,       \* ghost: rows whose last change was decided ahead of them
    stage,       \* where each session is
    screen,      \* what its client has loaded
    request,     \* what it submitted
    copy,        \* what its transaction read
    pending      \* the row it wrote and has not committed

tables == <<restaurant, dish, audit, attested, ahead>>
session == <<stage, screen, request, copy, pending>>
vars == <<tables, writer, session>>

Row(x) == IF x \in Restaurants THEN restaurant[x] ELSE dish[x]

TypeOK ==
    /\ restaurant \in [Restaurants -> Restaurant]
    /\ dish \in [Dishes -> Dish \cup {Null}]
    /\ writer \in [Rows -> Sessions \cup {Null}]
    /\ audit \subseteq Rows \X Version
    /\ attested \in [Restaurants -> Identities \cup {Null}]
    /\ ahead \subseteq Rows
    /\ stage \in [Sessions -> {"idle", "loaded", "submitted", "read", "written"}]
    /\ screen \in [Sessions -> Screen \cup {Null}]
    /\ request \in [Sessions -> Request \cup {Null}]
    /\ copy \in [Sessions -> Copy \cup {Null}]
    /\ pending \in [Sessions -> Restaurant \cup Dish \cup {Null}]

(***************************************************************************)
(* Sheets as an import or createRestaurant() leaves them; fieldProvenance  *)
(* may lack a group.                                                       *)
(***************************************************************************)
Init ==
    /\ restaurant \in [Restaurants ->
            [identity : Identities, status : {"DRAFT"},
             verified : {FALSE}, version : {1},
             provenance : {Null, [edit |-> 0, derivedFrom |-> Null]}]]
    /\ dish = [d \in Dishes |-> Null]
    /\ writer = [x \in Rows |-> Null]
    /\ audit = {}
    /\ attested = [r \in Restaurants |-> Null]
    /\ ahead = {}
    /\ stage = [s \in Sessions |-> "idle"]
    /\ screen = [s \in Sessions |-> Null]
    /\ request = [s \in Sessions |-> Null]
    /\ copy = [s \in Sessions |-> Null]
    /\ pending = [s \in Sessions |-> Null]

-----------------------------------------------------------------------------
(* The client and the opening of the transaction. *)

(***************************************************************************)
(* GET /restaurants/:id, GET /restaurants/:id/dishes.                      *)
(***************************************************************************)
Load(s, x) ==
    /\ stage[s] = "idle"
    /\ Row(x) # Null
    /\ screen' = [screen EXCEPT ![s] =
            [row |-> x, version |-> Row(x).version,
             identity |-> IF x \in Restaurants THEN restaurant[x].identity
                          ELSE Null]]
    /\ stage' = [stage EXCEPT ![s] = "loaded"]
    /\ UNCHANGED <<tables, writer, request, copy, pending>>

(***************************************************************************)
(* A field the body does not carry is left out of the UPDATE.              *)
(***************************************************************************)
Or(given, kept) == IF given = Absent THEN kept ELSE given

Submit(s, q) ==
    /\ stage[s] = "loaded"
    /\ request' = [request EXCEPT ![s] = q]
    /\ screen' = [screen EXCEPT ![s] = Null]
    /\ stage' = [stage EXCEPT ![s] = "submitted"]
    /\ UNCHANGED <<tables, writer, copy, pending>>

SubmitUpdate(s, p, version) ==
    /\ stage[s] = "loaded" /\ screen[s].row \in Restaurants
    /\ Submit(s, [kind |-> "update", target |-> screen[s].row, patch |-> p,
                  expected |-> version,
                  vouched |-> IF p.verified # TRUE THEN Null
                              ELSE IF version = screen[s].version
                              THEN Or(p.identity, screen[s].identity)
                              ELSE p.identity])

SubmitPublish(s, version) ==
    /\ stage[s] = "loaded" /\ screen[s].row \in Restaurants
    /\ Submit(s, [kind |-> "publish", target |-> screen[s].row,
                  expected |-> version])

SubmitDish(s, p, version) ==
    /\ stage[s] = "loaded" /\ screen[s].row \in Dishes
    /\ Submit(s, [kind |-> "dish", target |-> screen[s].row, patch |-> p,
                  expected |-> version])

(***************************************************************************)
(* POST /restaurants/:id/dishes: d is the UUID the new dish will have.     *)
(***************************************************************************)
SubmitNewDish(s, d, price) ==
    /\ stage[s] = "loaded" /\ screen[s].row = DishOf[d]
    /\ dish[d] = Null /\ \A t \in Sessions : request[t] # Null =>
                            request[t].target # d
    /\ Submit(s, [kind |-> "newDish", target |-> d, price |-> price])

(***************************************************************************)
(* findUnique, with the restaurant of a dish: the copy the handler decides *)
(* on.                                                                     *)
(***************************************************************************)
CopyFor(q) ==
    CASE q.kind = "update" ->
            [version |-> restaurant[q.target].version,
             provenance |-> restaurant[q.target].provenance]
      [] q.kind = "publish" ->
            [version |-> restaurant[q.target].version,
             verified |-> restaurant[q.target].verified]
      [] q.kind = "dish" ->
            [version |-> dish[q.target].version,
             price |-> dish[q.target].price, status |-> dish[q.target].status,
             open |-> /\ restaurant[DishOf[q.target]].verified
                      /\ restaurant[DishOf[q.target]].status = "PUBLISHED"]
      [] q.kind = "newDish" -> Null

Read(s) ==
    /\ stage[s] = "submitted"
    /\ copy' = [copy EXCEPT ![s] = CopyFor(request[s])]
    /\ stage' = [stage EXCEPT ![s] = "read"]
    /\ UNCHANGED <<tables, writer, screen, request, pending>>

-----------------------------------------------------------------------------
(* Writing. *)

Reads(s, kind) == stage[s] = "read" /\ request[s].kind = kind

(***************************************************************************)
(* Variant: the version is left out of the WHERE clause.                   *)
(***************************************************************************)
AlwaysMatches(s) == TRUE

(***************************************************************************)
(* The WHERE of updateMany, evaluated on the last committed row once its   *)
(* lock is free.                                                           *)
(***************************************************************************)
Matches(s) == Row(request[s].target).version = request[s].expected

Write(s, row) ==
    LET x == request[s].target
    IN  /\ writer[x] = Null
        /\ Matches(s)
        /\ Row(x).version < MaxVersion
        /\ writer' = [writer EXCEPT ![x] = s]
        /\ pending' = [pending EXCEPT ![s] = row]
        /\ stage' = [stage EXCEPT ![s] = "written"]
        /\ UNCHANGED <<tables, screen, request, copy>>

(***************************************************************************)
(* Object.keys(editable).                                                  *)
(***************************************************************************)
Keys(patch) == DOMAIN patch

(***************************************************************************)
(* Variant: an edition of the identity leaves the verification alone.      *)
(***************************************************************************)
VerifiedKept(patch, kept) == Or(patch.verified, kept)

(***************************************************************************)
(* A sensitive key without a word on verification resets verified.         *)
(***************************************************************************)
VerifiedAfter(patch, kept) ==
    IF "identity" \in Keys(patch) /\ patch.verified = Absent THEN FALSE
    ELSE Or(patch.verified, kept)

(***************************************************************************)
(* Variant: the stamp names the provenance it replaces.                    *)
(***************************************************************************)
StampedLast(base, version) ==
    [edit |-> version, derivedFrom |-> IF base = Null THEN Null ELSE base.edit]

(***************************************************************************)
(* The MENU2KIN_EDIT stamp of an edited group keeps the evidence below it, *)
(* as read.                                                                *)
(***************************************************************************)
Stamped(base, version) ==
    [edit |-> version,
     derivedFrom |-> IF base = Null THEN Null
                     ELSE IF base.derivedFrom # Null THEN base.derivedFrom
                     ELSE base.edit]

UpdateRestaurant(s) ==
    LET x == request[s].target
        p == request[s].patch
        now == restaurant[x]
    IN  /\ Reads(s, "update")
        /\ Write(s, [identity |-> Or(p.identity, now.identity),
                     status |-> Or(p.status, now.status),
                     verified |-> VerifiedAfter(p, now.verified),
                     version |-> now.version + 1,
                     provenance |-> Stamped(copy[s].provenance,
                                            now.version + 1)])

Publish(s) ==
    /\ Reads(s, "publish")
    /\ copy[s].verified
    /\ Write(s, [restaurant[request[s].target] EXCEPT
                    !.status = "PUBLISHED", !.version = @ + 1])

(***************************************************************************)
(* Variant: the price of the body alone is looked at.                      *)
(***************************************************************************)
DishAllowedByBody(s) ==
    request[s].patch.status = "PUBLISHED" =>
        /\ Or(request[s].patch.price, copy[s].price) # Null
        /\ copy[s].open

(***************************************************************************)
(* A dish that will be published needs a price, and its restaurant, as     *)
(* read, must be verified and published.                                   *)
(***************************************************************************)
DishAllowed(s) ==
    LET p == request[s].patch
    IN  Or(p.status, copy[s].status) = "PUBLISHED" =>
            /\ Or(p.price, copy[s].price) # Null
            /\ copy[s].open

UpdateDish(s) ==
    LET p == request[s].patch
        now == dish[request[s].target]
    IN  /\ Reads(s, "dish")
        /\ DishAllowed(s)
        /\ Write(s, [price |-> Or(p.price, now.price),
                     status |-> Or(p.status, now.status),
                     version |-> now.version + 1])

(***************************************************************************)
(* The insert of a dish: a draft, with or without a price.                 *)
(***************************************************************************)
CreateDish(s) ==
    LET x == request[s].target
    IN  /\ Reads(s, "newDish")
        /\ writer' = [writer EXCEPT ![x] = s]
        /\ pending' = [pending EXCEPT ![s] =
                [price |-> request[s].price, status |-> "DRAFT", version |-> 1]]
        /\ stage' = [stage EXCEPT ![s] = "written"]
        /\ UNCHANGED <<tables, screen, request, copy>>

-----------------------------------------------------------------------------
(* The end of the transaction. *)

EndSession(s) ==
    /\ stage' = [stage EXCEPT ![s] = "idle"]
    /\ screen' = [screen EXCEPT ![s] = Null]
    /\ request' = [request EXCEPT ![s] = Null]
    /\ copy' = [copy EXCEPT ![s] = Null]
    /\ pending' = [pending EXCEPT ![s] = Null]

Released(s) == [x \in Rows |-> IF writer[x] = s THEN Null ELSE writer[x]]

Vouches(s) == request[s].kind = "update" /\ request[s].vouched # Null

(***************************************************************************)
(* The request named a version that its row had not reached when the       *)
(* handler read it: the handler decided on a row it did not overwrite.     *)
(***************************************************************************)
Ahead(s) == request[s].kind # "newDish" /\ request[s].expected > copy[s].version

Commit(s) ==
    LET x == request[s].target
    IN  /\ stage[s] = "written"
        /\ restaurant' = IF x \in Restaurants
                         THEN [restaurant EXCEPT ![x] = pending[s]] ELSE restaurant
        /\ dish' = IF x \in Dishes THEN [dish EXCEPT ![x] = pending[s]] ELSE dish
        /\ audit' = audit \cup {<<x, pending[s].version>>}
        /\ attested' =
            IF Vouches(s)
            THEN [attested EXCEPT ![x] = Or(request[s].vouched,
                                            pending[s].identity)]
            ELSE attested
        /\ ahead' = IF Ahead(s) THEN ahead \cup {x} ELSE ahead \ {x}
        /\ writer' = Released(s)
        /\ EndSession(s)

(***************************************************************************)
(* 409 of the handler: not verified, not priced, or another version.       *)
(***************************************************************************)
Refuse(s) ==
    /\ stage[s] = "read"
    /\ \/ request[s].kind = "publish" /\ ~copy[s].verified
       \/ request[s].kind = "dish" /\ ~DishAllowed(s)
       \/ /\ request[s].kind # "newDish"
          /\ writer[request[s].target] = Null /\ ~Matches(s)
    /\ EndSession(s)
    /\ UNCHANGED <<tables, writer>>

(***************************************************************************)
(* Variant: the audit row is written outside the transaction.              *)
(***************************************************************************)
AbortAudited(s) ==
    /\ stage[s] # "idle"
    /\ EndSession(s)
    /\ writer' = Released(s)
    /\ audit' = IF stage[s] = "written"
                THEN audit \cup {<<request[s].target, pending[s].version>>}
                ELSE audit
    /\ UNCHANGED <<restaurant, dish, attested, ahead>>

(***************************************************************************)
(* Timeout, crash or lost connection: the rows written are forgotten.  The *)
(* client may also give up before submitting.                              *)
(***************************************************************************)
Abort(s) ==
    /\ stage[s] # "idle"
    /\ EndSession(s)
    /\ writer' = Released(s)
    /\ UNCHANGED tables

SubmitStep(s) ==
    \/ \E x \in Rows : Load(s, x)
    \/ \E p \in Patches, version \in Expected : SubmitUpdate(s, p, version)
    \/ \E version \in Expected : SubmitPublish(s, version)
    \/ \E p \in DishPatches, version \in Expected : SubmitDish(s, p, version)
    \/ \E d \in Dishes, price \in Prices \cup {Null} : SubmitNewDish(s, d, price)

HandlerStep(s) ==
    \/ Read(s)
    \/ UpdateRestaurant(s) \/ Publish(s) \/ UpdateDish(s) \/ CreateDish(s)
    \/ Commit(s) \/ Refuse(s)

Next == \E s \in Sessions : SubmitStep(s) \/ HandlerStep(s) \/ Abort(s)

Spec == Init /\ [][Next]_vars

-----------------------------------------------------------------------------
(***************************************************************************)
(* A verified sheet shows the very identity an operator vouched for: the   *)
(* one in the body, else the one on the screen whose version was sent.     *)
(* Neither a concurrent edit nor a rolled back one slips under the         *)
(* attestation.  Who attests a version that was not on screen, and names   *)
(* no identity, vouches for whatever that version holds.                   *)
(***************************************************************************)
VerifiedWasSeen ==
    \A r \in Restaurants :
        restaurant[r].verified => restaurant[r].identity = attested[r]

(***************************************************************************)
(* A published dish has a price: mapDish() throws on one that has none,    *)
(* and every public list that meets it fails.  The version check keeps it  *)
(* so, except when a request names a version that the dish reaches only    *)
(* between the read of the handler and its write.                          *)
(***************************************************************************)
PublishedDishPriced ==
    \A d \in Dishes :
        dish[d] # Null /\ dish[d].status = "PUBLISHED"
        => dish[d].price # Null \/ d \in ahead

(***************************************************************************)
(* Every version of a sheet or of a dish is audited once and only once,    *)
(* and no audit row speaks of a version that was rolled back.              *)
(***************************************************************************)
EveryVersionAudited ==
    /\ \A r \in Restaurants :
        {e[2] : e \in {f \in audit : f[1] = r}} = 2..restaurant[r].version
    /\ \A d \in Dishes :
        {e[2] : e \in {f \in audit : f[1] = d}} =
            IF dish[d] = Null THEN {} ELSE 1..dish[d].version

(***************************************************************************)
(* A sheet becomes PUBLISHED.                                              *)
(***************************************************************************)
BecomesPublished(r) ==
    restaurant[r].status # "PUBLISHED" /\ restaurant'[r].status = "PUBLISHED"

(***************************************************************************)
(* POST /restaurants/:id/publish "exige vérification humaine préalable"    *)
(* (docs/collection/USAGE.md:76): a sheet becomes PUBLISHED only while it  *)
(* is verified.                                                            *)
(***************************************************************************)
PublicationVerified ==
    [][\A r \in Restaurants : BecomesPublished(r) => restaurant'[r].verified]_vars

(***************************************************************************)
(* A sheet becomes PUBLISHED unverified in one way only: its publication   *)
(* names a version that the sheet reaches between the read of the handler  *)
(* and its write.  A version the sheet had when it was read, or before,    *)
(* never publishes it unverified, whatever edits come between.             *)
(***************************************************************************)
PublishNeedsVerification ==
    [][\A r \in Restaurants :
          BecomesPublished(r) => restaurant'[r].verified \/ r \in ahead']_vars

(***************************************************************************)
(* The evidence at the root of a provenance survives every edit: edits     *)
(* derive from it, however many there are.  An edit that names a version   *)
(* ahead of the sheet it reads may lose what was written meanwhile.        *)
(***************************************************************************)
RootOf(p) == IF p.derivedFrom # Null THEN p.derivedFrom ELSE p.edit

EvidenceRootKept ==
    [][\A r \in Restaurants : restaurant[r].provenance # Null =>
          \/ /\ restaurant'[r].provenance # Null
             /\ RootOf(restaurant'[r].provenance) = RootOf(restaurant[r].provenance)
          \/ r \in ahead' /\ restaurant'[r] # restaurant[r]
      ]_vars
=============================================================================
