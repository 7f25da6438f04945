------------------------------- MODULE Website -------------------------------
(***************************************************************************)
(* The intake of a restaurant's own page: the registry of approved sources *)
(* (src/ingestion/infrastructure/website-sources.ts), the JSON-LD reader   *)
(* (src/ingestion/domain/jsonld.ts) and the staging of what it read        *)
(* (src/ingestion/website-import.service.ts).  Drafts and duplicates are   *)
(* Import's; here a request reads the registry and the page, then waits    *)
(* for the import lock, while the registry, the page and the day change.   *)
(***************************************************************************)
EXTENDS Integers, Sequences, FiniteSets, SequencesExt

CONSTANTS
  Sessions,    \* concurrent requests
  Names, Points, NodeIds, Licenses,
  Drafts,      \* bound: the pages the site may show before it is a source
  Pages,       \* bound: those it may publish once it is one
  Reviews,     \* days on which an owner's review is dated
  ReviewDays,  \* 90
  MaxDay,      \* bound: the calendar
  Null

\* One object of a script, in the order walk() meets them.  keys: how many it
\* has; geo: nothing, a point of its own, or a reference to another node.
Node == [id : NodeIds \cup {Null}, type : {"restaurant", "business", "other"}, keys : Nat,
         name : Names \cup {Null}, point : Points \cup {Null},
         geo : Points \cup NodeIds \cup {Null}]

\* An entry of the registry: sound has approved, license, evidence and the three
\* rights; covers: origin and path prefix cover the page.
Entry == [sound : BOOLEAN, covers : BOOLEAN, reviewed : Reviews, license : Licenses]

ASSUME WebsiteAssumption ==
  /\ Pages \subseteq Drafts /\ Drafts \subseteq Seq(Node) /\ Null \notin NodeIds
  /\ Reviews \subseteq Int /\ ReviewDays \in Nat /\ MaxDay \in Nat

VARIABLES
  registry,  \* the entry of this source
  page,      \* what the site publishes
  today,
  session,   \* what each request read: its entry and its candidates, or Null
  record,    \* SourceRecord: externalId -> row
  runs,      \* OsmImportRun: the commands stored
  answered   \* history: the last command answered as done, or Null

vars == <<registry, page, today, session, record, runs, answered>>

-----------------------------------------------------------------------------
LatestById(p, id) == CHOOSE i \in DOMAIN p :
  p[i].id = id /\ \A j \in DOMAIN p : p[j].id = id => j <= i

\* byId: of the nodes that share an @id, the one with the most keys; of equals,
\* the first.
ById(p, id) == CHOOSE i \in DOMAIN p :
  /\ p[i].id = id
  /\ \A j \in DOMAIN p : p[j].id = id =>
       p[j].keys < p[i].keys \/ (p[j].keys = p[i].keys /\ i <= j)

\* resolve(n.geo), then its coordinates: a reference leads to the node it names.
Place(p, n) ==
  CASE n.geo \in NodeIds -> IF \E i \in DOMAIN p : p[i].id = n.geo
                              THEN p[ById(p, n.geo)].point ELSE Null
    [] OTHER -> n.geo

IdentityByName(p, n) == IF n.id # Null THEN <<n.id>> ELSE <<n.name>>

\* The @id, or a digest of what the node says of itself.
Identity(p, n) == IF n.id # Null THEN <<n.id>> ELSE <<n.name, Place(p, n)>>

CandidateOf(p, n) ==
  [ref |-> Identity(p, n), name |-> n.name, place |-> Place(p, n),
   flagged |-> n.type = "business"]

\* One turn of the loop: other types and identities already seen are skipped.
UnlessSeen(p, cands, n) ==
  IF n.type = "other" \/ \E i \in DOMAIN cands : cands[i].ref = Identity(p, n)
    THEN cands ELSE Append(cands, CandidateOf(p, n))

\* parseRestaurantJsonLd: what was read of the first i nodes, i from none to all.
Candidates(p) ==
  LET read[i \in 0..Len(p)] ==
        IF i = 0 THEN <<>> ELSE UnlessSeen(p, read[i - 1], p[i])
  IN read[Len(p)]

AllowedIfSound(e) == e.sound /\ e.covers

\* approvedWebsiteSource: not approved, out of scope, reviewed in the future or
\* too long ago, the source is refused.
Allowed(e) ==
  /\ e.sound /\ e.covers
  /\ e.reviewed <= today /\ today - e.reviewed <= ReviewDays

-----------------------------------------------------------------------------
Init ==
  /\ registry \in {e \in Entry : ~e.sound /\ ~e.covers}
  /\ page \in Drafts /\ today = 0
  /\ session = [s \in Sessions |-> Null]
  /\ record = <<>> /\ runs = {} /\ answered = Null

\* The registry is a file an operator edits; the page is the restaurant's.
Review(e) ==
  /\ page \in Pages
  /\ registry' = e
  /\ UNCHANGED <<page, today, session, record, runs, answered>>

Publish(p) ==
  /\ page' = p
  /\ UNCHANGED <<registry, today, session, record, runs, answered>>

\* Thirty seconds bound a transaction, so a request waits past one midnight.
NextDay ==
  /\ page \in Pages /\ today < MaxDay
  /\ \A s \in Sessions : session[s] # Null => session[s].since = today
  /\ today' = today + 1
  /\ UNCHANGED <<registry, page, session, record, runs, answered>>

\* The checks and the reading, before the transaction.
Check(s) ==
  /\ session[s] = Null
  /\ Allowed(registry)
  /\ session' = [session EXCEPT ![s] =
       [source |-> registry, cands |-> Candidates(page), since |-> today]]
  /\ UNCHANGED <<registry, page, today, record, runs, answered>>

\* commandHash: the entry and the candidates, not the page.
Command(s) == [source |-> session[s].source, cands |-> session[s].cands]

StagedByPosition(c) ==
  LET refs == {c.cands[i].ref : i \in DOMAIN c.cands}
  IN [ref \in DOMAIN record \cup refs |->
        IF ref \notin refs THEN record[ref]
        ELSE [candidate |-> c.cands[1], snapshot |-> today, rights |-> c.source]]

\* The upserts: an existing record keeps the rights it was created with.
Staged(c) ==
  LET refs == {c.cands[i].ref : i \in DOMAIN c.cands}
      of(ref) == c.cands[CHOOSE i \in DOMAIN c.cands : c.cands[i].ref = ref]
  IN [ref \in DOMAIN record \cup refs |->
        IF ref \notin refs THEN record[ref]
        ELSE [candidate |-> of(ref), snapshot |-> today,
              rights |-> IF ref \in DOMAIN record THEN record[ref].rights ELSE c.source]]

StoreWithoutRun(s) ==
  /\ session[s] # Null
  /\ record' = Staged(Command(s))
  /\ answered' = Command(s)
  /\ session' = [session EXCEPT ![s] = Null]
  /\ UNCHANGED <<registry, page, today, runs>>

\* The transaction, under the lock: a command already run answers what it
\* answered then and writes nothing.
Store(s) ==
  /\ session[s] # Null
  /\ record' = IF Command(s) \in runs THEN record ELSE Staged(Command(s))
  /\ runs' = runs \cup {Command(s)}
  /\ answered' = Command(s)
  /\ session' = [session EXCEPT ![s] = Null]
  /\ UNCHANGED <<registry, page, today>>

\* Rolled back: the time-out, a crash, a lost connection.
Fail(s) ==
  /\ session[s] # Null
  /\ session' = [session EXCEPT ![s] = Null]
  /\ UNCHANGED <<registry, page, today, record, runs, answered>>

Next ==
  \/ \E e \in Entry : Review(e)
  \/ \E p \in Pages : Publish(p)
  \/ NextDay
  \/ \E s \in Sessions : Check(s) \/ Store(s) \/ Fail(s)

Spec == Init /\ [][Next]_vars

-----------------------------------------------------------------------------
\* The state's shape.
TypeOK ==
  /\ registry \in Entry /\ page \in Drafts /\ today \in 0..MaxDay
  /\ \A s \in Sessions : session[s] # Null =>
       session[s].source \in Entry /\ session[s].since \in 0..today
  /\ \A ref \in DOMAIN record :
       /\ record[ref].candidate.ref = ref
       /\ record[ref].rights \in Entry /\ record[ref].snapshot \in 0..today

Refs(cands) == [i \in DOMAIN cands |-> cands[i].ref]

Read == {Candidates(page)[i] : i \in DOMAIN Candidates(page)}

\* A page names each source once, which Import assumes of its commands, and loses
\* no restaurant: each has a candidate with its @id or, if it has none, with its
\* own name and point (parseRestaurantJsonLd).
EachSourceOnce ==
  /\ IsInjective([i \in DOMAIN Candidates(page) |-> Candidates(page)[i].ref])
  /\ \A i \in DOMAIN page : page[i].type # "other" =>
       \E c \in Read : IF page[i].id # Null THEN c.ref = <<page[i].id>>
                       ELSE c.name = page[i].name /\ c.place = Place(page, page[i])

\* What each restaurant of a page says of itself.
Restaurants(p) == {i \in DOMAIN p : p[i].type # "other"}
Readings(p) == {CandidateOf(p, p[i]) : i \in Restaurants(p)}

\* Of the nodes that share an @id, those with as many keys agree on the point, so
\* that byId may take either.
TargetsAgree(p) ==
  \A i, j \in DOMAIN p :
    p[i].id # Null /\ p[i].id = p[j].id /\ p[i].keys = p[j].keys
      => p[i].point = p[j].point

\* The order of the scripts, which a site changes without noticing, neither adds
\* nor takes away an establishment, and moves no reference from its target: what
\* is read of each is what one of its own nodes says, and may change only where
\* two restaurants of one identity contradict each other, for the loop hears the
\* first it meets and not the richest (byId, resolve, seen).
OrderIsIrrelevant ==
  TargetsAgree(page) =>
    \A f \in Bijection(DOMAIN page, DOMAIN page) :
      LET other == ToSet(Candidates([i \in DOMAIN page |-> page[f[i]]]))
      IN /\ {c.ref : c \in other} = {c.ref : c \in Read}
         /\ other \subseteq Readings(page)
         /\ \A c \in other \ Read : \E d \in Readings(page) : d.ref = c.ref /\ d # c

\* The entry was sound, and its review neither future nor older than its ninety
\* days and the midnight a transaction may wait past.
ReviewedInTime(rights) ==
  /\ rights.sound /\ rights.covers
  /\ rights.reviewed <= today /\ today - rights.reviewed <= ReviewDays + 1

\* Nothing is staged under a registry entry that was not sound, or whose review
\* was future or too old, though the entry was read before the lock was taken and
\* may have been withdrawn since (import, approvedWebsiteSource;
\* docs/collection/USAGE.md:94).
StagedUnderReview ==
  [][\A ref \in DOMAIN record' \ DOMAIN record :
        ReviewedInTime(record'[ref].rights)]_vars

\* What a record shows is accounted for: some stored run staged that candidate,
\* and some stored run has the rights it was created with (import).
RecordsAccountedFor ==
  \A ref \in DOMAIN record :
    /\ \E c \in runs : record[ref].candidate \in ToSet(c.cands)
    /\ \E c \in runs : c.source = record[ref].rights

\* docs/collection/README.md:74 and USAGE.md:104 call a record the last observation
\* of its source, the state it is known in: the records of the command last
\* answered as done hold what that command read (import, its replay).
LastObservationKept ==
  answered # Null =>
    \A i \in DOMAIN answered.cands :
      record[answered.cands[i].ref].candidate = answered.cands[i]
=============================================================================
