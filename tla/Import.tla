-------------------------------- MODULE Import --------------------------------
(***************************************************************************)
(* The transactions that create sheets or attach sources to them: the OSM  *)
(* import, the website import, the manual creation and the manual link     *)
(* (src/osm/application/osm-import.service.ts,                              *)
(* src/ingestion/website-import.service.ts, src/admin/admin.service.ts).   *)
(*                                                                         *)
(* Each runs as one PostgreSQL transaction under the advisory lock         *)
(* 72421601, READ COMMITTED: its statements see the committed tables       *)
(* overlaid with its own uncommitted rows.  A simulation (dry run) takes   *)
(* no lock and reads one REPEATABLE READ snapshot.  updateRestaurant()     *)
(* takes no lock either and may commit between any two statements.  Any    *)
(* open transaction may be rolled back: timeout, crash, lost connection.   *)
(*                                                                         *)
(* One step is one statement group between which nothing this module       *)
(* models can be told apart; the tables OsmRecord and SourceRecord, whose  *)
(* keys are disjoint, are one variable, record.                            *)
(***************************************************************************)
EXTENDS Discovery, Sequences, FiniteSets

CONSTANTS
    Sessions,           \* concurrent requests or CLI runs
    Ids,                \* restaurant identifiers (UUIDs)
    OsmRefs, SiteRefs,  \* (osmType, osmId) and (sourceKey, externalId)
    Commands,           \* accepted import commands
    Requests,           \* what a session may ask for
    Edits,              \* identities an editor may write on a sheet
    MaxVersion          \* bound on Restaurant.version

Refs == OsmRefs \cup SiteRefs

(***************************************************************************)
(* A candidate after normalizeOsmElement() or parseRestaurantJsonLd().     *)
(* flagged: name over 200 characters or LIFECYCLE_REVIEW for OSM,          *)
(* AMBIGUOUS_BUSINESS_TYPE for a web site.                                 *)
(***************************************************************************)
Candidate == [ref : Refs, version : Nat \cup {Null}, name : Names \cup {Null},
              place : Places \cup {Null}, contacts : SUBSET Contacts,
              flagged : BOOLEAN]

(***************************************************************************)
(* A command is what its commandHash digests, so it is its own hash.  The  *)
(* snapshot of a web page is the clock of the server and is never read.    *)
(***************************************************************************)
Command == [kind : {"osm", "site"}, snapshot : Nat, zone : SUBSET Places,
            cands : Seq(Candidate)]

(***************************************************************************)
(* parseOverpassResponse() refuses a duplicated identity in a batch and    *)
(* parseRestaurantJsonLd() drops it.                                       *)
(***************************************************************************)
NamesEachSourceOnce(h) ==
    \A i, j \in 1..Len(h.cands) : h.cands[i].ref = h.cands[j].ref => i = j

ASSUME CommandsAssumption ==
    /\ Commands \subseteq Command
    /\ \A h \in Commands :
        /\ NamesEachSourceOnce(h)
        /\ \A i \in 1..Len(h.cands) :
              h.cands[i].ref \in IF h.kind = "osm" THEN OsmRefs ELSE SiteRefs

ImportRequest == [kind : {"import"}, command : Commands, dry : BOOLEAN]
CreateRequest == [kind : {"create"}, sheet : Identity]
LinkRequest   == [kind : {"link"}, ref : OsmRefs, id : Ids]

ASSUME RequestsAssumption ==
    /\ Requests \subseteq ImportRequest \cup CreateRequest \cup LinkRequest
    /\ Edits \subseteq Identity
    /\ MaxVersion \in Nat \ {0}

ASSUME DisjointAssumption == OsmRefs \cap SiteRefs = {}

Outcome == {"DRAFT_CREATED", "EXACT_MATCH", "NEEDS_DATA", "NEEDS_REVIEW",
            "OUTSIDE_ZONE", "STALE_SOURCE"}

Restaurant == [name : Names, place : Places, contacts : SUBSET Contacts,
               origin : Refs \cup {Null}, version : 1..MaxVersion]
Record == [version : Nat \cup {Null}, snapshot : Nat,
           restaurant : Ids \cup {Null}]
Item == [source : Refs, outcome : Outcome, restaurant : Ids \cup {Null}]
AuditEntry ==
    [action : {"restaurant_created", "restaurant_updated",
               "osm_candidate_linked"},
     resource : Ids, ref : OsmRefs \cup {Null}]

View == [restaurant : [Ids -> Restaurant \cup {Null}],
         record : [Refs -> Record \cup {Null}]]

ASSUME NullsAssumption ==
    /\ Null \notin Sessions /\ Null \notin Ids /\ Null \notin Refs
    /\ Null \notin Nat /\ Null \notin Requests
    /\ Null \notin Restaurant /\ Null \notin Record /\ Null \notin Seq(Item)
    /\ Null \notin View

VARIABLES
    restaurant,  \* committed rows of Restaurant, Null for none
    record,      \* committed rows of OsmRecord and SourceRecord
    importRun,   \* committed OsmImportRun.result by commandHash
    audit,       \* committed AdminAudit rows
    lock,        \* holder of the advisory lock
    pc,          \* where each session is
    op,          \* its request
    draft,       \* its uncommitted rows
    view,        \* the snapshot of a simulation
    planned,     \* the drafts a simulation has planned
    items,       \* the items it has answered so far
    replayed     \* whether its result is a stored one

tables == <<restaurant, record, importRun, audit>>
session == <<pc, op, draft, view, planned, items, replayed>>
vars == <<tables, lock, session>>

-----------------------------------------------------------------------------
NoDraft == [restaurant |-> << >>, record |-> << >>, run |-> << >>, audit |-> {}]

(***************************************************************************)
(* What the statements of a session read.                                  *)
(***************************************************************************)
Overlay(rows, table) ==
    [k \in DOMAIN table |-> IF k \in DOMAIN rows THEN rows[k] ELSE table[k]]

Put(rows, k, row) ==
    [x \in DOMAIN rows \cup {k} |-> IF x = k THEN row ELSE rows[x]]

Committed == [restaurant |-> restaurant, record |-> record]

IsDry(s) == op[s].kind = "import" /\ op[s].dry

(***************************************************************************)
(* Variant: simulations read the committed tables, statement by statement. *)
(***************************************************************************)
BaseWithoutSnapshot(s) == Committed

Base(s) == IF IsDry(s) THEN view[s] ELSE Committed

SeenRestaurants(s) == Overlay(draft[s].restaurant, Base(s).restaurant)
SeenRecords(s)     == Overlay(draft[s].record, Base(s).record)

(***************************************************************************)
(* UUIDs are fresh: neither committed nor written by an open transaction.  *)
(***************************************************************************)
FreshIds ==
    {id \in Ids : /\ restaurant[id] = Null
                  /\ \A s \in Sessions : id \notin DOMAIN draft[s].restaurant}

-----------------------------------------------------------------------------
(* The verdict on one candidate. *)

OutsideZone(h, c) == c.place # Null /\ c.place \notin h.zone

(***************************************************************************)
(* Variant: element versions are not compared.                             *)
(***************************************************************************)
StaleBySnapshot(known, h, c) == known # Null /\ known.snapshot > h.snapshot

(***************************************************************************)
(* A source older than the observation on file: its snapshot precedes, or  *)
(* the element version regresses or is no longer given.                    *)
(***************************************************************************)
Stale(known, h, c) ==
    /\ known # Null
    /\ \/ known.snapshot > h.snapshot
       \/ /\ known.version # Null
          /\ c.version = Null \/ known.version > c.version

(***************************************************************************)
(* discovery(): the candidate as duplicates() sees it.                     *)
(***************************************************************************)
Discovered(c) == [name |-> c.name, place |-> c.place,
                  contacts |-> Canonical(c.contacts)]

LinkedTo(records, ref) ==
    IF records[ref] = Null THEN Null ELSE records[ref].restaurant

(***************************************************************************)
(* The order of the early exits of the two loops over the candidates,      *)
(* against given tables and plan.  A web page has no zone and no version;  *)
(* one that describes several establishments is only staged.               *)
(***************************************************************************)
Suspect(h, c) ==
    \/ c.flagged
    \/ h.kind = "site" /\ Len(h.cands) > 1

Verdict(restaurants, records, plan, h, c) ==
    IF h.kind = "osm" /\ OutsideZone(h, c) THEN "OUTSIDE_ZONE"
    ELSE IF h.kind = "osm" /\ Stale(records[c.ref], h, c) THEN "STALE_SOURCE"
    ELSE IF LinkedTo(records, c.ref) # Null THEN "EXACT_MATCH"
    ELSE IF c.name = Null \/ c.place = Null THEN "NEEDS_DATA"
    ELSE IF Suspect(h, c) THEN "NEEDS_REVIEW"
    ELSE IF \/ Duplicates(restaurants, Discovered(c)) # {}
            \/ PlannedDuplicate(plan, Discovered(c)) THEN "NEEDS_REVIEW"
    ELSE "DRAFT_CREATED"

(***************************************************************************)
(* The upsert: a version the source does not give leaves the column alone. *)
(***************************************************************************)
Upserted(known, h, c) ==
    [version    |-> IF c.version = Null /\ known # Null THEN known.version
                    ELSE c.version,
     snapshot   |-> h.snapshot,
     restaurant |-> IF known = Null THEN Null ELSE known.restaurant]

NewSheet(identity, origin) ==
    [name |-> identity.name, place |-> identity.place,
     contacts |-> identity.contacts, origin |-> origin, version |-> 1]

-----------------------------------------------------------------------------
IsRows(rows, keys, values) ==
    DOMAIN rows \subseteq keys /\ rows \in [DOMAIN rows -> values]

IsDraft(d) ==
    /\ d = [restaurant |-> d.restaurant, record |-> d.record,
            run |-> d.run, audit |-> d.audit]
    /\ IsRows(d.restaurant, Ids, Restaurant)
    /\ IsRows(d.record, Refs, Record)
    /\ IsRows(d.run, Commands, Seq(Item))
    /\ d.audit \subseteq AuditEntry

TypeOK ==
    /\ restaurant \in [Ids -> Restaurant \cup {Null}]
    /\ record \in [Refs -> Record \cup {Null}]
    /\ importRun \in [Commands -> Seq(Item) \cup {Null}]
    /\ audit \subseteq AuditEntry
    /\ lock \in Sessions \cup {Null}
    /\ pc \in [Sessions -> {"idle", "locking", "locked", "opening",
                            "scanning", "committing", "answered"}]
    /\ op \in [Sessions -> Requests \cup {Null}]
    /\ DOMAIN draft = Sessions /\ DOMAIN view = Sessions
    /\ DOMAIN planned = Sessions
    /\ \A s \in Sessions :
        /\ IsDraft(draft[s])
        /\ view[s] \in View \cup {Null}
        /\ planned[s] \subseteq Sighting
    /\ items \in [Sessions -> Seq(Item)]
    /\ replayed \in [Sessions -> BOOLEAN]

Init ==
    /\ restaurant = [id \in Ids |-> Null]
    /\ record = [r \in Refs |-> Null]
    /\ importRun = [h \in Commands |-> Null]
    /\ audit = {}
    /\ lock = Null
    /\ pc = [s \in Sessions |-> "idle"]
    /\ op = [s \in Sessions |-> Null]
    /\ draft = [s \in Sessions |-> NoDraft]
    /\ view = [s \in Sessions |-> Null]
    /\ planned = [s \in Sessions |-> {}]
    /\ items = [s \in Sessions |-> << >>]
    /\ replayed = [s \in Sessions |-> FALSE]

-----------------------------------------------------------------------------
(* Opening a transaction. *)

Begin(s, o) ==
    /\ pc[s] = "idle"
    /\ op' = [op EXCEPT ![s] = o]
    /\ pc' = [pc EXCEPT ![s] = IF o.kind = "import" /\ o.dry THEN "opening"
                               ELSE "locking"]
    /\ UNCHANGED <<tables, lock, draft, view, planned, items, replayed>>

(***************************************************************************)
(* Variant: the statement that takes the lock is missing.                  *)
(***************************************************************************)
AcquireNothing(s) ==
    /\ pc[s] = "locking"
    /\ pc' = [pc EXCEPT ![s] = "locked"]
    /\ UNCHANGED <<tables, lock, op, draft, view, planned, items, replayed>>

(***************************************************************************)
(* pg_advisory_xact_lock(72421601).                                        *)
(***************************************************************************)
AcquireLock(s) ==
    /\ pc[s] = "locking"
    /\ lock = Null
    /\ lock' = s
    /\ pc' = [pc EXCEPT ![s] = "locked"]
    /\ UNCHANGED <<tables, op, draft, view, planned, items, replayed>>

(***************************************************************************)
(* SET TRANSACTION READ ONLY; the snapshot is the one of the first read.   *)
(***************************************************************************)
OpenSnapshot(s) ==
    /\ pc[s] = "opening"
    /\ view' = [view EXCEPT ![s] = Committed]
    /\ pc' = [pc EXCEPT ![s] = "scanning"]
    /\ UNCHANGED <<tables, lock, op, draft, planned, items, replayed>>

(***************************************************************************)
(* Variant: the stored result is recognised but not returned.              *)
(***************************************************************************)
ReplayNothing(s) ==
    /\ pc[s] = "locked" /\ op[s].kind = "import"
    /\ importRun[op[s].command] # Null
    /\ replayed' = [replayed EXCEPT ![s] = TRUE]
    /\ pc' = [pc EXCEPT ![s] = "committing"]
    /\ UNCHANGED <<tables, lock, op, draft, view, planned, items>>

(***************************************************************************)
(* osmImportRun.findUnique: the command already ran, its result is the     *)
(* answer.                                                                 *)
(***************************************************************************)
Replay(s) ==
    /\ pc[s] = "locked" /\ op[s].kind = "import"
    /\ importRun[op[s].command] # Null
    /\ items' = [items EXCEPT ![s] = importRun[op[s].command]]
    /\ replayed' = [replayed EXCEPT ![s] = TRUE]
    /\ pc' = [pc EXCEPT ![s] = "committing"]
    /\ UNCHANGED <<tables, lock, op, draft, view, planned>>

StartScan(s) ==
    /\ pc[s] = "locked" /\ op[s].kind = "import"
    /\ importRun[op[s].command] = Null
    /\ pc' = [pc EXCEPT ![s] = "scanning"]
    /\ UNCHANGED <<tables, lock, op, draft, view, planned, items, replayed>>

-----------------------------------------------------------------------------
(* One turn of the loop over the candidates. *)

Scanning(s) == pc[s] = "scanning" /\ Len(items[s]) < Len(op[s].command.cands)

Current(s) == op[s].command.cands[Len(items[s]) + 1]

CurrentVerdict(s) ==
    Verdict(SeenRestaurants(s), SeenRecords(s), planned[s],
            op[s].command, Current(s))

Answer(s, outcome, id) ==
    items' = [items EXCEPT ![s] =
        Append(@, [source |-> Current(s).ref, outcome |-> outcome,
                   restaurant |-> id])]

(***************************************************************************)
(* The row the upsert writes; a simulation writes none.                    *)
(***************************************************************************)
Observation(s) ==
    Upserted(SeenRecords(s)[Current(s).ref], op[s].command, Current(s))

WithRecord(d, ref, row) == [d EXCEPT !.record = Put(d.record, ref, row)]
WithSheet(d, id, row)   == [d EXCEPT !.restaurant = Put(d.restaurant, id, row)]
WithRun(d, h, result)   == [d EXCEPT !.run = Put(d.run, h, result)]
WithAudit(d, entry)     == [d EXCEPT !.audit = d.audit \cup {entry}]

SkipCandidate(s) ==
    /\ Scanning(s)
    /\ CurrentVerdict(s) \in {"OUTSIDE_ZONE", "STALE_SOURCE"}
    /\ Answer(s, CurrentVerdict(s), Null)
    /\ UNCHANGED <<tables, lock, pc, op, draft, view, planned, replayed>>

(***************************************************************************)
(* Variant: an exact match refreshes the sheet from the source.            *)
(***************************************************************************)
StageAndRefresh(s) ==
    /\ Scanning(s)
    /\ CurrentVerdict(s) \in {"EXACT_MATCH", "NEEDS_DATA", "NEEDS_REVIEW"}
    /\ Answer(s, CurrentVerdict(s), LinkedTo(SeenRecords(s), Current(s).ref))
    /\ draft' = IF IsDry(s) THEN draft
                ELSE [draft EXCEPT ![s] = WithRecord(
                        IF CurrentVerdict(s) = "EXACT_MATCH" /\ Current(s).name # Null
                        THEN WithSheet(draft[s],
                                LinkedTo(SeenRecords(s), Current(s).ref),
                                NewSheet(Discovered(Current(s)), Current(s).ref))
                        ELSE draft[s], Current(s).ref, Observation(s))]
    /\ UNCHANGED <<tables, lock, pc, op, view, planned, replayed>>

StageCandidate(s) ==
    /\ Scanning(s)
    /\ CurrentVerdict(s) \in {"EXACT_MATCH", "NEEDS_DATA", "NEEDS_REVIEW"}
    /\ Answer(s, CurrentVerdict(s), LinkedTo(SeenRecords(s), Current(s).ref))
    /\ draft' = IF IsDry(s) THEN draft
                ELSE [draft EXCEPT ![s] =
                        WithRecord(draft[s], Current(s).ref, Observation(s))]
    /\ UNCHANGED <<tables, lock, pc, op, view, planned, replayed>>

(***************************************************************************)
(* Variant: the new sheet is not written back on the record.               *)
(***************************************************************************)
CreateUnlinked(s) ==
    /\ Scanning(s) /\ ~IsDry(s)
    /\ CurrentVerdict(s) = "DRAFT_CREATED"
    /\ \E id \in FreshIds :
        /\ Answer(s, "DRAFT_CREATED", id)
        /\ draft' = [draft EXCEPT ![s] = WithRecord(
                WithSheet(draft[s], id,
                          NewSheet(Discovered(Current(s)), Current(s).ref)),
                Current(s).ref, Observation(s))]
    /\ UNCHANGED <<tables, lock, pc, op, view, planned, replayed>>

(***************************************************************************)
(* restaurant.create, then the record is linked to the new sheet.          *)
(***************************************************************************)
CreateDraft(s) ==
    /\ Scanning(s) /\ ~IsDry(s)
    /\ CurrentVerdict(s) = "DRAFT_CREATED"
    /\ \E id \in FreshIds :
        /\ Answer(s, "DRAFT_CREATED", id)
        /\ draft' = [draft EXCEPT ![s] = WithRecord(
                WithSheet(draft[s], id,
                          NewSheet(Discovered(Current(s)), Current(s).ref)),
                Current(s).ref,
                [Observation(s) EXCEPT !.restaurant = id])]
    /\ UNCHANGED <<tables, lock, pc, op, view, planned, replayed>>

PlanDraft(s) ==
    /\ Scanning(s) /\ IsDry(s)
    /\ CurrentVerdict(s) = "DRAFT_CREATED"
    /\ Answer(s, "DRAFT_CREATED", Null)
    /\ planned' = [planned EXCEPT ![s] = @ \cup {Discovered(Current(s))}]
    /\ UNCHANGED <<tables, lock, pc, op, draft, view, replayed>>

Scanned(s) == pc[s] = "scanning" /\ Len(items[s]) = Len(op[s].command.cands)

(***************************************************************************)
(* osmImportRun.create; commandHash is unique, a second row would fail.    *)
(***************************************************************************)
RecordRun(s) ==
    /\ Scanned(s) /\ ~IsDry(s)
    /\ importRun[op[s].command] = Null
    /\ draft' = [draft EXCEPT ![s] =
                    WithRun(draft[s], op[s].command, items[s])]
    /\ pc' = [pc EXCEPT ![s] = "committing"]
    /\ UNCHANGED <<tables, lock, op, view, planned, items, replayed>>

EndSimulation(s) ==
    /\ Scanned(s) /\ IsDry(s)
    /\ pc' = [pc EXCEPT ![s] = "committing"]
    /\ UNCHANGED <<tables, lock, op, draft, view, planned, items, replayed>>

-----------------------------------------------------------------------------
(* The manual transactions of the back office. *)

(***************************************************************************)
(* createRestaurant(): refused with 409 when a sheet resembles it; the     *)
(* contacts are compared and stored as typed.                              *)
(***************************************************************************)
CreateRestaurant(s) ==
    /\ pc[s] = "locked" /\ op[s].kind = "create"
    /\ Duplicates(SeenRestaurants(s), op[s].sheet) = {}
    /\ \E id \in FreshIds :
        draft' = [draft EXCEPT ![s] = WithAudit(
            WithSheet(draft[s], id, NewSheet(op[s].sheet, Null)),
            [action |-> "restaurant_created", resource |-> id, ref |-> Null])]
    /\ pc' = [pc EXCEPT ![s] = "committing"]
    /\ UNCHANGED <<tables, lock, op, view, planned, items, replayed>>

(***************************************************************************)
(* Variant: a source may be linked again, to another sheet.                *)
(***************************************************************************)
CanRelink(s) ==
    SeenRecords(s)[op[s].ref] # Null /\ SeenRestaurants(s)[op[s].id] # Null

(***************************************************************************)
(* linkCandidate(): source and sheet must exist, and the source must not   *)
(* be linked to another sheet.                                             *)
(***************************************************************************)
CanLink(s) ==
    LET known == SeenRecords(s)[op[s].ref]
    IN  /\ known # Null
        /\ SeenRestaurants(s)[op[s].id] # Null
        /\ known.restaurant \in {Null, op[s].id}

LinkCandidate(s) ==
    /\ pc[s] = "locked" /\ op[s].kind = "link"
    /\ CanLink(s)
    /\ draft' = [draft EXCEPT ![s] = WithAudit(
            WithRecord(draft[s], op[s].ref,
                [SeenRecords(s)[op[s].ref] EXCEPT !.restaurant = op[s].id]),
            [action |-> "osm_candidate_linked",
             resource |-> op[s].id, ref |-> op[s].ref])]
    /\ pc' = [pc EXCEPT ![s] = "committing"]
    /\ UNCHANGED <<tables, lock, op, view, planned, items, replayed>>

-----------------------------------------------------------------------------
(* The end of a transaction. *)

Commit(s) ==
    /\ pc[s] = "committing"
    /\ restaurant' = Overlay(draft[s].restaurant, restaurant)
    /\ record' = Overlay(draft[s].record, record)
    /\ importRun' = Overlay(draft[s].run, importRun)
    /\ audit' = audit \cup draft[s].audit
    /\ lock' = IF lock = s THEN Null ELSE lock
    /\ draft' = [draft EXCEPT ![s] = NoDraft]
    /\ pc' = [pc EXCEPT ![s] = "answered"]
    /\ UNCHANGED <<op, view, planned, items, replayed>>

EndSession(s) ==
    /\ op' = [op EXCEPT ![s] = Null]
    /\ draft' = [draft EXCEPT ![s] = NoDraft]
    /\ view' = [view EXCEPT ![s] = Null]
    /\ planned' = [planned EXCEPT ![s] = {}]
    /\ items' = [items EXCEPT ![s] = << >>]
    /\ replayed' = [replayed EXCEPT ![s] = FALSE]
    /\ pc' = [pc EXCEPT ![s] = "idle"]

(***************************************************************************)
(* The client has its answer, or lost it; either way it may ask again.     *)
(***************************************************************************)
Reply(s) ==
    /\ pc[s] = "answered"
    /\ EndSession(s)
    /\ UNCHANGED <<tables, lock>>

(***************************************************************************)
(* Variants: the sheets, the audit or the lock outlive the transaction.    *)
(***************************************************************************)
RollbackKeepsSheets(s) ==
    /\ EndSession(s)
    /\ restaurant' = Overlay(draft[s].restaurant, restaurant)
    /\ lock' = IF lock = s THEN Null ELSE lock
    /\ UNCHANGED <<record, importRun, audit>>

RollbackKeepsAudit(s) ==
    /\ EndSession(s)
    /\ audit' = audit \cup draft[s].audit
    /\ lock' = IF lock = s THEN Null ELSE lock
    /\ UNCHANGED <<restaurant, record, importRun>>

RollbackKeepsLock(s) ==
    /\ EndSession(s)
    /\ UNCHANGED <<tables, lock>>

(***************************************************************************)
(* Rollback: the lock goes with the transaction.                           *)
(***************************************************************************)
Rollback(s) ==
    /\ EndSession(s)
    /\ lock' = IF lock = s THEN Null ELSE lock
    /\ UNCHANGED tables

(***************************************************************************)
(* The two manual transactions throw: 404 or 409.                          *)
(***************************************************************************)
Refuse(s) ==
    /\ pc[s] = "locked"
    /\ \/ /\ op[s].kind = "create"
          /\ Duplicates(SeenRestaurants(s), op[s].sheet) # {}
       \/ op[s].kind = "link" /\ ~CanLink(s)
    /\ Rollback(s)

(***************************************************************************)
(* Interactive transaction timeout, lost connection, crash of the process. *)
(***************************************************************************)
Abort(s) ==
    /\ pc[s] \notin {"idle", "answered"}
    /\ Rollback(s)

(***************************************************************************)
(* updateRestaurant() as seen from here: its compare-and-swap moves the    *)
(* version, writes the identity as typed and audits it, all in one commit, *)
(* without the lock and without a duplicate search.                        *)
(***************************************************************************)
UpdateRestaurant(id, e) ==
    /\ restaurant[id] # Null
    /\ restaurant[id].version < MaxVersion
    /\ restaurant' = [restaurant EXCEPT ![id] =
            [name |-> e.name, place |-> e.place, contacts |-> e.contacts,
             origin |-> @.origin, version |-> @.version + 1]]
    /\ audit' = audit \cup {[action |-> "restaurant_updated",
                             resource |-> id, ref |-> Null]}
    /\ UNCHANGED <<record, importRun, lock, session>>

-----------------------------------------------------------------------------
ImportStep(s) ==
    \/ OpenSnapshot(s) \/ Replay(s) \/ StartScan(s)
    \/ SkipCandidate(s) \/ StageCandidate(s)
    \/ CreateDraft(s) \/ PlanDraft(s)
    \/ RecordRun(s) \/ EndSimulation(s)

ManualStep(s) == CreateRestaurant(s) \/ LinkCandidate(s) \/ Refuse(s)

Next ==
    \/ \E s \in Sessions :
        \/ \E o \in Requests : Begin(s, o)
        \/ AcquireLock(s) \/ ImportStep(s) \/ ManualStep(s)
        \/ Commit(s) \/ Reply(s) \/ Abort(s)
    \/ \E id \in Ids, e \in Edits : UpdateRestaurant(id, e)

Spec == Init /\ [][Next]_vars

(***************************************************************************)
(* A running transaction executes its next statement; PostgreSQL grants    *)
(* the lock to its waiters in their order of arrival, so none is passed    *)
(* over for ever.  Nothing is assumed of clients, editors and failures.    *)
(***************************************************************************)
Fairness ==
    \A s \in Sessions :
        /\ SF_vars(AcquireLock(s))
        /\ WF_vars(ImportStep(s) \/ ManualStep(s) \/ Commit(s) \/ Reply(s))

FairSpec == Spec /\ Fairness

-----------------------------------------------------------------------------
(* Safety. *)

Exists(id) == restaurant[id] # Null

(***************************************************************************)
(* Two sheets that duplicates() would report for one another never both    *)
(* come from creations: one of them was edited since, whatever imports,    *)
(* manual creations, edits and rollbacks interleaved.                      *)
(***************************************************************************)
UntouchedSheetsDistinct ==
    \A a, b \in Ids :
        (/\ a # b /\ Exists(a) /\ Exists(b)
         /\ restaurant[a].version = 1 /\ restaurant[b].version = 1)
        => ~Resembles(restaurant[a], restaurant[b])

(***************************************************************************)
(* A sheet drafted from a source is the one the record of that source      *)
(* points to, so a source drafts one sheet at most; and a link points to a *)
(* sheet that exists.                                                      *)
(***************************************************************************)
DraftsTraced ==
    /\ \A id \in Ids : Exists(id) /\ restaurant[id].origin # Null
          => LinkedTo(record, restaurant[id].origin) = id
    /\ \A r \in Refs : LinkedTo(record, r) # Null
          => Exists(LinkedTo(record, r))

(***************************************************************************)
(* All or nothing: the drafts of the catalogue are exactly those that the  *)
(* stored results announce, each announced by one run, once.               *)
(***************************************************************************)
Announced(id) ==
    UNION {{<<h, i>> : i \in {n \in DOMAIN importRun[h] :
                /\ importRun[h][n].outcome = "DRAFT_CREATED"
                /\ importRun[h][n].restaurant = id}} :
        h \in {g \in Commands : importRun[g] # Null}}

RunsAccountForDrafts ==
    \A id \in Ids :
        Cardinality(Announced(id)) =
            IF Exists(id) /\ restaurant[id].origin # Null THEN 1 ELSE 0

(***************************************************************************)
(* The answer of an import is the result on file for its command, fresh or *)
(* replayed.                                                               *)
(***************************************************************************)
AnswersOnFile ==
    \A s \in Sessions :
        pc[s] = "answered" /\ op[s].kind = "import" /\ ~IsDry(s)
        => importRun[op[s].command] = items[s]

(***************************************************************************)
(* Of concurrent submissions of one command, at most one did the work; the *)
(* others say replayed.                                                    *)
(***************************************************************************)
OneFreshAnswer ==
    \A s, t \in Sessions :
        (/\ s # t /\ pc[s] = "answered" /\ pc[t] = "answered"
         /\ op[s] = op[t] /\ op[s].kind = "import" /\ ~IsDry(s))
        => replayed[s] \/ replayed[t]

(***************************************************************************)
(* No import that holds the lock loses its work to the unique index on     *)
(* commandHash.                                                            *)
(***************************************************************************)
HashStillFree ==
    \A s \in Sessions :
        Scanned(s) /\ ~IsDry(s) => importRun[op[s].command] = Null

(***************************************************************************)
(* The audit says who created, edited or linked by hand, and says it of    *)
(* nothing that was rolled back.                                           *)
(***************************************************************************)
Audited(action, id, ref) ==
    [action |-> action, resource |-> id, ref |-> ref] \in audit

AuditTrail ==
    /\ \A id \in Ids :
        /\ Audited("restaurant_created", id, Null)
              <=> Exists(id) /\ restaurant[id].origin = Null
        /\ Audited("restaurant_updated", id, Null)
              <=> Exists(id) /\ restaurant[id].version > 1
    /\ \A r \in OsmRefs, id \in Ids :
        /\ Audited("osm_candidate_linked", id, r) => LinkedTo(record, r) = id
        /\ LinkedTo(record, r) = id /\ restaurant[id].origin # r
              => Audited("osm_candidate_linked", id, r)

(***************************************************************************)
(* One candidate applied to tables nobody else writes: the n-th of its     *)
(* command, whose sheet has an identifier of its own.                      *)
(***************************************************************************)
OwnId(n) == <<n>>

ASSUME OwnIdsAssumption ==
    \A h \in Commands : \A n \in 1..Len(h.cands) : OwnId(n) \notin Ids \cup {Null}

Applied(before, h, n) ==
    LET c == h.cands[n]
        verdict == Verdict(before.restaurant, before.record, {}, h, c)
        drafted == verdict = "DRAFT_CREATED"
        row == Upserted(before.record[c.ref], h, c)
    IN  [restaurant |-> IF drafted
                        THEN Put(before.restaurant, OwnId(n),
                                 NewSheet(Discovered(c), c.ref))
                        ELSE before.restaurant,
         record |-> IF verdict \in {"OUTSIDE_ZONE", "STALE_SOURCE"}
                    THEN before.record
                    ELSE [before.record EXCEPT ![c.ref] =
                            IF drafted THEN [row EXCEPT !.restaurant = OwnId(n)]
                                       ELSE row],
         outcomes |-> Append(before.outcomes, verdict)]

(***************************************************************************)
(* What a transaction alone on given tables makes of the candidates of a   *)
(* command, one after the other, and what it would answer.                 *)
(***************************************************************************)
Alone(db, h) ==
    LET after[n \in 0..Len(h.cands)] ==
            IF n = 0
            THEN [restaurant |-> db.restaurant, record |-> db.record,
                  outcomes |-> << >>]
            ELSE Applied(after[n - 1], h, n)
    IN  after

AppliedAlone(db, h) == Alone(db, h)[Len(h.cands)].outcomes

(***************************************************************************)
(* A simulation foretells what applying the same command to the tables it  *)
(* read would answer: its plan stands for the sheets it does not create,   *)
(* whatever commits while it runs.                                         *)
(***************************************************************************)
SimulationForetells ==
    \A s \in Sessions :
        pc[s] = "answered" /\ IsDry(s)
        => [i \in 1..Len(items[s]) |-> items[s][i].outcome]
              = AppliedAlone(view[s], op[s].command)

-----------------------------------------------------------------------------
(* What a step may never do. *)

(***************************************************************************)
(* A source linked to a sheet stays linked to it.                          *)
(***************************************************************************)
LinksPermanent ==
    [][\A r \in Refs : LinkedTo(record, r) # Null
          => LinkedTo(record', r) = LinkedTo(record, r)]_vars

(***************************************************************************)
(* The observation of an OSM element never goes back: neither to an older  *)
(* snapshot nor to an older or unknown element version.                    *)
(***************************************************************************)
SourceMonotone ==
    [][\A r \in OsmRefs : record[r] # Null =>
          /\ record'[r] # Null
          /\ record'[r].snapshot >= record[r].snapshot
          /\ record[r].version # Null =>
                /\ record'[r].version # Null
                /\ record'[r].version >= record[r].version]_vars

(***************************************************************************)
(* Source updates do not replace human corrections: an existing sheet      *)
(* changes by an edit that moves its version, and no sheet disappears.     *)
(***************************************************************************)
SheetsChangeByEdit ==
    [][\A id \in Ids : Exists(id) =>
          /\ restaurant'[id] # Null
          /\ restaurant'[id] # restaurant[id]
                => /\ restaurant'[id].version = restaurant[id].version + 1
                   /\ restaurant'[id].origin = restaurant[id].origin]_vars

-----------------------------------------------------------------------------
(* Liveness. *)

(***************************************************************************)
(* Every request ends, by an answer, a refusal or a rollback: no session   *)
(* waits for ever for the common lock.                                     *)
(***************************************************************************)
EveryRequestEnds == \A s \in Sessions : pc[s] # "idle" ~> pc[s] = "idle"
=============================================================================
