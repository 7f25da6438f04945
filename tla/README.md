# Formal models of the Menu2Kin backend

The backend collects restaurants of Kinshasa from OpenStreetMap exports and from
partner pages, lets an operator review, correct, verify and publish them, and
serves the published catalogue to the mobile application. These TLA+ modules
model the parts whose correctness depends on the order of events: concurrent
transactions on PostgreSQL, rollbacks, repeated requests, stale reads, deadlines
and restarts. TLC checks them on small instances; TLAPS proves most of the
properties for instances of any size.

Paths are those of the repository; the lines each definition translates are in
`PROJECT.json` (`map`).

## 1. Inventory of the system

| Component | State | Operations | Interacts with |
|---|---|---|---|
| OSM import (`osm/application/osm-import.service.ts`) | tables OsmRecord, OsmImportRun, Restaurant | `import` (apply or dry run) | duplicate search, advisory lock 72421601, CLI and admin routes |
| Website import (`ingestion/website-import.service.ts`) | SourceRecord, OsmImportRun, Restaurant | `import` | source registry, JSON-LD parser, same lock |
| Duplicate search (`ingestion/domain/discovery.ts`) | none | `duplicates`, `phone`, `safeUrl`, `quality` | every creation of a sheet |
| Back office (`admin/admin.service.ts`) | Restaurant, Dish, AdminAudit, OsmRecord.restaurantId | create, update, publish, dishes, link, listings | imports (lock, shared tables), public catalogue |
| Admin guard (`admin/admin.guard.ts`) | instants of the last requests | `canActivate` | every admin route |
| Public catalogue (`catalog/postgres-catalog.service.ts`, `nearby.controller.ts`) | none | lists, menus, budget search, proximity | rows the back office publishes |
| Demo catalogue (`catalog/catalog.service.ts`) | a constant array | the same reads | stands for the public catalogue without a database |
| Authentication (`auth/auth.service.ts`) | accounts and refresh tokens, in memory | register, login, refresh, logout, verify | - |
| OSM collector (`ingestion/infrastructure/osm-collector.ts`, `ingestion/cli/import-osm.ts`) | cache file, lock file, last-request mark | collect with retries, then import | other collectors through the files |
| OSM parser (`osm/domain/osm-candidate.ts`), JSON-LD parser (`ingestion/domain/jsonld.ts`) | none | pure functions | imports |
| Source registry (`ingestion/infrastructure/website-sources.ts`) | a configuration file | `approvedWebsiteSource` | website import |
| Google Places adapter (`google-places/`) | one request at a time | three searches with a deadline | mounted by no module of the application |
| Schema (`prisma/`), bootstrap, filters, other CLIs | the tables | - | - |

What is hard, and what makes each part correct:

- **Imports and manual creations** are transactions of many statements that
  read the tables, decide, and write. PostgreSQL runs them READ COMMITTED: a
  statement sees whatever committed before it started. They exclude one another
  with a transaction advisory lock; the edits of the back office do not take
  it. A client may lose the answer and submit again; a transaction may time out
  (60 s, 30 s), the process may die. Correct means: one submission of a command
  does the work and the others get its stored result; all of a batch or
  nothing; no two drafts that the duplicate search would have reported; a link
  between a source and a sheet never moves; an old harvest never replaces a
  newer observation; the corrections of an operator are never overwritten; a
  simulation announces what applying would do.
- **The intake of a partner page** reads the registry and the page before it
  waits for the lock. Correct means: nothing is stored without a review that was
  valid when the request read it; in whatever order its scripts come, a page
  gives the same sources, and of each a reading of one of its own nodes, its
  reference resolved to the same target; what a record shows, some stored run
  staged.
- **Editing** relies on compare-and-swap on `version`, without locks around
  what is read. Correct means: a verified sheet is one that somebody vouched
  for as it is; only verified sheets become published; a published dish has a
  price; each version is audited once; provenance keeps its root evidence. The
  comparison gives all this for a version the row already had; for a version
  sent in advance, section 3 says what is lost.
- **The listings of the back office** are cut by offset over an order, the last
  update, that other operators change meanwhile, behind a limit on requests.
  Correct means: no window of time sees more requests than the limit, wherever
  it begins; a walk to the end misses no row that stayed as it was.
- **The collector** is a command line; several may run over one cache
  directory, and files are all they share. Correct means: one collects at a
  time, and collections begin no more often than promised to Overpass; the
  cache of an area is replaced by a whole one or not at all; only a crash leaves
  a lock behind; every run ends whatever the server does.
- **The public catalogue** reads by several statements what the back office
  edits, and cuts pages by offset. Correct means: a budget proposal is paid by
  the budget and feeds the guests; a client that follows the pages of a quiet
  base sees everything once; an edit disturbs nothing but what it touches; it
  shows nothing that the demonstration catalogue would not show of the same rows.
- **Authentication** keeps accounts and tokens in maps of one process. Its
  handlers are synchronous, so what is hard is the order of requests, repeated
  or late, and restarts. Correct means: one token of a session serves; a
  withdrawn, expired or forgotten one does not; a session never leads to
  another account, although numbers may be registered again after a restart.
- **The Google Places adapter** has one deadline over a request, the discard of
  a refusal and the reading of a body. Correct means: a time-out is reported
  exactly when the deadline passed; no page is cut short; nothing stays armed
  or locked; every request ends.

## 2. Modules

| Module | What it is |
|---|---|
| `Discovery` | identities, canonical contacts, the predicate of `duplicates()` and `plannedDuplicate()` |
| `Import` | the four transactions under the advisory lock, edits around them |
| `Ledger`, `ImportLedger` | abstract: an import is one atomic step that happens once; the refinement mapping from `Import` |
| `Website` | the intake of partner pages: registry, JSON-LD reader, commands and records |
| `Editorial` | edition, verification and publication of sheets and dishes |
| `AdminGuard` | the sliding limit on requests |
| `BackOffice` | the listings walked through `AdminGuard`, while rows are written |
| `Catalog` | the paged reads: lists, menus and budget search while rows change; the demonstration catalogue |
| `Collector` | the command lines that share the OSM cache, its lock, its rate and the retries |
| `Auth` | accounts, sessions, restarts |
| `Places` | one request of the Google Places adapter |
| `ImportProofs` | theorems of `Import`: lock and links, simulations, tables and refinement |
| `WebsiteProofs`, `EditorialProofs`, `BackOfficeProofs`, `CollectorProofs`, `CatalogProofs`, `AuthProofs`, `PlacesProofs` | theorems of the others |
| `MCImport`, `MCEditorial`, `MCCollector`, `MCCatalog`, `MCAuth`, `MCBackOffice`, `MCPlaces`, `MCWebsite` | the instances TLC checks |

The modules meet on the tables and on the steps: `Collector` ends where a
command of `Import` begins; `Website` is what surrounds the website import of
`Import`; `Import` creates the drafts that `Editorial` verifies and publishes;
the rows `Editorial` publishes are those `Catalog` reads, its edits being
`EditDish` and `EditRestaurant` there; `BackOffice` extends `AdminGuard`, and
every page it reads and every write a request makes is a step of both.

Mutated forms stand beside the definitions they vary, marked *Variant* or named
for what they change (`StagedByPosition`, `ServesAtExpiry`); no action of `Next`
uses them. Each property of a passing run has one that breaks it: a lock not
taken, a rollback that keeps rows, a WHERE clause without the version.

### Import

State, by variable: `restaurant`, `record`, `importRun` and `audit` are the
committed tables (Restaurant; OsmRecord and SourceRecord; OsmImportRun;
AdminAudit); `lock` is the holder of the advisory lock; for each session, `pc`
is the position in its transaction, `op` its request, `draft` the rows it wrote
and has not committed, `view` the snapshot of a simulation, `planned` and
`items` the two lists of the loop, `replayed` the flag of its answer.

Actions follow the handler: `Begin` opens the transaction, `AcquireLock` is
`pg_advisory_xact_lock` (a simulation takes `OpenSnapshot` instead), `Replay`
returns the stored result, `StartScan` enters the loop. Each turn of the loop
is one step, `SkipCandidate`, `StageCandidate`, `CreateDraft` or `PlanDraft`,
according to `Verdict`, which keeps the order of the early exits of the code.
`RecordRun` inserts the run, `Commit` publishes the draft and frees the lock.
`CreateRestaurant` and `LinkCandidate` are the manual transactions; `Refuse` is
their 404 or 409; `Abort` rolls back any open transaction at any point.
`UpdateRestaurant` is the edit as the imports see it: one commit, no lock.

A turn of the loop is one step because the statements inside it either read
rows nobody else may write while the lock is held (OsmRecord) or are a single
query (the duplicate search), followed by writes invisible until the commit.
The statement that may see a concurrent edit, the duplicate search, is in the
step of its own candidate, so edits commit between any two searches.

Data is abstract: a name is a normalised name, a place a pair of coordinates,
similarity and distance are relations given as constants, a telephone or a site
is a contact with a canonical writing (`Canon`). A command is its own hash.

What a simulation promises is compared with `Alone`, the same command applied
to the tables of its snapshot by one uninterrupted writer: `Applied` is one
candidate, from the same `Verdict` as the running loop, and `OwnId(n)` stands
for the identifier the nth one would be given.

### Website

`registry` is the entry of one source, `page` what its site publishes, `today`
a calendar of days; `session` is what each request has read; `record` and `runs`
are SourceRecord and OsmImportRun. `Check` is what `import` does before its
transaction: `approvedWebsiteSource` (`Allowed`) and `parseRestaurantJsonLd`
(`Candidates`). `Store` is the transaction, which either replays a stored
command or stages its candidates; `Fail` its rollback. Meanwhile `Review` edits
the registry file, `Publish` the page, and `NextDay` passes midnight, once at
most while a request waits, as transactions last thirty seconds at most.

A page is the sequence of the JSON-LD nodes the walk meets. A node has an `@id`
or not, a type, a number of keys, a name, and coordinates that are a point of
its own or a reference. `ById` keeps the richest node of an `@id`, the first of
equals; `Place` resolves; `Identity` is the `@id` or a digest; `Candidates` is
the loop with its set of identities seen, which keeps the first restaurant of an
`@id`, poor or rich. `OrderIsIrrelevant` compares each page with all its
permutations: what may change is what is read of a restaurant that two nodes
describe differently, and nothing else. Its hypothesis, `TargetsAgree`, is about
nodes as rich as one another that give one `@id` two points. Which of the drafts become sheets is
in `Import`, whose website commands are flagged candidates without version.

### Editorial

A client loads a sheet or a dish (`Load`), submits a change with any version it
likes (`Submit...`, `Expected`: `VersionDto` asks for a positive integer); the handler reads (`Read`), then checks and updates
where `version = expectedVersion` (`UpdateRestaurant`, `Publish`, `UpdateDish`)
or inserts (`CreateDish`), audits and commits (`Commit`). A written row is
locked until its transaction ends (`writer`); what was read is not. `attested`
is a ghost: the identity an operator last vouched for, in the body, or on the
screen when the version sent is that of the screen; who vouches for a version
that was not seen, and names no identity, vouches for what that version holds.
`ahead` is another: the rows whose last change was decided by a handler that had
read a version earlier than the one it then replaced (`Ahead`). Between the read
and the write the row reached the version expected, so that the comparison of
versions lets pass a decision taken on something else. `audit` is a set: a row
written twice for one version would look like one. One field group stands
for the name, address and coordinates, and its `provenance` for that of every
group: each edit stamps them all, because the fields a DTO class declares are
own properties of its instances (target ES2023) and `Object.keys` lists them.

### AdminGuard and BackOffice

The array of the guard is `requests`, the numbers of the accepted requests whose
instants it still holds; `at` gives their instants. `Accept` and `Refuse` both
filter the array, and only `Accept` adds to it. `RestartServer` empties it.

`walk` is an operator who follows one of the three lists: `ReadPage` is one
request, guard included, and one statement with its order, filter, offset and
limit (`Ahead`, `Wanted`, `Page`); the restaurants and the OSM candidates read
one row more to announce the next page, the websites announce nothing (`More`).
`TooFar` is the 400 of an announced offset past `MaxOffset`. `Write` creates or
changes a row with any `updatedAt` since its previous one: Prisma takes the time
before the commit. The fields `due`, `seen`, `twice`, `touched` and `left` of
the walk are history.

### Catalog

A client asks for a first page (`Ask`) and follows `nextOffset` (`NextPage`).
A list is `ReadList`, which reads the dishes of the page, then `AnswerList`,
once their restaurants are loaded; a menu looks for its restaurant first
(`FindRestaurant`). A budget search is `ReadQuantities` (the SQL statement),
`ReadDishes` (the same dishes again, filtered again), then `AnswerBudget`, which
looks a second time at the restaurant and at the total and builds the page of
what is left. `Precedence` is the ORDER BY of each statement, `Sorted` what it
does to the rows of the WHERE clause, `Selected` a filter that keeps the order.
Edits commit between any two. `shown` gathers the pages of a walk; `touched`
holds the dishes that changed since the rows of the page were read.

A text is its letters, with or without capitals, accents and blanks around it.
PostgreSQL forgives capitals (`AskedInsensitive`: `mode: 'insensitive'` and
`lower()`), the demonstration accents and blanks as well (`AskedNormalized`).
`DemoPage` is the demonstration catalogue over the same rows: proposals sorted by
`DemoOrder`, lists in the order of the array `Fixtures`; it knows the restaurants
of its dishes and no other (`DemoKnows`). `AgreesWithDemo` says how far the two
agree. That `localeCompare` sorts identifiers as PostgreSQL does, and that the
restaurants of the fixtures are fewer than the fifty `restaurant()` looks
through, is assumed of the fixtures.

### Collector

State: `lock`, `mark`, `cache` and `temp` are the files `.collector.lock`,
`.last-request`, `<area>.json` and `<area>.json.tmp`; for each run, `pc` is the
statement it stands at, `attempts` and `timer` the variables of `collectOsm`.
Dates are ages that grow with `Tick` up to the largest threshold they are
compared with, so that the time is unbounded and the states finite.

A run reads the cache (`UseCache`, `RefuseOffline`, `DecideToCollect`), creates
the lock file (`TakeLock`, `RefuseLock`), compares the mark (`RefuseRate`,
`RateRespected`), writes it (`Stamp`, or `StampFails` on a full disk, which may
leave it cut), sends (`Send`), and either retries after a pause
(`NetworkFails`, `AnswerTimesOut`, `Unavailable`, all `RetryAfter`) or ends
(`Rejected`, `BodyRefused`, `BodyTimesOut`). A body accepted is written apart
(`Store`, `StoreFails`) and renamed (`Rename`, `RenameFails`); `Leave` is the
`finally`, whose removal of the lock file is taken to succeed. A run
may crash anywhere; the operator removes an orphan (`RemoveOrphan`) when no run
lives, as the documentation asks. A mark cut by a crash reads as no mark, which
is what a mark older than the limit is. `began` is history: the age of the last
collection.

### Auth

`users` and `refreshTokens` are the two maps; `issued` is history, every token
ever given out with the subject and the instant its access token carries and
the token it was exchanged for. A handler is one action, since it is
synchronous; `Refresh` and `Logout` take any token ever given out, which is what
lost, late and repeated requests amount to. `Restart` empties both maps.
`NormalizePhone` strips blanks and dashes and keeps dots, so that one number may
have two accounts. A refused request stutters, except the refusal of `Refresh`
that comes after it marked its token.

### Places

`pc` is the await a request stands at: the transport, the discard of a refusal,
a read of the body, its cancellation; `timer` is the deadline. `Start` is the
validation and the call, `Headers` the statuses, `Chunk` a read under the size
limit, `End` the parsing and mapping, `Catch` the catch and its finally.
`Reject` is the failure of the network or the rejection of what an aborted
request awaits, `Deadline` the abort, which comes at an await only: nothing
interrupts the code in between. The discard of a refusal (`Discarded`) and the
cancellation of a body too large (`Cancelled`) may settle after the abort as well
as before: their coded error is then thrown with the signal aborted, and `Catch`
reports the time-out.

## 3. Runs

| Run | Question | Instance | States | Result |
|---|---|---|---|---|
| `ImportRace` | do concurrent imports, creations, links, edits and rollbacks keep the catalogue sound? | 2 sessions, 4 commands (3 harvests, a page), 3 sheets, 1 edit | 0.9 M | holds |
| `ImportAtomic` | is an import one atomic step for its readers, does a simulation tell the truth, does every request end? | 2 sessions, 2 commands | 62 k | holds (refinement; the last under fairness) |
| `ImportContacts` | is an identical telephone always reported? | one telephone written two ways | - | violated |
| `Website` | what may the order of a page change, is nothing stored without a valid review or a run? | pages of up to 3 of 13 nodes; 2 sessions, 3 days | 0.15 M | holds |
| `WebsiteReplay` | do the records hold what the last answered command read? | 2 contents of one page | - | violated |
| `Editorial` | do two clients who send any version keep what is published verified, priced, audited, as far as versions can tell? | 1 sheet, 1 dish, 2 sessions, versions 1 to 4 | 3.0 M | holds |
| `EditorialPublish` | is every sheet verified when it becomes published? | same | - | violated |
| `BackOffice` | does a walk by offsets miss nothing that stayed, through a limit that no window exceeds? | 3 rows, pages of 1 or 2, 2 requests a window of 2 ticks, 2 rows written | 1.1 M | holds |
| `Catalog` | is a proposal affordable, sufficient and unharmed by edits elsewhere, a quiet walk complete, the demonstration alike as far as texts are? | 3 dishes, 3 restaurants, 12 queries, 1 edit | 3.0 M | holds |
| `Collector` | do runs that share the files stay alone, spaced, keep the caches, and end? | 2 runs, 2 areas | 0.2 M | holds (the last under fairness) |
| `Auth` | does one token of a session serve, and lead where its login did? | 2 accounts, 4 tokens, 5 instants, restarts | 0.6 M | holds |
| `Places` | is a time-out the deadline, is nothing left behind, does every request end? | every status, body and page up to one over the limits | 3 k | holds (the last under fairness) |

Bounds. Two sessions suffice for every race of the imports: the lock admits one
writer, and each hazard opposes a writer to another session. Three sheet
identifiers let a batch draft two sheets next to a manual one. `MaxVersion`
bounds `Restaurant.version`: 2 in the import runs, where an edit is only
something that moves the identity; 4 in the editorial runs, the shortest run in
which a sheet is verified, published, then withdrawn while a dish follows; a
request may expect any version up to the last one but one, which is the highest
that a bounded row can still leave. The
commands are chosen so that each verdict occurs: two elements of one batch that
resemble one another, an element whose version goes back, one whose version is
lost, a page that resembles an OSM element, an invalid telephone.

In `Website` every page of up to three of thirteen nodes is read: restaurants
with and without an `@id`, a poorer and a richer node that share one, references
before and after their target, a target given twice, an ambiguous type. Only two
of the pages are then followed through requests, with reviews dated the first or
the second of three days and valid for one, so that a review may be future, valid
and expired, and a midnight may fall between reading and storing.

In `Collector` the durations are shrunk, and keep what the code compares: the
timeout (1) is shorter than the rate limit (2), the cache (3) outlives it, and
the waits after three failures (1, 2, 3) are within the longest one (3), as 10,
20 and 30 s are within 60, so that the attempts end a collection and not their
delays. Servers ask for no wait, for the longest accepted and for one unit more.
Two areas share the lock and the mark and have a cache each: a second collection
is not always held back by a fresh cache.

In `Catalog` the texts asked for differ from those of the rows by capitals, by
an accent, by a blank or altogether, and one restaurant has no dish. Three dishes and pages of one give walks of three pages, which
`MaxOffset` (2) just admits, and a page of one reads two rows, so that a row
removed leaves a third unseen; prices are chosen so that the budget is met
exactly, two dishes tie and a share ends with half a centime. One edit falls
between any two statements of a walk; every table the rows allow is an initial
state. In `BackOffice` three rows on pages of one or two are moved by two writes
in front of, inside and behind the page; `MaxOffset` (1) refuses a page that was
announced; the clock shows three instants, so that the window of two slides past
an accepted request.

In `Auth` a second is two ticks, so that issue and expiry fall inside one; the
access token lives four ticks and the refresh token three, both within the
clock's range; four tokens are two sessions side by side or one exchanged three
times. In `Places` two blocks are the size limit and two places the page limit,
and answers go one beyond both.

Symmetry is used on sheet identifiers, sessions and passwords, never in a run
that checks liveness (`ImportAtomic`, `Collector`, `Places`).

Fairness. `ImportAtomic`: weak fairness of the statements of an open
transaction, since the server executes them once submitted; strong fairness of
`AcquireLock`, since PostgreSQL grants a lock to its waiters in their order of
arrival. `Collector`: weak fairness of the clock and of the steps a live process
takes by itself, its timers included. `Places`: weak fairness of `Start` and
`Catch`, which are plain code, of the deadline, which is a timer, and of what
ends an await after the abort: an aborted fetch or read rejects, and a pending
cancellation settles one way or the other. That is an assumption on the
transport, not something the adapter enforces. Nothing is assumed of clients, of
editors, of the answers of a server, nor of failures.

Deadlock is checked in every run but `Places`, where a request ends and nothing
follows.

Disagreements between the code and its documentation are the violation runs,
each with the sentence it contradicts under `findings` in `PROJECT.json`:

1. `createRestaurant` compares and stores contacts as typed, imports keep the
   canonical form (`ImportContacts`).
2. `publish` checks `verified` on an earlier read than the one its WHERE clause
   compares. A publication that names the next version, as the curl of the
   documentation computes it, reads the verified sheet; a sensitive edit commits
   that version, unverified; the publication matches it (`EditorialPublish`).
3. A page that returns to an earlier content is answered from the stored run,
   and its records keep the content in between (`WebsiteReplay`).

Weaker points met while modelling, for which there is no run:

- `updateDish` does not lock the restaurant it decides on, so that a dish may be
  published just after its restaurant was withdrawn; the public reads test both.
- By the same way as the publication of finding 2, a request that names a version
  in advance may leave a published dish without a price (`admin.service.ts:311-318`)
  or replace a provenance by one computed from what it read before
  (`admin.service.ts:191`). `PublishedDishPriced`, `PublishNeedsVerification` and
  `EvidenceRootKept` say that no other way leads there.
- Any PATCH without `verified` resets the verification, and its audit row lists
  every field, though `docs/collection/USAGE.md:86` speaks of sensitive editions:
  the fields the class declares are all keys of the object (`VerifiedAfter`,
  `Keys`).
- Two restaurants of a page that share an `@id` are read from the first met, not
  from the richest, which serves references only (`jsonld.ts:64-113`): a stub
  before the full description gives its name and its point.
- The two catalogues differ on accents and blanks, on the order of lists, and on
  a restaurant without dishes, whose menu is empty for PostgreSQL and a 404 for
  the demonstration.
- An approval withdrawn from the registry while a request waits for the lock does
  not stop it: the entry was read before.
- The mark of the collector is that of the first attempt: after retries, requests
  of two collections may be less than 60 s apart, though the collections began
  60 s apart. The cache is judged before the lock, so that a run may ask again
  for what another has just collected; `CollectionsSpaced` still spaces the two.
- A budget proposal of a dish edited between the two statements may show portions
  its quantity was not computed from (`PortionsSuffice` excepts it), and the page
  from which an edit removed a row may announce the end too early.
- Refresh tokens are never removed from their map; the logout of a token that was
  already exchanged does not end the session that went on from it.
- Rows that leave the status filter during a walk move others onto pages already
  read (`WalkMissesNothing` excepts them).

## 4. Proofs

Every theorem holds for any sets, finite or not, of sessions, rows, commands,
requests, tokens and answers, and any durations and limits, under the
assumptions named in the modules (`ASSUME`): null is not a value, a batch names a
source once, OSM and web references are disjoint, bounds are natural numbers,
the dishes of a catalogue are finitely many (they are sorted), and the
identifiers that `Alone` gives are not those of the tables.
The bounds on counters that TLC needs are parameters there.

Where a theorem is about what a loop or a recursive function computes, for a
batch, a page or a list of any length, the induction is made through `Least`, a
lemma each of three modules proves: a set of natural numbers that is not empty
has a least member. What failed for some length would fail for a first one, and
one turn of the loop shows that it does not.

**Lock and links** (`ImportProofs`)

- `TypeCorrect`. The invariant `TypeInv` adds to `TypeOK` which requests may be
  in which phase (`Phased`), without which their fields could not be read.
- `OneWriterAtATime`. `Discipline` is the inductive invariant: a session past the
  lock and before its end holds it, and only such a session has a draft.
- `HashFree`, from `Unfiled`: from the lookup of the hash to the commit, the hash
  stays absent, because nobody else holds the lock.
- `LinksNeverMove`, from `LinksKept`: the uncommitted observation of a linked
  source keeps its link, for no commit can link the source between read and write.
- `StepCases`, the lemma the other import proofs rest on: a step leaves tables
  and drafts alone, drops a draft, lets that of the lock holder grow by one row
  of a known kind, settles it into the tables, or is an edit.

**Simulations** (`ImportProofs`). `SimulationsForetell`: the outcomes a
simulation answers are those of the command applied alone to its snapshot, though
other writers commit while it runs. The invariant `Simulating` compares the loop
with `Alone` after as many candidates (`Foretold`): the same outcomes; the
records of the candidates to come unchanged on both sides, since a batch names a
source once; and the plan of the simulation in the place of the sheets that
`Alone` has created, with which the search for duplicates finds the same
(`SameDuplicates`), hence the same verdict (`SameVerdict`). `AloneIs` is the
recursion of `Alone`.

**Tables** (`ImportProofs`). The tables alone are not inductive: a draft
must already satisfy what its commit will make true. The invariants therefore
speak of *worlds*: `Sheets(s)`, `Records(s)` and `Entries(s)` are the tables as
session `s` would leave them by committing now.

- `CoherentAll` says that the tables, and every world, are coherent: drafts are
  traced to their sources, audit rows are exact, untouched sheets differ. With
  `FreshSheets` (drafted identifiers are free) it gives `DraftsAreTraced`,
  `AuditIsExact` and `UntouchedAreDistinct`. An edit, which takes no lock, moves
  the version of its sheet in every world at once, which is why it cannot make
  two *untouched* sheets alike.
- `EditsOnlyByVersion` and `SourcesOnlyAdvance`, action properties: the second
  from `Advancing`, an observation in a draft is not older than the table's.
- `AnswersAreOnFile` and `AtMostOneFresh`, from `Filed`: who answers a fresh
  import has its result in its draft, then in the table.
- `RunsAccount`, from `AccountedAll`: in each world, the sheets drafted from a
  source and the announcements of the results correspond one to one, the items of
  a scan in progress counting as the result of its command.
- `ImplementsLedger`: `Spec => AtomicLedger`. `Progress` says what each writer has
  drafted in the terms of the ledger step it will be; `LedgerInit` and
  `LedgerStep` map the initial states, and every step to `Ingest`, `Add`, `Link`
  or a stutter.

**Intake** (`WebsiteProofs`): `TypeCorrect`; `RecordsOwed`; `ReviewHolds`, from
`Reviewed`: the entry a request holds was valid on the day it read it, and that
day is today or yesterday. Of the reader of pages, whatever their length:
`SourcesOnce`, since a candidate is kept only if its identity was not seen
(`OneTurn`); `AnyOrderReadsTheSame`, since what is read is the set of readings
of the nodes (`WhatIsRead`), and a reading depends on the order through `ById`
alone, the first of the richest nodes of an `@id` (`ByIdIs`), which
`TargetsAgree` makes the same point whichever it is (`SamePlace`); an identity is
read from the first restaurant that bears it, which is where two orders may hear
different nodes (`EstablishmentsRead`).

**Edition** (`EditorialProofs`): `TypeCorrect`, `AttestationsHold`, `PricesHold`,
`AuditComplete`, `PublicationChecked`, `EvidencePermanent`. The inductive
invariant says what each stage of a transaction knows: a screen, a request and a
copy tell the truth about the row they were taken from *as long as its version
is theirs* (`ScreenTrue`, `RequestTrue`, `CopyTrue`), a written row waits behind
its lock (`Locks`, `PendingTrue`), and the committed rows are sound
(`TablesTrue`). Compare-and-swap is what turns the conditional into a fact: when
the version expected was not reached at the read, the version compared at the
write is not that of the copy, nothing follows, and the row is `ahead`.

**Back office** (`BackOfficeProofs`): `LimitHolds` and `RefusalsAreFair`, the
array is exactly the requests of the last window (`CountIsExact`), so that a
window ending anywhere is one an `Accept` counted; `TypeCorrect`; `WalkComplete`
from `Covered`: a due and unwritten row that was not seen yet stands at or after
the offset, for writes only push it back unless a row leaves the filter;
`ShownOnce` from `Behind`.

**Catalogue** (`CatalogProofs`). First the sorting: a finite set with a total
order has a sequence that follows it (`SomeSequenceFollows`, by insertion) and
only one (`OneSequenceFollows`, by the first position where two would differ).
`Precedence` is such an order on what a query selects, because the statements
break ties by the identity of the dish (`OrderIsTotal`, `OrderDeterminesPages`):
the pages of a quiet walk are windows of one sequence, and windows join
(`WindowsJoin`). The inductive invariant `IInv` adds to `TypeOK` the properties
of the answers and what each stage knows: a row read is affordable, in the
quantity computed for it, and its copy is its dish, unless an edit touched it
since (`RowsHold`, `CopiesHold`); without edits the rows are those the statement
would read now, and the pages shown are the beginning of the ranking up to the
offset reached (`WalkHolds`). It gives `TypeCorrect`, `BudgetHolds`, `PeopleAreFed`,
`WalksAreComplete`, and `SameCatalogues`: what one
catalogue selects the other does, or does where texts are spelled alike
(`TextsCompared`, `DemoSelects`), the demonstration has each once in an order of
its own (`DemoIdsAre`), and the row read beyond the page announces what its count
announces (`OneRowMore`). `PagesKeepTheOthers` is the action property: the answer loses
only what was touched, and keeps its order.

**Collector** (`CollectorProofs`): `TypeCorrect`, which needs `AttemptsLeft`;
`OneAtATime` and `NoOrphanWithoutCrash`, from `Locks`: a run that holds has the
file behind it; `BeginningsSpaced`, from `MarkDates`: the mark is no older than the
last collection, and `Compared`: a run about to write it has seen it old enough
and holds the lock, so that nobody wrote it since; `CacheNeverLost`, from `TempWhole`: the temporary file is whole
while a run stands before its rename.

**Sessions** (`AuthProofs`): `TypeCorrect`, `AccountsOutliveTokens`,
`OnlyCurrentTokensServe`, `Rotation`, `AccessBounded`. The tokens on file are
those given out since the last restart, with their account and date (`OnFile`);
an exchanged or withdrawn one is used (`Spent`); identities are fresh. Two
theorems are about whole sessions, which `Chain` gathers as the tokens reached
from one through the tokens they were exchanged for. A token is exchanged at most
once (`Rotation`), so that of two tokens of a session one descends from the other
(`ChainsAreLines`): it was exchanged, and `OneOfASessionServes`. As each exchange
keeps the subject, `SessionsKeepTheirAccount`.

**Provider** (`PlacesProofs`): `TypeCorrect`, `TimeoutsAreDeadlines`,
`PagesAreWhole`, `NothingLeft`, `RefusalsAreTold`, from what each await knows
(`Standing`) and what a caught error was thrown for (`ThrownForAnswer`).

Model-checked only: liveness (`EveryRequestEnds`, `EveryRunEnds`), fairness and
ENABLED being out of the provers' reach. Every other property of the passing runs
is the statement of a theorem.

## 5. Not modelled

- Formatting, logging, OpenAPI, HTTP status mapping, the values of the demo data,
  the target architecture under `docs/architecture`, which is not running code.
- In the catalogue: the words of the text search, one more condition on rows, and
  reads of one statement without a decision after them (single rows,
  `restaurants`, `categories`, `areas`, `nearby`).
- The rules of single fields in `osm-candidate.ts` (opening hours, cuisines,
  addresses), unit-tested conversions without state; of JSON-LD, the limits of
  depth and size, and the fields no decision reads.
- The widths of columns, on which an import aborts as it does for any other cause.
- The pool of connections, a library's; `main.ts`, `app.module.ts`, the filter.
- The other command lines: files and arguments around imports that are modelled.
- Trigram similarity and distance are relations; `quality()` is a score no
  decision reads; signatures and digests are taken to be injective.
