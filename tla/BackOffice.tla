----------------------------- MODULE BackOffice -----------------------------
(***************************************************************************)
(* An operator walks a list of the back office page by page (restaurants,  *)
(* candidates and websiteCandidates of src/admin/admin.service.ts) through *)
(* the request limit of AdminGuard, while other operators and the command  *)
(* line write.  A page is one statement (skip, take) over an order that    *)
(* the writes change: updatedAt, the newest first, then the identifier.    *)
(* Rows are never deleted.  A write commits later than it took its time,   *)
(* so its updatedAt is any time since the row's previous one.              *)
(***************************************************************************)
EXTENDS AdminGuard

CONSTANTS
  Ids,         \* identifiers of rows, in their order
  Statuses,    \* contentStatus
  Any,         \* no status filter
  PageLimits,  \* the limits an operator asks
  MaxTouched,  \* bound: rows written during the walk
  MaxOffset    \* 10000: the largest offset AdminRestaurantQueryDto accepts

ASSUME BackOfficeAssumption ==
  /\ Ids \subseteq Nat /\ IsFiniteSet(Ids) /\ Any \notin Statuses
  /\ PageLimits \subseteq Nat \ {0} /\ MaxOffset \in Nat

VARIABLES
  rows,   \* the table the walk reads: id -> row
  walk    \* the walk: what it asked, where it stands, and its history

vars == <<guard, rows, walk>>

Lists == {"restaurants", "candidates", "websites"}

Row == [updatedAt : Nat, status : Statuses]

\* offset, limit, list, status: the query; more: the last page announced another.
\* due: the rows that matched at the start; seen; twice: a row was shown again;
\* touched: rows written since; left: a row stopped matching the filter.
Walk == [list : Lists, status : Statuses \cup {Any},
         limit : PageLimits, offset : Nat, more : BOOLEAN,
         due : SUBSET Ids, seen : SUBSET Ids, twice : BOOLEAN,
         touched : SUBSET Ids, left : BOOLEAN]

OldestFirst(list, x, y) ==
  \/ rows[x].updatedAt < rows[y].updatedAt
  \/ rows[x].updatedAt = rows[y].updatedAt /\ x < y

\* orderBy: websites go by id alone.
Ahead(list, x, y) ==
  IF list = "websites" THEN x < y
  ELSE \/ rows[x].updatedAt > rows[y].updatedAt
       \/ rows[x].updatedAt = rows[y].updatedAt /\ x < y

\* where: only restaurants are filtered, and only if a status is asked.
Wanted(list, status) ==
  {x \in DOMAIN rows : list = "restaurants" /\ status # Any => rows[x].status = status}

Rank(w, x) == Cardinality({y \in Wanted(w.list, w.status) : Ahead(w.list, y, x)})

\* skip: offset, take: limit.
Page(w) ==
  {x \in Wanted(w.list, w.status) :
     w.offset <= Rank(w, x) /\ Rank(w, x) < w.offset + w.limit}

\* hasNextPage: one row more than the limit was there; websites announce nothing,
\* so the operator goes on as long as pages are full.
More(w) ==
  LET size == Cardinality(Wanted(w.list, w.status))
  IN IF w.list = "websites" THEN size >= w.offset + w.limit ELSE size > w.offset + w.limit

LastOfPage(w) == w.offset + w.limit - 1

\* nextOffset
NextOffset(w) == w.offset + w.limit

\* The walk begins: the rows have any statuses, the newest are written later.
Init ==
  /\ GuardInit
  /\ rows \in UNION {[S -> [updatedAt : {0}, status : Statuses]] : S \in SUBSET Ids}
  /\ \E list \in Lists, limit \in PageLimits, status \in Statuses \cup {Any} :
       /\ list # "restaurants" => status = Any
       /\ walk = [list |-> list, status |-> status, limit |-> limit, offset |-> 0,
                  more |-> TRUE, due |-> Wanted(list, status), seen |-> {},
                  twice |-> FALSE, touched |-> {}, left |-> FALSE]

ReadPage ==
  /\ walk.more /\ walk.offset <= MaxOffset
  /\ Accept
  /\ walk' = [walk EXCEPT !.offset = NextOffset(walk), !.more = More(walk),
                          !.seen = walk.seen \cup Page(walk),
                          !.twice = walk.twice \/ Page(walk) \cap walk.seen # {}]
  /\ UNCHANGED rows

\* The guard counts a request before the query is validated: an offset past
\* MaxOffset, though a page announced it, is refused (400).
TooFar ==
  /\ walk.more /\ walk.offset > MaxOffset
  /\ Accept
  /\ UNCHANGED <<rows, walk>>

\* A row is created or changed, by a request the guard lets through or by the
\* command line, which it never sees.
Write(x, time, status) ==
  /\ walk.more /\ Cardinality(walk.touched \cup {x}) <= MaxTouched
  /\ x \in DOMAIN rows => rows[x].updatedAt <= time
  /\ rows' = [y \in DOMAIN rows \cup {x} |->
                IF y = x THEN [updatedAt |-> time, status |-> status] ELSE rows[y]]
  /\ walk' = [walk EXCEPT !.touched = @ \cup {x},
                          !.left = @ \/ /\ x \in Wanted(walk.list, walk.status)
                                        /\ walk.list = "restaurants"
                                        /\ walk.status \notin {Any, status}]
  /\ Accept \/ UNCHANGED guard

Next ==
  \/ ReadPage \/ TooFar
  \/ \E x \in Ids, time \in 0..now, status \in Statuses : Write(x, time, status)
  \/ (Refuse \/ RestartServer \/ Tick) /\ UNCHANGED <<rows, walk>>

Spec == Init /\ [][Next]_vars

-----------------------------------------------------------------------------
\* The state's shape.
TypeOK ==
  /\ GuardTypeOK
  /\ DOMAIN rows \subseteq Ids /\ rows \in [DOMAIN rows -> Row]
  /\ \A x \in DOMAIN rows : rows[x].updatedAt <= now
  /\ walk \in Walk

\* A walk that came to its end showed every row that was there at its start and
\* that nobody wrote meanwhile, whatever was created, edited or committed late
\* between two pages, and however often the limit made it wait - unless some row
\* left the status filter, which moves the rows behind it onto pages already
\* read (restaurants, candidates, websiteCandidates).
WalkMissesNothing ==
  ~walk.more /\ ~walk.left => walk.due \ walk.touched \subseteq walk.seen

\* A row is shown on two pages only if something was written during the walk.
ShownOnceWhenQuiet == walk.twice => walk.touched # {}
=============================================================================
