------------------------------- MODULE Catalog -------------------------------
(***************************************************************************)
(* The paged reads of the public catalogue: the list of dishes and the     *)
(* search by budget (src/catalog/postgres-catalog.service.ts), walked page *)
(* by page by a client while the back office edits dishes and restaurants. *)
(*                                                                         *)
(* Each statement reads the rows committed at its start and an edit may    *)
(* commit between any two.  The list is one statement, the budget search   *)
(* two: the ids with their quantities, then the dishes; the menu of a      *)
(* restaurant looks for the restaurant first; and whichever includes the   *)
(* restaurant loads it with a statement more.  The demonstration catalogue *)
(* (catalog.service.ts) answers the same queries from a constant array,    *)
(* with comparisons and an order of its own.                               *)
(***************************************************************************)
EXTENDS Naturals, Sequences, FiniteSets, Functions

CONSTANTS
    Dishes,          \* identifiers, in their order
    Restaurants,
    RestaurantOf,    \* the restaurant of each dish
    Fixtures,        \* demoDishes: the dishes in the order of the array
    DishRows,        \* what an editor may make of a dish
    RestaurantRows,  \* and of a restaurant
    Queries,         \* what a client may ask
    MaxOffset,       \* 1000: the largest offset PageQuery accepts
    MaxEdits,        \* bound on the edits during one walk
    Null

(* The letters of a text, whether some are capitals or bear accents, and   *)
(* whether blanks surround them.                                           *)
Text == [word : STRING, capitals : BOOLEAN, accents : BOOLEAN, blanks : BOOLEAN]
Desserts == [word |-> "desserts", capitals |-> TRUE, accents |-> FALSE, blanks |-> FALSE]

Dish == [price : Nat \cup {Null}, servings : Nat \ {0}, published : BOOLEAN,
         available : BOOLEAN, category : Text]
Restaurant == [listed : BOOLEAN, open : BOOLEAN, area : Text]

(* Null: the client does not ask.  Every page of a walk has the limit of   *)
(* its query.  The words of q, one more condition on rows, are left out.   *)
ListQuery == [kind : {"list", "menu"}, limit : Nat \ {0}, area : Text \cup {Null},
              category : Text \cup {Null}, maxPrice : Nat \cup {Null},
              available : BOOLEAN \cup {Null},
              restaurantId : Restaurants \cup {Null}]
BudgetQuery == [kind : {"budget"}, limit : Nat \ {0},
                area : Text \cup {Null}, people : Nat \ {0}, budget : Nat]

ASSUME CatalogAssumption ==
    /\ Dishes \subseteq Nat /\ IsFiniteSet(Dishes)
    /\ RestaurantOf \in [Dishes -> Restaurants]
    /\ Fixtures \in Bijection(1..Cardinality(Dishes), Dishes)
    /\ DishRows \subseteq Dish /\ RestaurantRows \subseteq Restaurant
    /\ Queries \subseteq ListQuery \cup BudgetQuery
    /\ \A q \in Queries : q.kind = "menu" => q.restaurantId \in Restaurants
    /\ MaxEdits \in Nat /\ MaxOffset \in Nat /\ Null \notin Nat

VARIABLES
    dish, restaurant,  \* the tables
    pc,                \* where the search stands
    query, offset,     \* what the client asked, and from where
    rows,              \* the dishes of the first statement, their quantities
    copies,            \* the dishes as they were read
    answer,            \* the page answered: [data, next]
    (* history *)
    shown,             \* what the pages of the walk have shown so far
    edits,             \* edits since the walk began
    touched            \* dishes changed, or their restaurant, since the rows

tables == <<dish, restaurant>>
history == <<shown, edits, touched>>
vars == <<tables, pc, query, offset, rows, copies, answer, history>>

NoPage == [data |-> <<>>, next |-> Null]

-----------------------------------------------------------------------------
(* The conditions of the statements.                                       *)

Asked(wish, value) == wish = Null \/ wish = value

(* Variant: the mode forgotten, capitals count. *)
AskedExactly(wish, text) == wish = Null \/ wish = text

(* equals, mode insensitive, and lower().                                  *)
Lower(text) == [text EXCEPT !.capitals = FALSE]
AskedInsensitive(wish, text) == wish = Null \/ Lower(wish) = Lower(text)

InArea(q, d) == AskedInsensitive(q.area, restaurant[RestaurantOf[d]].area)
Public(d) == dish[d].published /\ restaurant[RestaurantOf[d]].listed
Priced(d) == dish[d].price # Null

(* Variant: a portion short. *)
QuantityDown(people, servings) == people \div servings

(* ceil(people / servings) *)
Quantity(people, servings) == (people + servings - 1) \div servings

Cost(q, d) == dish[d].price * Quantity(q.people, dish[d].servings)

Listed(q, d) ==
    /\ Public(d) /\ Priced(d) /\ InArea(q, d)
    /\ AskedInsensitive(q.category, dish[d].category)
    /\ q.maxPrice # Null => dish[d].price <= q.maxPrice
    /\ Asked(q.available, dish[d].available)
    /\ Asked(q.restaurantId, RestaurantOf[d])

Affordable(q, d) ==
    /\ Public(d) /\ dish[d].available /\ dish[d].category # Desserts
    /\ restaurant[RestaurantOf[d]].open /\ InArea(q, d)
    /\ Priced(d) /\ Cost(q, d) <= q.budget

Wanted(q) == {d \in Dishes : IF q.kind = "budget" THEN Affordable(q, d)
                                                  ELSE Listed(q, d)}

(* Lists go by identifier, budgets by cost first.                          *)
Before(q, c, d) ==
    \/ q.kind # "budget" /\ c < d
    \/ q.kind = "budget" /\ Cost(q, c) < Cost(q, d)
    \/ q.kind = "budget" /\ Cost(q, c) = Cost(q, d) /\ c < d

Precedence(q) == {p \in Dishes \X Dishes : Before(q, p[1], p[2])}

(* The members of a finite set, each once, in an order given by its pairs. *)
Sorted(S, order) ==
    CHOOSE seq \in [1..Cardinality(S) -> S] :
        /\ Range(seq) = S
        /\ \A i, j \in DOMAIN seq : i < j => <<seq[i], seq[j]>> \in order

Ranked(q) == Sorted(Wanted(q), Precedence(q))

(* filter(): what a sequence has at some positions, in the order it had.   *)
Selected(seq, positions) ==
    LET at == Sorted(positions, {p \in positions \X positions : p[1] < p[2]})
    IN  [k \in DOMAIN at |-> seq[at[k]]]

(* LIMIT and OFFSET.                                                       *)
Window(seq, from, size) ==
    SubSeq(seq, from + 1, IF from + size < Len(seq) THEN from + size ELSE Len(seq))

-----------------------------------------------------------------------------
(* What is read of a dish, and what a page says of it.                     *)
Copy(d) == [price |-> dish[d].price, servings |-> dish[d].servings]

ListItem(d, copy) == [id |-> d, price |-> copy.price]

(* Centimes for each person, half a centime upwards.                       *)
Share(total, people) == (200 * total + people) \div (2 * people)

Proposal(d, copy, quantity) ==
    LET total == copy.price * quantity IN
    [id |-> d, price |-> copy.price, quantity |-> quantity,
     servings |-> copy.servings, total |-> total,
     share |-> Share(total, query.people)]

(* Variants: the price not looked at again; a budget met exactly refused. *)
StillOpen(r) == restaurant[RestaurantOf[r.id]].open

StillBelow(r) ==
    /\ restaurant[RestaurantOf[r.id]].open
    /\ copies[r.id].price * r.quantity < query.budget

(* The second look at a proposal: still open, still within the budget.     *)
StillGood(r) ==
    /\ restaurant[RestaurantOf[r.id]].open
    /\ copies[r.id].price * r.quantity <= query.budget

Page(items) ==
    [data |-> Window(items, 0, query.limit),
     next |-> IF Len(items) > query.limit THEN offset + query.limit ELSE Null]

-----------------------------------------------------------------------------
Init ==
    /\ dish \in [Dishes -> DishRows]
    /\ restaurant \in [Restaurants -> RestaurantRows]
    /\ pc = "idle"
    /\ query \in Queries
    /\ offset = 0
    /\ rows = <<>> /\ copies = <<>>
    /\ answer = NoPage
    /\ shown = <<>> /\ edits = 0 /\ touched = {}

(* A walk begins at its first page, and goes where the page before says.   *)
Ask(q) ==
    /\ pc \in {"idle", "answered"}
    /\ pc' = "asked"
    /\ query' = q /\ offset' = 0
    /\ answer' = NoPage
    /\ shown' = <<>> /\ edits' = 0 /\ touched' = {}
    /\ UNCHANGED <<tables, rows, copies>>

NextPage ==
    /\ pc = "answered" /\ answer.next # Null /\ answer.next <= MaxOffset
    /\ pc' = "asked"
    /\ offset' = answer.next
    /\ answer' = NoPage
    /\ UNCHANGED <<tables, query, rows, copies, history>>

(* Variant: the rows of the page and no more. *)
RowsOfThePage == Window(Ranked(query), offset, query.limit)

(* One row more than the page tells whether another page follows.          *)
RowsRead == Window(Ranked(query), offset, query.limit + 1)

(* restaurantDishes(): an unknown restaurant is a 404, whatever the page.  *)
FindRestaurant ==
    /\ pc = "asked" /\ query.kind = "menu"
    /\ pc' = IF restaurant[query.restaurantId].listed THEN "found" ELSE "idle"
    /\ UNCHANGED <<tables, query, offset, rows, copies, answer, history>>

ReadList ==
    /\ \/ pc = "asked" /\ query.kind = "list"
       \/ pc = "found"
    /\ pc' = "including"
    /\ rows' = [i \in DOMAIN RowsRead |-> [id |-> RowsRead[i], quantity |-> 1]]
    /\ copies' = [d \in Range(RowsRead) |-> Copy(d)]
    /\ touched' = {}
    /\ UNCHANGED <<tables, query, offset, answer, shown, edits>>

ReadQuantities ==
    /\ pc = "asked" /\ query.kind = "budget"
    /\ pc' = "rereading"
    /\ rows' = [i \in DOMAIN RowsRead |->
                  [id |-> RowsRead[i],
                   quantity |-> Quantity(query.people, dish[RowsRead[i]].servings)]]
    /\ touched' = {}
    /\ UNCHANGED <<tables, query, offset, copies, answer, shown, edits>>

(* Variant: the second read by identifier alone. *)
ReadDishesById ==
    /\ pc = "rereading"
    /\ pc' = "including"
    /\ copies' = [d \in {r.id : r \in Range(rows)} |-> Copy(d)]
    /\ UNCHANGED <<tables, query, offset, rows, answer, history>>

ReadDishes ==
    /\ pc = "rereading"
    /\ pc' = "including"
    /\ copies' = [d \in {r.id : r \in {s \in Range(rows) :
                            Public(s.id) /\ Priced(s.id) /\ dish[s.id].available}}
                    |-> Copy(d)]
    /\ UNCHANGED <<tables, query, offset, rows, answer, history>>

(* The restaurants of the dishes are loaded and the page is made of them.  *)
Reply(items) ==
    /\ pc' = "answered"
    /\ answer' = Page(items)
    /\ shown' = shown \o Page(items).data
    /\ rows' = <<>> /\ copies' = <<>>
    /\ UNCHANGED <<tables, query, offset, edits, touched>>

AnswerList ==
    /\ pc = "including" /\ query.kind # "budget"
    /\ Reply([i \in DOMAIN rows |-> ListItem(rows[i].id, copies[rows[i].id])])

AnswerBudget ==
    /\ pc = "including" /\ query.kind = "budget"
    /\ LET good == {i \in DOMAIN rows : rows[i].id \in DOMAIN copies /\ StillGood(rows[i])}
           kept == Selected(rows, good)
       IN  Reply([i \in DOMAIN kept |->
                    Proposal(kept[i].id, copies[kept[i].id], kept[i].quantity)])

-----------------------------------------------------------------------------
(* The back office meanwhile (module Editorial).                           *)

EditDish(d, row) ==
    /\ edits < MaxEdits
    /\ row # dish[d]
    /\ dish' = [dish EXCEPT ![d] = row]
    /\ edits' = edits + 1
    /\ touched' = touched \cup {d}
    /\ UNCHANGED <<restaurant, pc, query, offset, rows, copies, answer, shown>>

EditRestaurant(r, row) ==
    /\ edits < MaxEdits
    /\ row # restaurant[r]
    /\ restaurant' = [restaurant EXCEPT ![r] = row]
    /\ edits' = edits + 1
    /\ touched' = touched \cup {d \in Dishes : RestaurantOf[d] = r}
    /\ UNCHANGED <<dish, pc, query, offset, rows, copies, answer, shown>>

Next ==
    \/ \E q \in Queries : Ask(q)
    \/ NextPage
    \/ FindRestaurant \/ ReadList \/ ReadQuantities \/ ReadDishes
    \/ AnswerList \/ AnswerBudget
    \/ \E d \in Dishes, row \in DishRows : EditDish(d, row)
    \/ \E r \in Restaurants, row \in RestaurantRows : EditRestaurant(r, row)

Spec == Init /\ [][Next]_vars

-----------------------------------------------------------------------------
(* The demonstration catalogue, on the same rows, all public and priced as *)
(* its fixtures are.                                                       *)

(* normalize() leaves the letters alone.                                   *)
Normalize(text) == text.word
AskedNormalized(wish, text) == wish = Null \/ Normalize(wish) = Normalize(text)

DemoInArea(q, d) == AskedNormalized(q.area, restaurant[RestaurantOf[d]].area)

DemoDishes(q) ==
    {d \in Dishes : /\ DemoInArea(q, d)
                    /\ AskedNormalized(q.category, dish[d].category)
                    /\ q.maxPrice # Null => dish[d].price <= q.maxPrice
                    /\ Asked(q.available, dish[d].available)
                    /\ Asked(q.restaurantId, RestaurantOf[d])}

DemoProposals(q) ==
    {d \in Dishes : /\ dish[d].available /\ restaurant[RestaurantOf[d]].open
                    /\ dish[d].category # Desserts /\ DemoInArea(q, d)
                    /\ Cost(q, d) <= q.budget}

DemoOrder(q) ==
    {p \in Dishes \X Dishes :
        \/ Cost(q, p[1]) < Cost(q, p[2])
        \/ Cost(q, p[1]) = Cost(q, p[2]) /\ p[1] < p[2]}

(* Proposals are sorted, lists stay in the order of the array.             *)
DemoIds(q) ==
    IF q.kind = "budget" THEN Sorted(DemoProposals(q), DemoOrder(q))
    ELSE Selected(Fixtures, {i \in DOMAIN Fixtures : Fixtures[i] \in DemoDishes(q)})

DemoItem(q, d) ==
    IF q.kind = "budget"
    THEN Proposal(d, Copy(d), Quantity(q.people, dish[d].servings))
    ELSE ListItem(d, Copy(d))

DemoItems(q) == [i \in DOMAIN DemoIds(q) |-> DemoItem(q, DemoIds(q)[i])]

(* restaurant(): it knows the restaurants of its dishes and no other, so   *)
(* that the menu of any other is a 404.                                    *)
DemoKnows(q) == q.kind = "menu" => q.restaurantId \in Range(RestaurantOf)

DemoPage(q, from) ==
    LET data == Window(DemoItems(q), from, q.limit)
        end == from + Len(data)
    IN  [data |-> data, next |-> IF end < Len(DemoItems(q)) THEN end ELSE Null]

-----------------------------------------------------------------------------
Places == {"idle", "asked", "found", "rereading", "including", "answered"}
RowType == [id : Dishes, quantity : Nat]
ItemType == [id : Dishes, price : Nat]
            \cup [id : Dishes, price : Nat, quantity : Nat, servings : Nat,
                  total : Nat, share : Nat]

TypeOK ==
    /\ dish \in [Dishes -> DishRows]
    /\ restaurant \in [Restaurants -> RestaurantRows]
    /\ pc \in Places
    /\ query \in Queries
    /\ offset \in Nat
    /\ rows \in Seq(RowType)
    /\ DOMAIN copies \subseteq Dishes
    /\ \A d \in DOMAIN copies : copies[d] \in [price : Nat, servings : Nat]
    /\ answer \in [data : Seq(ItemType), next : Nat \cup {Null}]
    /\ shown \in Seq(ItemType)
    /\ edits \in 0..MaxEdits
    /\ touched \subseteq Dishes

Ids(items) == [i \in DOMAIN items |-> items[i].id]
Walked == pc = "answered" /\ answer.next = Null

(***************************************************************************)
(* A client that follows nextOffset to the end over a base nobody edits    *)
(* meanwhile is shown every dish it asked for, once, in their order,       *)
(* whatever the limit and however many pages that takes.                   *)
(***************************************************************************)
WalkIsComplete == Walked /\ edits = 0 => Ids(shown) = Ranked(query)

(***************************************************************************)
(* Edits between the two reads take from a page nothing but what they      *)
(* touch: every other dish of the window is in the answer, and the answer  *)
(* keeps the order of the rows.                                            *)
(***************************************************************************)
OthersStayOnThePage ==
    [][pc = "including" /\ pc' = "answered" =>
         LET data == answer'.data
             Rank(k) == CHOOSE i \in DOMAIN rows : rows[i].id = data[k].id
         IN  /\ \A i \in DOMAIN rows :
                   i <= query.limit /\ rows[i].id \notin touched
                     => rows[i].id \in Range(Ids(data))
             /\ \A j, k \in DOMAIN data : j < k => Rank(j) < Rank(k)]_vars

(***************************************************************************)
(* A proposal is paid by the budget at the price it shows, though the      *)
(* price may have changed since the quantity was computed.                 *)
(***************************************************************************)
PriceShownFits ==
    query.kind = "budget" =>
        \A i \in DOMAIN answer.data :
            answer.data[i].price * answer.data[i].quantity <= query.budget

(***************************************************************************)
(* The quantity of a proposal feeds the people asked for, though quantity  *)
(* and portions are read by two statements, unless an edit touched the     *)
(* dish in between.                                                        *)
(***************************************************************************)
PortionsSuffice ==
    query.kind = "budget" =>
        \A i \in DOMAIN answer.data : answer.data[i].id \notin touched =>
            answer.data[i].quantity * answer.data[i].servings >= query.people

(* Texts that the demonstration takes for the same differ by their         *)
(* capitals alone, which PostgreSQL forgives too.                          *)
SpelledAlike(q) ==
    LET Alike(wish, text) ==
          wish # Null /\ Normalize(wish) = Normalize(text) =>
            wish.accents = text.accents /\ wish.blanks = text.blanks
    IN \A d \in Dishes :
          /\ Alike(q.area, restaurant[RestaurantOf[d]].area)
          /\ q.kind # "budget" => Alike(q.category, dish[d].category)

(***************************************************************************)
(* CATALOG_SOURCE chooses one of two catalogues for the same routes.  On   *)
(* rows that both may hold, without edits, PostgreSQL shows nothing that   *)
(* the demonstration does not.  Where no accent nor blank sets the texts   *)
(* apart, both propose the same page for a budget; their pages of a list   *)
(* are as long and lead on as far, though one reads a row more than the    *)
(* page and the other counts what is left, and once walked to their end    *)
(* they have shown the same dishes, though in orders of their own.  Of a   *)
(* restaurant without dishes the demonstration has no menu at all.         *)
(***************************************************************************)
AgreesWithDemo ==
    LET page == DemoPage(query, offset) IN
    pc = "answered" /\ edits = 0 /\ (\A d \in Dishes : Public(d) /\ Priced(d)) =>
        /\ Range(answer.data) \subseteq Range(DemoItems(query))
        /\ SpelledAlike(query) /\ DemoKnows(query) =>
             IF query.kind = "budget" THEN answer = page
             ELSE /\ Len(answer.data) = Len(page.data) /\ answer.next = page.next
                  /\ answer.next = Null => Range(Ids(shown)) = DemoDishes(query)
=============================================================================
