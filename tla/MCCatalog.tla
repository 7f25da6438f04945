----------------------------- MODULE MCCatalog -----------------------------
(***************************************************************************)
(* The instance of Catalog for TLC: two dishes of one restaurant, one of   *)
(* another and none of a third, pages of one or two.  For three people the *)
(* plates cost 6 (three times 2), 6 (twice 3) and 5 (once 5), so that the  *)
(* budget of 6 is met exactly, with a tie; for eight people the third      *)
(* costs 15, a share that ends with half a centime.  The other rows are    *)
(* withdrawn and without price, sold out, a dessert; the other places are  *)
(* closed elsewhere, withdrawn.  The texts asked for differ from those of  *)
(* the rows by capitals, by an accent, by a blank or altogether.  Menus    *)
(* are asked for too, that of the restaurant without dishes among them;    *)
(* three dishes on pages of one reach the last offset accepted, 2.         *)
(***************************************************************************)
EXTENDS Catalog, TLC

MCRestaurantOf == (1 :> "boma" @@ 2 :> "boma" @@ 3 :> "rose")
MCFixtures == <<3, 1, 2>>

LOCAL Capitalized(word) ==
    [word |-> word, capitals |-> TRUE, accents |-> FALSE, blanks |-> FALSE]
LOCAL Small(word) == [Capitalized(word) EXCEPT !.capitals = FALSE]

Plate(price, servings) ==
    [price |-> price, servings |-> servings, published |-> TRUE,
     available |-> TRUE, category |-> Capitalized("plats")]

MCDishRows ==
    {Plate(2, 1), Plate(3, 2), Plate(5, 3),
     [Plate(2, 1) EXCEPT !.price = Null, !.published = FALSE],
     [Plate(5, 3) EXCEPT !.available = FALSE],
     [Plate(3, 2) EXCEPT !.category = Desserts]}

Place(listed, open, area) == [listed |-> listed, open |-> open, area |-> Capitalized(area)]
MCRestaurantRows ==
    {Place(TRUE, TRUE, "gombe"), Place(TRUE, FALSE, "limete"), Place(FALSE, TRUE, "gombe")}

Budget(limit, area, people, budget) ==
    [kind |-> "budget", limit |-> limit, area |-> area, people |-> people,
     budget |-> budget]
All == [kind |-> "list", limit |-> 1, area |-> Null, category |-> Null,
        maxPrice |-> Null, available |-> Null, restaurantId |-> Null]

MCQueries ==
    {Budget(1, Null, 3, 6), Budget(2, Small("gombe"), 3, 6),
     Budget(2, [Small("gombe") EXCEPT !.accents = TRUE], 3, 6),
     Budget(1, Small("limete"), 8, 15), Budget(1, Null, 8, 15),
     All,
     [All EXCEPT !.limit = 2, !.area = Small("gombe"), !.maxPrice = 3],
     [All EXCEPT !.limit = 2, !.area = [Capitalized("limete") EXCEPT !.blanks = TRUE]],
     [All EXCEPT !.category = Small("plats"), !.available = TRUE],
     [All EXCEPT !.restaurantId = "boma"],
     [All EXCEPT !.kind = "menu", !.restaurantId = "boma"],
     [All EXCEPT !.kind = "menu", !.restaurantId = "vide"]}
=============================================================================
