------------------------------ MODULE MCWebsite ------------------------------
(***************************************************************************)
(* Instances of Website for TLC.  The reader is checked on every page of   *)
(* up to three of the nodes below: restaurants with and without an @id, a  *)
(* poorer and a richer node that share one, a reference met before or      *)
(* after its target, and a target given twice.  The site publishes a       *)
(* restaurant at one point, then at another beside a second restaurant.    *)
(***************************************************************************)
EXTENDS Website, TLC

LOCAL Restaurant(id, keys, name, geo) ==
  [id |-> id, type |-> "restaurant", keys |-> keys, name |-> name, point |-> Null, geo |-> geo]
LOCAL Geo(id, keys, point) ==
  [id |-> id, type |-> "other", keys |-> keys, name |-> Null, point |-> point, geo |-> Null]

MCNodes ==
  {Restaurant("r", 2, "a", "g"), Restaurant("r", 3, "a", "p1"), Restaurant("r", 3, "a", "p2"),
   Restaurant(Null, 2, "a", "g"),
   Restaurant(Null, 2, "a", "p1"), Restaurant(Null, 1, Null, Null), Restaurant(Null, 2, "b", "p1"),
   [Restaurant(Null, 2, "b", "g") EXCEPT !.type = "business"],
   Geo("g", 1, Null), Geo("g", 2, "p1"), Geo("g", 3, "p2"), Geo("g", 3, "p1"), Geo(Null, 3, "p1")}

Twins == Permutations(Sessions)

MCDrafts == UNION {[1..n -> MCNodes] : n \in 0..3}

MCPages ==
  {<<Restaurant("r", 3, "a", "p1")>>,
   <<Restaurant("r", 3, "a", "p2"), Restaurant(Null, 2, "b", "p1")>>}
=============================================================================
