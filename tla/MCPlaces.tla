------------------------------ MODULE MCPlaces ------------------------------
(***************************************************************************)
(* Instance of Places for TLC: every status the adapter tells apart, bodies*)
(* of no block up to one over the limit of two, pages of no place up to    *)
(* one over the limit, with a place refused or not.                        *)
(***************************************************************************)
EXTENDS Places

MCAnswers ==
  {a \in [status : {200}, size : 0..MaxBytes + 1, json : BOOLEAN,
          places : 0..MaxPlaces + 1, bad : 0..1] : a.bad <= a.places}
  \cup [status : {204, 400, 401, 403, 404, 429, 500}, size : {0, 1}, json : {FALSE},
        places : {0}, bad : {0}]
=============================================================================
