----------------------------- MODULE MCEditorial -----------------------------
(***************************************************************************)
(* Instances of Editorial for TLC: one sheet, one dish, two sessions.      *)
(***************************************************************************)
EXTENDS Editorial, TLC

CONSTANTS r1, d1, s1, s2

MCDishOf == d1 :> r1

Body(identity, status, verified) ==
    [identity |-> identity, status |-> status, verified |-> verified]

(***************************************************************************)
(* A correction, an attestation, and a correction with its attestation.    *)
(***************************************************************************)
MCPatches == {Body("moved", Absent, Absent),
              Body(Absent, Absent, TRUE),
              Body("moved", Absent, TRUE)}

DishBody(price, status) == [price |-> price, status |-> status]

MCDishPatches == {DishBody(Absent, "PUBLISHED"), DishBody(Null, Absent)}

Equals == Permutations(Sessions)
=============================================================================
