----------------------------- MODULE ImportLedger -----------------------------
(***************************************************************************)
(* The import transactions seen as the ledger of their committed effects.  *)
(***************************************************************************)
EXTENDS Import

SourcesOf(h) == {h.cands[i].ref : i \in DOMAIN h.cands}

DraftedAs(result, r) ==
    LET drafted == {i \in DOMAIN result : /\ result[i].source = r
                                          /\ result[i].outcome = "DRAFT_CREATED"}
    IN  IF drafted = {} THEN Null ELSE result[CHOOSE i \in drafted : TRUE].restaurant

L == INSTANCE Ledger WITH
        sheets <- {id \in Ids : Exists(id)},
        link <- [r \in Refs |-> LinkedTo(record, r)],
        runs <- [h \in Commands |->
            IF importRun[h] = Null THEN Null
            ELSE [r \in SourcesOf(h) |-> DraftedAs(importRun[h], r)]]

(***************************************************************************)
(* The transactions implement the ledger: whatever interleaves, readers    *)
(* see each import as one step that happens once.                          *)
(***************************************************************************)
AtomicLedger == L!Spec
=============================================================================
