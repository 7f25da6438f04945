-------------------------------- MODULE Ledger --------------------------------
(***************************************************************************)
(* What the import transactions promise to whoever reads the committed     *)
(* tables: one import is one atomic step that runs once, drafts at most    *)
(* one sheet for a source that has none, and never moves a link; a manual  *)
(* creation adds one sheet, a manual link attaches a source to one.        *)
(* Which candidates deserve a sheet is left open.                          *)
(***************************************************************************)
EXTENDS FiniteSets

CONSTANTS Ids, Refs, Commands, Null, SourcesOf(_)

VARIABLES
    sheets,  \* identifiers of the catalogue
    link,    \* the sheet of each source, Null for none
    runs     \* by command, the sheet each source was drafted as, or Null

ledger == <<sheets, link, runs>>

Init ==
    /\ sheets = {}
    /\ link = [r \in Refs |-> Null]
    /\ runs = [h \in Commands |-> Null]

(***************************************************************************)
(* born is the sheet each source of the command is drafted as, or Null.    *)
(***************************************************************************)
Ingest(h, born) ==
    /\ runs[h] = Null
    /\ \A r \in SourcesOf(h) : born[r] # Null =>
          /\ link[r] = Null /\ born[r] \notin sheets
          /\ \A q \in SourcesOf(h) : born[q] = born[r] => q = r
    /\ sheets' = sheets \cup ({born[r] : r \in SourcesOf(h)} \ {Null})
    /\ link' = [r \in Refs |->
            IF r \in SourcesOf(h) /\ born[r] # Null THEN born[r] ELSE link[r]]
    /\ runs' = [runs EXCEPT ![h] = born]

Add(id) ==
    /\ id \notin sheets
    /\ sheets' = sheets \cup {id}
    /\ UNCHANGED <<link, runs>>

Link(r, id) ==
    /\ id \in sheets /\ link[r] = Null
    /\ link' = [link EXCEPT ![r] = id]
    /\ UNCHANGED <<sheets, runs>>

Next ==
    \/ \E h \in Commands : \E born \in [SourcesOf(h) -> Ids \cup {Null}] :
            Ingest(h, born)
    \/ \E id \in Ids : Add(id)
    \/ \E r \in Refs, id \in Ids : Link(r, id)

Spec == Init /\ [][Next]_ledger
=============================================================================
