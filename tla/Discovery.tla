------------------------------ MODULE Discovery ------------------------------
(***************************************************************************)
(* What an import or the back office knows of an establishment, and the    *)
(* conservative duplicate search every creation of a sheet goes through    *)
(* (src/ingestion/domain/discovery.ts).                                    *)
(*                                                                         *)
(* Names stand for normalised names (trim, unaccent, lower, punctuation    *)
(* folded), Places for coordinates; trigram similarity >= 0.45 is the      *)
(* relation Similar, ST_DWithin(.., 250) the relation Near.  Both SQL      *)
(* functions are symmetric and reflexive, and so are the relations.        *)
(* Contacts holds telephone numbers and web sites as they are written;     *)
(* phone() and safeUrl() are the function Canon: the canonical writing of  *)
(* a contact, or Null for one they refuse.                                 *)
(***************************************************************************)
EXTENDS Naturals

CONSTANTS
    Names, Places, Contacts,
    Similar,    \* pairs of names
    Near,       \* pairs of places
    Canon,      \* [Contacts -> Contacts \cup {Null}]
    Null        \* the null of SQL and TypeScript

ASSUME NullAssumption == 
    Null \notin Names /\ Null \notin Places /\ Null \notin Contacts

ASSUME CanonAssumption == Canon \in [Contacts -> Contacts \cup {Null}]

ASSUME SymmetryAssumption ==
    /\ \A a, b \in Names : <<a, b>> \in Similar => <<b, a>> \in Similar
    /\ \A p, q \in Places : <<p, q>> \in Near => <<q, p>> \in Near

(***************************************************************************)
(* The part of a sheet or of a candidate duplicates() looks at.  A column  *)
(* of a sheet is never null (schema.prisma), a candidate's may be.         *)
(***************************************************************************)
Identity == [name : Names, place : Places, contacts : SUBSET Contacts]

Sighting == [name : Names \cup {Null}, place : Places \cup {Null},
             contacts : SUBSET Contacts]

(***************************************************************************)
(* The contacts an import keeps: canonical ones only.                      *)
(***************************************************************************)
Canonical(contacts) == {Canon[x] : x \in contacts} \ {Null}

(***************************************************************************)
(* The WHERE clause of duplicates(): same normalised name, or a contact    *)
(* written identically, or a similar name within 250 m.                    *)
(***************************************************************************)
Resembles(a, b) ==
    \/ a.name = b.name
    \/ a.contacts \cap b.contacts # {}
    \/ <<a.place, b.place>> \in Near /\ <<a.name, b.name>> \in Similar

(***************************************************************************)
(* The sheets duplicates() returns for c; none when c has no name.         *)
(***************************************************************************)
Duplicates(sheets, c) ==
    {id \in DOMAIN sheets :
        c.name # Null /\ sheets[id] # Null /\ Resembles(c, sheets[id])}

(***************************************************************************)
(* plannedDuplicate(): the same predicate over the drafts a simulation has *)
(* already planned in the same batch.                                      *)
(***************************************************************************)
PlannedDuplicate(plan, c) == \E p \in plan : Resembles(c, p)
=============================================================================
