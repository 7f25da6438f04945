------------------------------- MODULE MCImport -------------------------------
(***************************************************************************)
(* Instances of Import for TLC.                                            *)
(*                                                                         *)
(* Three names: "chez ntemba" and "chez ntembe" are similar, "mama" is     *)
(* not; places 1 and 2 lie within 250 m, place 3 is far from both and      *)
(* place 4 outside the zone of the commands.                               *)
(***************************************************************************)
EXTENDS ImportLedger, TLC

CONSTANTS n1, n2, w1, i1, i2, i3, s1, s2

MCNames == {"ntemba", "ntembe", "mama"}
MCPlaces == 1..4
MCSimilar == {<<x, x>> : x \in MCNames}
             \cup {<<"ntemba", "ntembe">>, <<"ntembe", "ntemba">>}
MCNear == {<<p, p>> : p \in MCPlaces} \cup {<<1, 2>>, <<2, 1>>}
MCContacts == {"+243 81", "+24381", "081"}
MCCanon == [x \in MCContacts |-> IF x = "081" THEN Null ELSE "+24381"]

Cand(ref, version, name, place, contacts) ==
    [ref |-> ref, version |-> version, name |-> name, place |-> place,
     contacts |-> contacts, flagged |-> FALSE]

Osm(snapshot, cands) ==
    [kind |-> "osm", snapshot |-> snapshot, zone |-> {1, 2, 3}, cands |-> cands]
Page(cands) ==
    [kind |-> "site", snapshot |-> 0, zone |-> {}, cands |-> cands]

(***************************************************************************)
(* A first harvest whose two elements resemble one another, a later one    *)
(* that brings n2 a name of its own and a lower version of n1, a third in  *)
(* which n1 lost its version, and a partner page that resembles the first. *)
(***************************************************************************)
First  == Osm(1, <<Cand(n1, 2, "ntemba", 1, {"+243 81"}),
                   Cand(n2, 2, "ntembe", 2, {"081"})>>)
Second == Osm(2, <<Cand(n2, 2, "mama", 3, {}),
                   Cand(n1, 1, "ntemba", 1, {})>>)
Third  == Osm(3, <<Cand(n1, Null, "mama", 3, {})>>)
Site   == Page(<<Cand(w1, Null, "ntembe", 2, {"081"})>>)

Sheet(name, place, contacts) ==
    [name |-> name, place |-> place, contacts |-> contacts]

Apply(h) == [kind |-> "import", command |-> h, dry |-> FALSE]
Simulate(h) == [kind |-> "import", command |-> h, dry |-> TRUE]
Create(sheet) == [kind |-> "create", sheet |-> sheet]
Attach(ref, id) == [kind |-> "link", ref |-> ref, id |-> id]

Twins == Permutations(Ids) \cup Permutations(Sessions)

(* ImportRace: three harvests, a partner page, a creation, a link, an edit. *)
RaceCommands == {First, Second, Third, Site}
RaceRequests == {Apply(h) : h \in RaceCommands}
                \cup {Create(Sheet("mama", 3, {"+24381"}))}
                \cup {Attach(n2, id) : id \in Ids}
RaceEdits == {Sheet("ntembe", 3, {})}

(* ImportAtomic: transactions that want the lock, against the ledger, and *)
(* a simulation that runs beside them.  Two sheets are all they can make. *)
AtomicCommands == {First, Second}
AtomicRequests == {Apply(First), Apply(Second), Simulate(First)}
                  \cup {Create(Sheet("mama", 3, {}))}
                  \cup {Attach(n2, id) : id \in Ids}
NoEdits == {}

(* ImportContacts: one telephone, written two ways. *)
ContactCommands == {First}
ContactRequests == {Apply(First), Create(Sheet("mama", 3, {"+243 81"}))}

(***************************************************************************)
(* docs/collection/USAGE.md:106 promises that an identical telephone or    *)
(* web site is reported as a duplicate: two sheets nobody edited do not    *)
(* name the same telephone or site.                                        *)
(***************************************************************************)
SameContactReported ==
    \A a, b \in Ids :
        (/\ a # b /\ Exists(a) /\ Exists(b)
         /\ restaurant[a].version = 1 /\ restaurant[b].version = 1)
        => Canonical(restaurant[a].contacts)
              \cap Canonical(restaurant[b].contacts) = {}
=============================================================================
