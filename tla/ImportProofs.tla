----------------------------- MODULE ImportProofs -----------------------------
(***************************************************************************)
(* What holds of the import transactions for every set of sessions,        *)
(* commands, requests and edits: their types and discipline, what links    *)
(* and simulations promise, what they keep true of the tables they share,  *)
(* and that they implement the ledger.                                     *)
(***************************************************************************)
EXTENDS ImportLedger, FiniteSetTheorems, WellFoundedInduction, TLAPS

(***************************************************************************)
(* What the phase of a session says of its request: it is Null when idle,  *)
(* only imports scan, only simulations open a snapshot, and a simulation   *)
(* that scans has one.                                                     *)
(***************************************************************************)
Phased ==
    \A s \in Sessions :
        /\ pc[s] # "idle" => op[s] \in Requests
        /\ pc[s] \in {"opening", "scanning"} => op[s].kind = "import"
        /\ pc[s] = "opening" => IsDry(s)
        /\ pc[s] \in {"locking", "locked"} => ~IsDry(s)
        /\ pc[s] = "scanning" /\ IsDry(s) => view[s] # Null

(***************************************************************************)
(* Overlaying typed rows on a typed table gives a typed table, and a typed *)
(* row put into typed rows leaves them typed.                              *)
(***************************************************************************)
LEMMA OverlayType ==
    ASSUME NEW K, NEW V, NEW rows, NEW table \in [K -> V \cup {Null}],
           IsRows(rows, K, V)
    PROVE  Overlay(rows, table) \in [K -> V \cup {Null}]
  BY DEF IsRows, Overlay

LEMMA PutType ==
    ASSUME NEW K, NEW V, NEW rows, IsRows(rows, K, V),
           NEW k \in K, NEW v \in V
    PROVE  IsRows(Put(rows, k, v), K, V)
  BY DEF IsRows, Put

LEMMA EmptyRows ==
    ASSUME NEW K, NEW V
    PROVE  IsRows(<< >>, K, V)
  BY DEF IsRows

(***************************************************************************)
(* No transaction starts with rows of its own.                             *)
(***************************************************************************)
LEMMA NoDraftType == IsDraft(NoDraft)
  BY EmptyRows DEF IsDraft, NoDraft

(***************************************************************************)
(* A session that scans works on a command and reads typed tables.         *)
(***************************************************************************)
LEMMA CommandType ==
    ASSUME TypeOK, Phased, NEW s \in Sessions,
           pc[s] # "idle", op[s].kind = "import"
    PROVE  /\ op[s] \in ImportRequest
           /\ op[s].command \in Commands /\ op[s].command \in Command
  BY RequestsAssumption, CommandsAssumption
  DEF Phased, ImportRequest, CreateRequest, LinkRequest

LEMMA SeenType ==
    ASSUME TypeOK, Phased, NEW s \in Sessions, pc[s] # "opening", pc[s] # "idle",
           pc[s] \in {"locked", "scanning"}
    PROVE  /\ SeenRestaurants(s) \in [Ids -> Restaurant \cup {Null}]
           /\ SeenRecords(s) \in [Refs -> Record \cup {Null}]
  <1>1. /\ Base(s).restaurant \in [Ids -> Restaurant \cup {Null}]
        /\ Base(s).record \in [Refs -> Record \cup {Null}]
    BY DEF TypeOK, Phased, Base, Committed, View
  <1>2. /\ IsRows(draft[s].restaurant, Ids, Restaurant)
        /\ IsRows(draft[s].record, Refs, Record)
    BY DEF TypeOK, IsDraft
  <1> QED BY <1>1, <1>2, OverlayType DEF SeenRestaurants, SeenRecords

LEMMA CurrentType ==
    ASSUME TypeOK, Phased, NEW s \in Sessions, Scanning(s)
    PROVE  Current(s) \in Candidate /\ Current(s).ref \in Refs
  <1>1. op[s].command \in Command
    BY CommandType DEF Scanning, Phased
  <1>2. /\ op[s].command.cands \in Seq(Candidate)
        /\ Len(items[s]) \in Nat
        /\ Len(items[s]) < Len(op[s].command.cands)
    BY <1>1 DEF Command, TypeOK, Scanning
  <1>3. Current(s) \in Candidate
    BY <1>2 DEF Current
  <1> QED BY <1>3 DEF Candidate

(***************************************************************************)
(* The rows a session may add to its draft keep it a draft.                *)
(***************************************************************************)
LEMMA DraftWithRecord ==
    ASSUME NEW d, IsDraft(d), NEW r \in Refs, NEW row \in Record
    PROVE  IsDraft(WithRecord(d, r, row))
  <1>1. IsRows(Put(d.record, r, row), Refs, Record)
    BY PutType DEF IsDraft
  <1> QED BY <1>1 DEF IsDraft, WithRecord

LEMMA DraftWithSheet ==
    ASSUME NEW d, IsDraft(d), NEW id \in Ids, NEW row \in Restaurant
    PROVE  IsDraft(WithSheet(d, id, row))
  <1>1. IsRows(Put(d.restaurant, id, row), Ids, Restaurant)
    BY PutType DEF IsDraft
  <1> QED BY <1>1 DEF IsDraft, WithSheet

LEMMA DraftWithRun ==
    ASSUME NEW d, IsDraft(d), NEW h \in Commands, NEW result \in Seq(Item)
    PROVE  IsDraft(WithRun(d, h, result))
  <1>1. IsRows(Put(d.run, h, result), Commands, Seq(Item))
    BY PutType DEF IsDraft
  <1> QED BY <1>1 DEF IsDraft, WithRun

LEMMA DraftWithAudit ==
    ASSUME NEW d, IsDraft(d), NEW entry \in AuditEntry
    PROVE  IsDraft(WithAudit(d, entry))
  <1> DEFINE more == d.audit \cup {entry}
  <1>1. more \subseteq AuditEntry
    BY DEF IsDraft
  <1>2. WithAudit(d, entry) = [d EXCEPT !.audit = more]
    BY DEF WithAudit
  <1> HIDE DEF more
  <1>3. IsDraft([d EXCEPT !.audit = more])
    BY <1>1 DEF IsDraft
  <1> QED BY <1>2, <1>3

(***************************************************************************)
(* The upsert of the current candidate writes a typed row, and its answer  *)
(* is a typed item.                                                        *)
(***************************************************************************)
LEMMA ObservationType ==
    ASSUME TypeOK, Phased, NEW s \in Sessions, Scanning(s)
    PROVE  Observation(s) \in Record
  <1>1. /\ op[s].command \in Command /\ pc[s] = "scanning"
        /\ Current(s) \in Candidate /\ Current(s).ref \in Refs
    BY CommandType, CurrentType DEF Scanning, Phased
  <1>2. SeenRecords(s)[Current(s).ref] \in Record \cup {Null}
    BY <1>1, SeenType
  <1> QED BY <1>1, <1>2 DEF Observation, Upserted, Command, Candidate, Record

LEMMA LinkedType ==
    ASSUME TypeOK, Phased, NEW s \in Sessions, pc[s] \in {"locked", "scanning"},
           NEW r \in Refs
    PROVE  LinkedTo(SeenRecords(s), r) \in Ids \cup {Null}
  <1>1. SeenRecords(s)[r] \in Record \cup {Null}
    BY SeenType
  <1> QED BY <1>1 DEF LinkedTo, Record

LEMMA AnswerType ==
    ASSUME TypeOK, Phased, NEW s \in Sessions, Scanning(s),
           NEW outcome \in Outcome, NEW id \in Ids \cup {Null},
           Answer(s, outcome, id)
    PROVE  items' \in [Sessions -> Seq(Item)]
  <1>1. [source |-> Current(s).ref, outcome |-> outcome, restaurant |-> id]
            \in Item
    BY CurrentType DEF Item
  <1> QED BY <1>1 DEF Answer, TypeOK

(***************************************************************************)
(* A candidate that becomes a draft has a name and a place: its sheet is   *)
(* typed.                                                                  *)
(***************************************************************************)
LEMMA SheetType ==
    ASSUME NEW identity \in Identity, NEW origin \in Refs \cup {Null}
    PROVE  NewSheet(identity, origin) \in Restaurant
  BY RequestsAssumption DEF NewSheet, Identity, Restaurant

LEMMA DraftedType ==
    ASSUME TypeOK, Phased, NEW s \in Sessions, Scanning(s),
           CurrentVerdict(s) = "DRAFT_CREATED"
    PROVE  Discovered(Current(s)) \in Identity
  <1>1. Current(s) \in Candidate
    BY CurrentType
  <1>2. Current(s).name # Null /\ Current(s).place # Null
    BY DEF CurrentVerdict, Verdict
  <1>3. Canonical(Current(s).contacts) \subseteq Contacts
    BY <1>1, CanonAssumption DEF Canonical, Candidate
  <1> QED BY <1>1, <1>2, <1>3 DEF Discovered, Identity, Candidate

(***************************************************************************)
(* Ending a session, by an answer or a rollback, keeps the types.          *)
(***************************************************************************)
LEMMA EndSessionType ==
    ASSUME TypeOK, Phased, NEW s \in Sessions, EndSession(s), UNCHANGED tables,
           lock' \in Sessions \cup {Null}
    PROVE  TypeOK' /\ Phased'
  <1>1. IsDraft(NoDraft)
    BY NoDraftType
  <1>2. TypeOK'
    BY <1>1 DEF TypeOK, EndSession, tables, IsDraft
  <1>3. Phased'
    BY DEF TypeOK, Phased, EndSession, IsDry
  <1> QED BY <1>2, <1>3

(***************************************************************************)
(* Type correctness: every step, of a session or of an editor, leaves the  *)
(* tables, the drafts and the answers typed, and the phases in order.      *)
(***************************************************************************)
TypeInv == TypeOK /\ Phased

LEMMA TypeInit == Init => TypeInv
  <1> SUFFICES ASSUME Init PROVE TypeInv
    OBVIOUS
  <1>1. IsDraft(NoDraft)
    BY NoDraftType
  <1>2. TypeOK
    BY <1>1 DEF Init, TypeOK
  <1>3. Phased
    BY DEF Init, Phased
  <1> QED BY <1>2, <1>3 DEF TypeInv

LEMMA TypeNext == TypeInv /\ [Next]_vars => TypeInv'
  <1> SUFFICES ASSUME TypeOK, Phased, [Next]_vars
               PROVE  TypeOK' /\ Phased'
    BY DEF TypeInv
  <1> USE DEF tables, session
  <1>1. ASSUME NEW s \in Sessions, NEW o \in Requests, Begin(s, o)
        PROVE  TypeOK' /\ Phased'
    <2>1. TypeOK'
      BY <1>1 DEF TypeOK, Begin, IsDraft
    <2>2. Phased'
      BY <1>1 DEF TypeOK, Phased, Begin, IsDry
    <2> QED BY <2>1, <2>2
  <1>2. ASSUME NEW s \in Sessions, AcquireLock(s)
        PROVE  TypeOK' /\ Phased'
    <2>1. TypeOK'
      BY <1>2 DEF TypeOK, AcquireLock, IsDraft
    <2>2. Phased'
      BY <1>2 DEF TypeOK, Phased, AcquireLock, IsDry
    <2> QED BY <2>1, <2>2
  <1>3. ASSUME NEW s \in Sessions, OpenSnapshot(s)
        PROVE  TypeOK' /\ Phased'
    <2>1. Committed \in View
      BY DEF Committed, View, TypeOK
    <2>2. TypeOK'
      BY <1>3, <2>1 DEF TypeOK, OpenSnapshot, IsDraft
    <2>3. Phased'
      BY <1>3, <2>1, NullsAssumption DEF TypeOK, Phased, OpenSnapshot, IsDry
    <2> QED BY <2>2, <2>3
  <1>4. ASSUME NEW s \in Sessions, Replay(s)
        PROVE  TypeOK' /\ Phased'
    <2>1. importRun[op[s].command] \in Seq(Item)
      BY <1>4, CommandType DEF Replay, TypeOK
    <2>2. TypeOK'
      BY <1>4, <2>1 DEF TypeOK, Replay, IsDraft
    <2>3. Phased'
      BY <1>4 DEF TypeOK, Phased, Replay, IsDry
    <2> QED BY <2>2, <2>3
  <1>5. ASSUME NEW s \in Sessions, StartScan(s)
        PROVE  TypeOK' /\ Phased'
    <2>1. TypeOK'
      BY <1>5 DEF TypeOK, StartScan, IsDraft
    <2>2. Phased'
      BY <1>5 DEF TypeOK, Phased, StartScan, IsDry
    <2> QED BY <2>1, <2>2
  <1>6. ASSUME NEW s \in Sessions, SkipCandidate(s)
        PROVE  TypeOK' /\ Phased'
    <2>1. items' \in [Sessions -> Seq(Item)]
      BY <1>6, AnswerType DEF SkipCandidate, Outcome
    <2>2. TypeOK'
      BY <1>6, <2>1 DEF TypeOK, SkipCandidate, IsDraft
    <2>3. Phased'
      BY <1>6 DEF TypeOK, Phased, SkipCandidate, IsDry
    <2> QED BY <2>2, <2>3
  <1>7. ASSUME NEW s \in Sessions, StageCandidate(s)
        PROVE  TypeOK' /\ Phased'
    <2>1. Current(s).ref \in Refs /\ pc[s] = "scanning" /\ Scanning(s)
      BY <1>7, CurrentType DEF StageCandidate, Scanning
    <2>2. items' \in [Sessions -> Seq(Item)]
      BY <1>7, <2>1, AnswerType, LinkedType DEF StageCandidate, Outcome
    <2>3. IsDraft(WithRecord(draft[s], Current(s).ref, Observation(s)))
      BY <2>1, DraftWithRecord, ObservationType DEF TypeOK
    <2>4. TypeOK'
      BY <1>7, <2>2, <2>3 DEF TypeOK, StageCandidate
    <2>5. Phased'
      BY <1>7 DEF TypeOK, Phased, StageCandidate, IsDry
    <2> QED BY <2>4, <2>5
  <1>8. ASSUME NEW s \in Sessions, CreateDraft(s)
        PROVE  TypeOK' /\ Phased'
    <2>1. /\ Scanning(s) /\ CurrentVerdict(s) = "DRAFT_CREATED"
          /\ Current(s).ref \in Refs
      BY <1>8, CurrentType DEF CreateDraft
    <2> DEFINE sheet == NewSheet(Discovered(Current(s)), Current(s).ref)
               row(id) == [Observation(s) EXCEPT !.restaurant = id]
               d(id) == WithSheet(draft[s], id, sheet)
    <2>2. PICK id \in FreshIds :
            /\ Answer(s, "DRAFT_CREATED", id)
            /\ draft' = [draft EXCEPT ![s] =
                            WithRecord(d(id), Current(s).ref, row(id))]
      BY <1>8 DEF CreateDraft, TypeOK
    <2>3. id \in Ids
      BY DEF FreshIds
    <2>4. sheet \in Restaurant
      BY <2>1, DraftedType, SheetType
    <2>5. row(id) \in Record
      BY <2>1, <2>3, ObservationType DEF Record
    <2>6. IsDraft(d(id))
      BY <2>3, <2>4, DraftWithSheet DEF TypeOK
    <2>7. IsDraft(WithRecord(d(id), Current(s).ref, row(id)))
      BY <2>1, <2>5, <2>6, DraftWithRecord
    <2>8. items' \in [Sessions -> Seq(Item)]
      BY <2>1, <2>2, <2>3, AnswerType DEF Outcome
    <2> HIDE DEF d, row, sheet
    <2>9. TypeOK'
      BY <1>8, <2>2, <2>7, <2>8 DEF TypeOK, CreateDraft
    <2>10. Phased'
      BY <1>8 DEF TypeOK, Phased, CreateDraft, IsDry
    <2> QED BY <2>9, <2>10
  <1>9. ASSUME NEW s \in Sessions, PlanDraft(s)
        PROVE  TypeOK' /\ Phased'
    <2>1. Discovered(Current(s)) \in Sighting
      BY <1>9, DraftedType DEF PlanDraft, Identity, Sighting
    <2>2. items' \in [Sessions -> Seq(Item)]
      BY <1>9, AnswerType DEF PlanDraft, Outcome
    <2>3. TypeOK'
      BY <1>9, <2>1, <2>2 DEF TypeOK, PlanDraft, IsDraft
    <2>4. Phased'
      BY <1>9 DEF TypeOK, Phased, PlanDraft, IsDry
    <2> QED BY <2>3, <2>4
  <1>10. ASSUME NEW s \in Sessions, RecordRun(s)
         PROVE  TypeOK' /\ Phased'
    <2>1. op[s].command \in Commands
      BY <1>10, CommandType DEF RecordRun, Scanned, Phased
    <2>2. IsDraft(WithRun(draft[s], op[s].command, items[s]))
      BY <2>1, DraftWithRun DEF TypeOK
    <2>3. TypeOK'
      BY <1>10, <2>2 DEF TypeOK, RecordRun
    <2>4. Phased'
      BY <1>10 DEF TypeOK, Phased, RecordRun, Scanned, IsDry
    <2> QED BY <2>3, <2>4
  <1>11. ASSUME NEW s \in Sessions, EndSimulation(s)
         PROVE  TypeOK' /\ Phased'
    <2>1. TypeOK'
      BY <1>11 DEF TypeOK, EndSimulation, IsDraft
    <2>2. Phased'
      BY <1>11 DEF TypeOK, Phased, EndSimulation, Scanned, IsDry
    <2> QED BY <2>1, <2>2
  <1>12. ASSUME NEW s \in Sessions, CreateRestaurant(s)
         PROVE  TypeOK' /\ Phased'
    <2>1. op[s].sheet \in Identity
      BY <1>12, RequestsAssumption
      DEF CreateRestaurant, Phased, ImportRequest, CreateRequest, LinkRequest
    <2> DEFINE entry(id) == [action |-> "restaurant_created",
                             resource |-> id, ref |-> Null]
               d(id) == WithSheet(draft[s], id, NewSheet(op[s].sheet, Null))
    <2>2. PICK id \in FreshIds :
            draft' = [draft EXCEPT ![s] = WithAudit(d(id), entry(id))]
      BY <1>12 DEF CreateRestaurant
    <2>3. id \in Ids
      BY DEF FreshIds
    <2>4. IsDraft(d(id))
      BY <2>1, <2>3, DraftWithSheet, SheetType DEF TypeOK
    <2>5. IsDraft(WithAudit(d(id), entry(id)))
      BY <2>3, <2>4, DraftWithAudit DEF AuditEntry
    <2> HIDE DEF d, entry
    <2>6. TypeOK'
      BY <1>12, <2>2, <2>5 DEF TypeOK, CreateRestaurant
    <2>7. Phased'
      BY <1>12 DEF TypeOK, Phased, CreateRestaurant, IsDry
    <2> QED BY <2>6, <2>7
  <1>13. ASSUME NEW s \in Sessions, LinkCandidate(s)
         PROVE  TypeOK' /\ Phased'
    <2>1. op[s].ref \in OsmRefs /\ op[s].id \in Ids /\ op[s].ref \in Refs
      BY <1>13, RequestsAssumption
      DEF LinkCandidate, Phased, ImportRequest, CreateRequest, LinkRequest, Refs
    <2> DEFINE row == [SeenRecords(s)[op[s].ref] EXCEPT !.restaurant = op[s].id]
               entry == [action |-> "osm_candidate_linked",
                         resource |-> op[s].id, ref |-> op[s].ref]
    <2>2. row \in Record
      BY <1>13, <2>1, SeenType DEF LinkCandidate, CanLink, Record
    <2>3. entry \in AuditEntry
      BY <2>1 DEF AuditEntry
    <2>4. IsDraft(WithAudit(WithRecord(draft[s], op[s].ref, row), entry))
      BY <2>1, <2>2, <2>3, DraftWithRecord, DraftWithAudit DEF TypeOK
    <2>5. draft' = [draft EXCEPT ![s] =
                WithAudit(WithRecord(draft[s], op[s].ref, row), entry)]
      BY <1>13 DEF LinkCandidate
    <2> HIDE DEF row, entry
    <2>6. TypeOK'
      BY <1>13, <2>4, <2>5 DEF TypeOK, LinkCandidate
    <2>7. Phased'
      BY <1>13 DEF TypeOK, Phased, LinkCandidate, IsDry
    <2> QED BY <2>6, <2>7
  <1>14. ASSUME NEW s \in Sessions, Commit(s)
         PROVE  TypeOK' /\ Phased'
    <2>1. /\ restaurant' \in [Ids -> Restaurant \cup {Null}]
          /\ record' \in [Refs -> Record \cup {Null}]
          /\ importRun' \in [Commands -> Seq(Item) \cup {Null}]
      BY <1>14, OverlayType DEF TypeOK, Commit, IsDraft
    <2>2. audit' \subseteq AuditEntry
      BY <1>14 DEF TypeOK, Commit, IsDraft
    <2>3. IsDraft(NoDraft)
      BY NoDraftType
    <2>4. TypeOK'
      BY <1>14, <2>1, <2>2, <2>3 DEF TypeOK, Commit
    <2>5. Phased'
      BY <1>14 DEF TypeOK, Phased, Commit, IsDry
    <2> QED BY <2>4, <2>5
  <1>15. ASSUME NEW s \in Sessions, Reply(s) \/ Refuse(s) \/ Abort(s)
         PROVE  TypeOK' /\ Phased'
    <2>1. EndSession(s) /\ UNCHANGED tables
      BY <1>15 DEF Reply, Refuse, Abort, Rollback
    <2>2. lock' \in Sessions \cup {Null}
      BY <1>15 DEF Reply, Refuse, Abort, Rollback, TypeOK
    <2> QED BY <2>1, <2>2, EndSessionType
  <1>16. ASSUME NEW id \in Ids, NEW e \in Edits, UpdateRestaurant(id, e)
         PROVE  TypeOK' /\ Phased'
    <2>1. restaurant' \in [Ids -> Restaurant \cup {Null}]
      BY <1>16, RequestsAssumption
      DEF UpdateRestaurant, TypeOK, Restaurant, Identity
    <2>2. audit' \subseteq AuditEntry
      BY <1>16 DEF UpdateRestaurant, TypeOK, AuditEntry
    <2>3. TypeOK'
      BY <1>16, <2>1, <2>2 DEF TypeOK, UpdateRestaurant, IsDraft
    <2>4. Phased'
      BY <1>16 DEF Phased, UpdateRestaurant, IsDry
    <2> QED BY <2>3, <2>4
  <1>17. CASE UNCHANGED vars
    <2>1. TypeOK'
      BY <1>17 DEF TypeOK, vars, IsDraft
    <2>2. Phased'
      BY <1>17 DEF Phased, vars, IsDry
    <2> QED BY <2>1, <2>2
  <1> QED
    BY <1>1, <1>2, <1>3, <1>4, <1>5, <1>6, <1>7, <1>8, <1>9, <1>10, <1>11,
       <1>12, <1>13, <1>14, <1>15, <1>16, <1>17
    DEF Next, ImportStep, ManualStep

(***************************************************************************)
(* The tables, the drafts and the answers are always typed, however many   *)
(* sessions, commands and editors there are.                               *)
(***************************************************************************)
THEOREM TypeCorrect == Spec => []TypeOK
  <1>1. TypeInv => TypeOK
    BY DEF TypeInv
  <1> QED BY <1>1, TypeInit, TypeNext, PTL DEF Spec

-----------------------------------------------------------------------------
(***************************************************************************)
(* The discipline of the advisory lock: its holder is the one session past *)
(* it, and only the holder has rows of its own.                            *)
(***************************************************************************)
Holds(s) ==
    \/ pc[s] = "locked"
    \/ pc[s] \in {"scanning", "committing"} /\ ~IsDry(s)

Discipline ==
    \A s \in Sessions :
        /\ Holds(s) <=> lock = s
        /\ lock # s => draft[s] = NoDraft

LEMMA DisciplineInit == Init => Discipline
  BY NullsAssumption DEF Init, Discipline, Holds

LEMMA DisciplineNext ==
    TypeInv /\ Discipline /\ [Next]_vars => Discipline'
  <1> SUFFICES ASSUME TypeOK, Phased, Discipline, [Next]_vars
               PROVE  Discipline'
    BY DEF TypeInv
  <1> USE NullsAssumption DEF tables, session
  <1>1. ASSUME NEW s \in Sessions, NEW o \in Requests, Begin(s, o)
        PROVE  Discipline'
    BY <1>1 DEF Discipline, Holds, IsDry, TypeOK, Begin
  <1>2. ASSUME NEW s \in Sessions, AcquireLock(s)
        PROVE  Discipline'
    BY <1>2 DEF Discipline, Holds, IsDry, TypeOK, AcquireLock
  <1>3. ASSUME NEW s \in Sessions,
               \/ OpenSnapshot(s) \/ Replay(s) \/ StartScan(s)
               \/ SkipCandidate(s) \/ PlanDraft(s) \/ EndSimulation(s)
        PROVE  Discipline'
    BY <1>3
    DEF Discipline, Holds, IsDry, TypeOK, Phased, OpenSnapshot, Replay,
        StartScan, SkipCandidate, PlanDraft, EndSimulation, Scanning, Scanned
  <1>4. ASSUME NEW s \in Sessions,
               \/ StageCandidate(s) \/ CreateDraft(s) \/ RecordRun(s)
               \/ CreateRestaurant(s) \/ LinkCandidate(s)
        PROVE  Discipline'
    <2>1. \A t \in Sessions \ {s} : draft'[t] = draft[t]
      BY <1>4 DEF TypeOK, StageCandidate, CreateDraft, RecordRun,
                  CreateRestaurant, LinkCandidate
    <2>2. UNCHANGED <<lock, op>>
      BY <1>4 DEF StageCandidate, CreateDraft, RecordRun,
                  CreateRestaurant, LinkCandidate
    <2>3. IsDry(s) => draft' = draft
      BY <1>4 DEF StageCandidate, CreateDraft, RecordRun, Phased,
                  CreateRestaurant, LinkCandidate, TypeOK
    <2>4. Holds(s)' <=> Holds(s)
      BY <1>4 DEF Holds, IsDry, StageCandidate, CreateDraft, RecordRun, Phased,
                  CreateRestaurant, LinkCandidate, TypeOK, Scanning, Scanned
    <2>5. \A t \in Sessions \ {s} : pc'[t] = pc[t]
      BY <1>4 DEF TypeOK, StageCandidate, CreateDraft, RecordRun,
                  CreateRestaurant, LinkCandidate
    <2>6. IsDry(s) \/ Holds(s)
      BY <1>4 DEF Holds, StageCandidate, CreateDraft, RecordRun, Phased,
                  CreateRestaurant, LinkCandidate, TypeOK, Scanning, Scanned
    <2> QED BY <2>1, <2>2, <2>3, <2>4, <2>5, <2>6 DEF Discipline, Holds, IsDry
  <1>5. ASSUME NEW s \in Sessions, Commit(s)
        PROVE  Discipline'
    BY <1>5 DEF Discipline, Holds, IsDry, TypeOK, Commit
  <1>6. ASSUME NEW s \in Sessions, Reply(s) \/ Refuse(s) \/ Abort(s)
        PROVE  Discipline'
    <2>1. EndSession(s) /\ lock' = IF lock = s THEN Null ELSE lock
      BY <1>6 DEF Reply, Refuse, Abort, Rollback, Discipline, Holds
    <2> QED BY <2>1 DEF Discipline, Holds, IsDry, TypeOK, EndSession
  <1>7. ASSUME NEW id \in Ids, NEW e \in Edits, UpdateRestaurant(id, e)
        PROVE  Discipline'
    BY <1>7 DEF Discipline, Holds, IsDry, UpdateRestaurant
  <1>8. CASE UNCHANGED vars
    BY <1>8 DEF Discipline, Holds, IsDry, vars
  <1> QED
    BY <1>1, <1>2, <1>3, <1>4, <1>5, <1>6, <1>7, <1>8
    DEF Next, ImportStep, ManualStep

(***************************************************************************)
(* Two transactions never hold uncommitted rows at the same time.          *)
(***************************************************************************)
OneWriter ==
    \A s, t \in Sessions :
        draft[s] # NoDraft /\ draft[t] # NoDraft => s = t

THEOREM OneWriterAtATime == Spec => []OneWriter
  <1>1. Discipline => OneWriter
    BY DEF Discipline, OneWriter
  <1> QED
    BY <1>1, TypeInit, TypeNext, DisciplineInit, DisciplineNext, PTL DEF Spec

-----------------------------------------------------------------------------
(***************************************************************************)
(* While an import scans, no result is on file for its command: whoever    *)
(* would file one holds the lock.                                          *)
(***************************************************************************)
Unfiled ==
    \A s \in Sessions :
        pc[s] = "scanning" /\ ~IsDry(s) => importRun[op[s].command] = Null

LEMMA UnfiledNext ==
    TypeInv /\ Discipline /\ Unfiled /\ [Next]_vars => Unfiled'
  <1> SUFFICES ASSUME TypeOK, Phased, Discipline, Unfiled, [Next]_vars
               PROVE  Unfiled'
    BY DEF TypeInv
  <1> USE DEF tables, session
  <1>1. ASSUME NEW s \in Sessions,
               UNCHANGED importRun,
               \A t \in Sessions \ {s} : op'[t] = op[t] /\ pc'[t] = pc[t],
               pc'[s] = "scanning" =>
                  \/ op'[s] = op[s] /\ (pc[s] = "scanning" \/ IsDry(s))
                  \/ importRun[op'[s].command] = Null
        PROVE  Unfiled'
    BY <1>1 DEF Unfiled, IsDry
  <1>2. ASSUME NEW s \in Sessions, NEW o \in Requests, Begin(s, o)
        PROVE  Unfiled'
    BY <1>1, <1>2 DEF Begin, TypeOK
  <1>3. ASSUME NEW s \in Sessions,
               \/ AcquireLock(s) \/ OpenSnapshot(s) \/ Replay(s) \/ StartScan(s)
        PROVE  Unfiled'
    BY <1>1, <1>3 DEF AcquireLock, OpenSnapshot, Replay, StartScan, TypeOK, Phased
  <1>4. ASSUME NEW s \in Sessions,
               \/ SkipCandidate(s) \/ PlanDraft(s) \/ EndSimulation(s)
               \/ StageCandidate(s) \/ CreateDraft(s) \/ RecordRun(s)
               \/ CreateRestaurant(s) \/ LinkCandidate(s)
        PROVE  Unfiled'
    BY <1>1, <1>4 DEF SkipCandidate, PlanDraft, EndSimulation, StageCandidate,
                      CreateDraft, RecordRun, CreateRestaurant, LinkCandidate,
                      Scanning, Scanned, TypeOK
  <1>5. ASSUME NEW s \in Sessions, Commit(s)
        PROVE  Unfiled'
    <2>1. CASE IsDry(s)
      <3>1. draft[s] = NoDraft
        BY <1>5, <2>1, NullsAssumption DEF Discipline, Holds, Commit
      <3>2. importRun' = importRun
        BY <1>5, <3>1 DEF Commit, NoDraft, Overlay, TypeOK
      <3> QED BY <1>1, <1>5, <3>2 DEF Commit, TypeOK
    <2>2. CASE ~IsDry(s)
      <3>1. \A t \in Sessions \ {s} : ~(pc[t] = "scanning" /\ ~IsDry(t))
        BY <1>5, <2>2 DEF Discipline, Holds, Commit
      <3> QED BY <1>5, <3>1 DEF Unfiled, Commit, TypeOK, IsDry
    <2> QED BY <2>1, <2>2
  <1>6. ASSUME NEW s \in Sessions, Reply(s) \/ Refuse(s) \/ Abort(s)
        PROVE  Unfiled'
    <2>1. EndSession(s) /\ UNCHANGED importRun
      BY <1>6 DEF Reply, Refuse, Abort, Rollback
    <2> QED BY <1>1, <2>1 DEF EndSession, TypeOK
  <1>7. ASSUME NEW id \in Ids, NEW e \in Edits, UpdateRestaurant(id, e)
        PROVE  Unfiled'
    BY <1>7 DEF Unfiled, IsDry, UpdateRestaurant
  <1>8. CASE UNCHANGED vars
    BY <1>8 DEF Unfiled, IsDry, vars
  <1> QED
    BY <1>2, <1>3, <1>4, <1>5, <1>6, <1>7, <1>8
    DEF Next, ImportStep, ManualStep

(***************************************************************************)
(* No import that scanned its batch loses it to the unique index on        *)
(* commandHash.                                                            *)
(***************************************************************************)
THEOREM HashFree == Spec => []HashStillFree
  <1>1. Init => Unfiled
    BY DEF Init, Unfiled
  <1>2. Unfiled => HashStillFree
    BY DEF Unfiled, HashStillFree, Scanned
  <1> QED
    BY <1>1, <1>2, TypeInit, TypeNext, DisciplineInit, DisciplineNext,
       UnfiledNext, PTL DEF Spec

-----------------------------------------------------------------------------
(***************************************************************************)
(* An uncommitted row keeps the link its committed version has.            *)
(***************************************************************************)
LinksKept ==
    \A s \in Sessions : \A r \in DOMAIN draft[s].record :
        LinkedTo(record, r) # Null
        => draft[s].record[r].restaurant = LinkedTo(record, r)

(***************************************************************************)
(* What a writer reads of a linked source is that link.                    *)
(***************************************************************************)
LEMMA SeenLink ==
    ASSUME TypeOK, LinksKept, NEW s \in Sessions, ~IsDry(s), NEW r \in Refs,
           LinkedTo(record, r) # Null
    PROVE  /\ SeenRecords(s)[r] # Null
           /\ SeenRecords(s)[r].restaurant = LinkedTo(record, r)
           /\ LinkedTo(SeenRecords(s), r) = LinkedTo(record, r)
  <1>1. /\ record \in [Refs -> Record \cup {Null}]
        /\ IsRows(draft[s].record, Refs, Record)
    BY DEF TypeOK, IsDraft
  <1>2. SeenRecords(s)[r] = IF r \in DOMAIN draft[s].record
                            THEN draft[s].record[r] ELSE record[r]
    BY <1>1 DEF SeenRecords, Overlay, Base, Committed
  <1>3. r \in DOMAIN draft[s].record => draft[s].record[r] \in Record
    BY <1>1 DEF IsRows
  <1> QED BY <1>2, <1>3, NullsAssumption DEF LinksKept, LinkedTo

(***************************************************************************)
(* A session may add a row that keeps the committed link of its source.    *)
(***************************************************************************)
LEMMA KeepLink ==
    ASSUME TypeOK, LinksKept, NEW s \in Sessions, NEW r \in Refs, NEW row, NEW d,
           DOMAIN d.record = DOMAIN draft[s].record \cup {r},
           d.record[r] = row,
           \A q \in DOMAIN draft[s].record \ {r} :
                d.record[q] = draft[s].record[q],
           LinkedTo(record, r) # Null => row.restaurant = LinkedTo(record, r),
           draft' = [draft EXCEPT ![s] = d], UNCHANGED record
    PROVE  LinksKept'
  BY DEF LinksKept, LinkedTo, TypeOK

LEMMA LinksKeptNext ==
    TypeInv /\ Discipline /\ LinksKept /\ [Next]_vars => LinksKept'
  <1> SUFFICES ASSUME TypeOK, Phased, Discipline, LinksKept, [Next]_vars
               PROVE  LinksKept'
    BY DEF TypeInv
  <1> USE DEF tables, session
  <1>1. CASE UNCHANGED <<record, draft>>
    BY <1>1 DEF LinksKept, LinkedTo
  <1>2. ASSUME NEW s \in Sessions, UNCHANGED record,
               draft' = [draft EXCEPT ![s] = NoDraft]
        PROVE  LinksKept'
    BY <1>2 DEF LinksKept, LinkedTo, NoDraft, TypeOK
  <1>3. ASSUME NEW s \in Sessions, StageCandidate(s)
        PROVE  LinksKept'
    <2>1. CASE IsDry(s)
      BY <1>1, <1>3, <2>1 DEF StageCandidate
    <2>2. CASE ~IsDry(s)
      <3>1. Current(s).ref \in Refs
        BY <1>3, CurrentType DEF StageCandidate
      <3>2. LinkedTo(record, Current(s).ref) # Null
            => Observation(s).restaurant = LinkedTo(record, Current(s).ref)
        BY <2>2, <3>1, SeenLink DEF Observation, Upserted
      <3>3. draft' = [draft EXCEPT ![s] =
                        WithRecord(draft[s], Current(s).ref, Observation(s))]
        BY <1>3, <2>2 DEF StageCandidate
      <3>4. IsDraft(draft[s])
        BY DEF TypeOK
      <3> DEFINE d == WithRecord(draft[s], Current(s).ref, Observation(s))
      <3>5. d.record = Put(draft[s].record, Current(s).ref, Observation(s))
        BY <3>4 DEF WithRecord, IsDraft
      <3>6. UNCHANGED record
        BY <1>3 DEF StageCandidate
      <3> HIDE DEF d
      <3>7. /\ DOMAIN d.record = DOMAIN draft[s].record \cup {Current(s).ref}
            /\ d.record[Current(s).ref] = Observation(s)
            /\ \A q \in DOMAIN draft[s].record \ {Current(s).ref} :
                    d.record[q] = draft[s].record[q]
        BY <3>5 DEF Put
      <3>8. draft' = [draft EXCEPT ![s] = d]
        BY <3>3 DEF d
      <3> QED BY <3>1, <3>2, <3>6, <3>7, <3>8, KeepLink
    <2> QED BY <2>1, <2>2
  <1>4. ASSUME NEW s \in Sessions, CreateDraft(s)
        PROVE  LinksKept'
    <2>1. /\ Current(s).ref \in Refs /\ ~IsDry(s)
          /\ CurrentVerdict(s) = "DRAFT_CREATED" /\ UNCHANGED record
      BY <1>4, CurrentType DEF CreateDraft
    <2>2. LinkedTo(SeenRecords(s), Current(s).ref) = Null
      BY <2>1 DEF CurrentVerdict, Verdict
    <2>3. LinkedTo(record, Current(s).ref) = Null
      BY <2>1, <2>2, SeenLink
    <2>4. PICK id \in FreshIds :
            draft' = [draft EXCEPT ![s] = WithRecord(
                WithSheet(draft[s], id,
                          NewSheet(Discovered(Current(s)), Current(s).ref)),
                Current(s).ref,
                [Observation(s) EXCEPT !.restaurant = id])]
      BY <1>4 DEF CreateDraft
    <2> DEFINE row == [Observation(s) EXCEPT !.restaurant = id]
               sheet == NewSheet(Discovered(Current(s)), Current(s).ref)
               d == WithRecord(WithSheet(draft[s], id, sheet), Current(s).ref, row)
    <2>5. draft' = [draft EXCEPT ![s] = d]
      BY <2>4
    <2> HIDE DEF row, sheet
    <2>6. d.record = Put(draft[s].record, Current(s).ref, row)
      BY DEF WithRecord, WithSheet, IsDraft, TypeOK
    <2> HIDE DEF d
    <2>7. /\ DOMAIN d.record = DOMAIN draft[s].record \cup {Current(s).ref}
          /\ d.record[Current(s).ref] = row
          /\ \A q \in DOMAIN draft[s].record \ {Current(s).ref} :
                  d.record[q] = draft[s].record[q]
      BY <2>6 DEF Put
    <2> QED BY <2>1, <2>3, <2>5, <2>7, KeepLink
  <1>5. ASSUME NEW s \in Sessions, LinkCandidate(s)
        PROVE  LinksKept'
    <2>1. op[s].ref \in Refs /\ op[s].id \in Ids /\ ~IsDry(s)
      BY <1>5, RequestsAssumption
      DEF LinkCandidate, Phased, ImportRequest, CreateRequest, LinkRequest, Refs
    <2> DEFINE known == SeenRecords(s)[op[s].ref]
               row == [known EXCEPT !.restaurant = op[s].id]
               entry == [action |-> "osm_candidate_linked",
                         resource |-> op[s].id, ref |-> op[s].ref]
               d == WithAudit(WithRecord(draft[s], op[s].ref, row), entry)
    <2>2. draft' = [draft EXCEPT ![s] = d] /\ UNCHANGED record
      BY <1>5 DEF LinkCandidate
    <2>3. row.restaurant = op[s].id
      <3>1. known \in Record
        BY <1>5, <2>1, SeenType DEF LinkCandidate, CanLink
      <3> QED BY <3>1 DEF Record
    <2>4. LinkedTo(record, op[s].ref) # Null
          => op[s].id = LinkedTo(record, op[s].ref)
      BY <1>5, <2>1, SeenLink DEF LinkCandidate, CanLink
    <2> HIDE DEF row, entry, known
    <2>5. d.record = Put(draft[s].record, op[s].ref, row)
      BY DEF WithRecord, WithAudit, IsDraft, TypeOK
    <2> HIDE DEF d
    <2>6. /\ DOMAIN d.record = DOMAIN draft[s].record \cup {op[s].ref}
          /\ d.record[op[s].ref] = row
          /\ \A q \in DOMAIN draft[s].record \ {op[s].ref} :
                  d.record[q] = draft[s].record[q]
      BY <2>5 DEF Put
    <2> QED BY <2>1, <2>2, <2>3, <2>4, <2>6, KeepLink
  <1>6. ASSUME NEW s \in Sessions, RecordRun(s) \/ CreateRestaurant(s)
        PROVE  LinksKept'
    <2>1. UNCHANGED record /\ DOMAIN draft' = DOMAIN draft
      BY <1>6 DEF RecordRun, CreateRestaurant
    <2>2. \A d : IsDraft(d) =>
            /\ \A h, result : WithRun(d, h, result).record = d.record
            /\ \A id, row, entry :
                  WithAudit(WithSheet(d, id, row), entry).record = d.record
      BY DEF WithRun, WithSheet, WithAudit, IsDraft
    <2>3. IsDraft(draft[s])
      BY DEF TypeOK
    <2>4. CASE RecordRun(s)
      <3> DEFINE d == WithRun(draft[s], op[s].command, items[s])
      <3>1. draft' = [draft EXCEPT ![s] = d]
        BY <2>4 DEF RecordRun
      <3>2. d.record = draft[s].record
        BY <2>2, <2>3
      <3> HIDE DEF d
      <3> QED BY <2>1, <3>1, <3>2 DEF LinksKept, LinkedTo, TypeOK
    <2>5. CASE CreateRestaurant(s)
      <3> DEFINE entry(id) == [action |-> "restaurant_created",
                               resource |-> id, ref |-> Null]
                 d(id) == WithAudit(
                    WithSheet(draft[s], id, NewSheet(op[s].sheet, Null)), entry(id))
      <3>1. PICK id \in FreshIds : draft' = [draft EXCEPT ![s] = d(id)]
        BY <2>5 DEF CreateRestaurant
      <3> HIDE DEF entry
      <3>2. d(id).record = draft[s].record
        BY <2>2, <2>3
      <3> HIDE DEF d
      <3> QED BY <2>1, <3>1, <3>2 DEF LinksKept, LinkedTo, TypeOK
    <2> QED BY <1>6, <2>4, <2>5
  <1>7. ASSUME NEW s \in Sessions, Commit(s)
        PROVE  LinksKept'
    <2>1. CASE IsDry(s)
      <3>1. draft[s] = NoDraft
        BY <1>7, <2>1, NullsAssumption DEF Discipline, Holds, Commit
      <3>2. record' = record
        BY <1>7, <3>1 DEF Commit, NoDraft, Overlay, TypeOK
      <3> QED BY <1>2, <1>7, <3>2 DEF Commit
    <2>2. CASE ~IsDry(s)
      <3>1. \A t \in Sessions : draft'[t] = NoDraft
        BY <1>7, <2>2 DEF Discipline, Holds, Commit, TypeOK
      <3> QED BY <3>1 DEF LinksKept, NoDraft
    <2> QED BY <2>1, <2>2
  <1>8. ASSUME NEW s \in Sessions, Reply(s) \/ Refuse(s) \/ Abort(s)
        PROVE  LinksKept'
    BY <1>2, <1>8 DEF Reply, Refuse, Abort, Rollback, EndSession
  <1>9. ASSUME NEW s \in Sessions,
               \/ \E o \in Requests : Begin(s, o)
               \/ AcquireLock(s) \/ OpenSnapshot(s) \/ Replay(s) \/ StartScan(s)
               \/ SkipCandidate(s) \/ PlanDraft(s) \/ EndSimulation(s)
        PROVE  LinksKept'
    BY <1>1, <1>9 DEF Begin, AcquireLock, OpenSnapshot, Replay, StartScan,
                      SkipCandidate, PlanDraft, EndSimulation
  <1>10. ASSUME NEW id \in Ids, NEW e \in Edits, UpdateRestaurant(id, e)
         PROVE  LinksKept'
    BY <1>1, <1>10 DEF UpdateRestaurant
  <1>11. CASE UNCHANGED vars
    BY <1>1, <1>11 DEF vars
  <1> QED
    BY <1>3, <1>4, <1>5, <1>6, <1>7, <1>8, <1>9, <1>10, <1>11
    DEF Next, ImportStep, ManualStep

(***************************************************************************)
(* No step moves a link.                                                   *)
(***************************************************************************)
LEMMA LinkStep ==
    TypeInv /\ LinksKept /\ [Next]_vars =>
        \A r \in Refs : LinkedTo(record, r) # Null
            => LinkedTo(record', r) = LinkedTo(record, r)
  <1> SUFFICES ASSUME TypeOK, LinksKept, [Next]_vars,
                      NEW r \in Refs, LinkedTo(record, r) # Null
               PROVE  LinkedTo(record', r) = LinkedTo(record, r)
    BY DEF TypeInv
  <1>1. CASE UNCHANGED record
    BY <1>1
  <1>2. ASSUME NEW s \in Sessions, Commit(s)
        PROVE  LinkedTo(record', r) = LinkedTo(record, r)
    <2>1. record'[r] = IF r \in DOMAIN draft[s].record
                       THEN draft[s].record[r] ELSE record[r]
      BY <1>2 DEF Commit, Overlay, TypeOK
    <2>2. r \in DOMAIN draft[s].record => draft[s].record[r] \in Record
      BY DEF TypeOK, IsDraft, IsRows
    <2> QED BY <2>1, <2>2, NullsAssumption DEF LinksKept, LinkedTo
  <1>3. (\E s \in Sessions : Commit(s)) \/ UNCHANGED record
    BY DEF Next, ImportStep, ManualStep, Begin, AcquireLock, OpenSnapshot,
           Replay, StartScan, SkipCandidate, StageCandidate, CreateDraft,
           PlanDraft, RecordRun, EndSimulation, CreateRestaurant, LinkCandidate,
           Reply, Refuse, Abort, Rollback, UpdateRestaurant, vars, tables, session
  <1> QED BY <1>1, <1>2, <1>3

(***************************************************************************)
(* A source once linked to a sheet, by an import or by hand, is linked to  *)
(* it for ever, whatever runs concurrently.                                *)
(***************************************************************************)
THEOREM LinksNeverMove == Spec => LinksPermanent
  <1>1. Init => LinksKept
    BY DEF Init, LinksKept, NoDraft
  <1> QED
    BY <1>1, TypeInit, TypeNext, DisciplineInit, DisciplineNext,
       LinksKeptNext, LinkStep, PTL DEF Spec, LinksPermanent

-----------------------------------------------------------------------------
(***************************************************************************)
(* The steps as the tables and the drafts see them.  A session grows its   *)
(* own draft, or loses it, or settles it into the tables, and nobody else  *)
(* has one then.                                                           *)
(***************************************************************************)
Quiet == UNCHANGED <<tables, draft>>

Dropped(s) == UNCHANGED tables /\ draft' = [draft EXCEPT ![s] = NoDraft]

Grown(s, sheets, records, runs, entries) ==
    /\ lock = s /\ UNCHANGED tables
    /\ \A t \in Sessions \ {s} : draft'[t] = draft[t]
    /\ draft'[s].restaurant = sheets /\ draft'[s].record = records
    /\ draft'[s].run = runs /\ draft'[s].audit = entries

Observes(s) ==
    /\ Scanning(s) /\ ~IsDry(s)
    /\ CurrentVerdict(s) \in {"EXACT_MATCH", "NEEDS_DATA", "NEEDS_REVIEW"}
    /\ Grown(s, draft[s].restaurant,
             Put(draft[s].record, Current(s).ref, Observation(s)),
             draft[s].run, draft[s].audit)

Drafts(s, id) ==
    /\ Scanning(s) /\ ~IsDry(s) /\ CurrentVerdict(s) = "DRAFT_CREATED"
    /\ id \in FreshIds
    /\ Grown(s, Put(draft[s].restaurant, id,
                    NewSheet(Discovered(Current(s)), Current(s).ref)),
             Put(draft[s].record, Current(s).ref,
                 [Observation(s) EXCEPT !.restaurant = id]),
             draft[s].run, draft[s].audit)

Creates(s, id) ==
    /\ pc[s] = "locked" /\ op[s].kind = "create"
    /\ Duplicates(SeenRestaurants(s), op[s].sheet) = {}
    /\ id \in FreshIds
    /\ Grown(s, Put(draft[s].restaurant, id, NewSheet(op[s].sheet, Null)),
             draft[s].record, draft[s].run,
             draft[s].audit \cup {[action |-> "restaurant_created",
                                   resource |-> id, ref |-> Null]})

Attaches(s) ==
    /\ pc[s] = "locked" /\ op[s].kind = "link" /\ CanLink(s)
    /\ Grown(s, draft[s].restaurant,
             Put(draft[s].record, op[s].ref,
                 [SeenRecords(s)[op[s].ref] EXCEPT !.restaurant = op[s].id]),
             draft[s].run,
             draft[s].audit \cup {[action |-> "osm_candidate_linked",
                                   resource |-> op[s].id, ref |-> op[s].ref]})

Files(s) ==
    /\ Scanned(s) /\ ~IsDry(s) /\ importRun[op[s].command] = Null
    /\ Grown(s, draft[s].restaurant, draft[s].record,
             Put(draft[s].run, op[s].command, items[s]), draft[s].audit)

Settles(s) ==
    /\ lock = s
    /\ \A t \in Sessions : draft'[t] = NoDraft
    /\ \A id \in Ids : restaurant'[id] =
          IF id \in DOMAIN draft[s].restaurant THEN draft[s].restaurant[id]
          ELSE restaurant[id]
    /\ \A r \in Refs : record'[r] =
          IF r \in DOMAIN draft[s].record THEN draft[s].record[r] ELSE record[r]
    /\ \A h \in Commands : importRun'[h] =
          IF h \in DOMAIN draft[s].run THEN draft[s].run[h] ELSE importRun[h]
    /\ audit' = audit \cup draft[s].audit

(***************************************************************************)
(* The fields of a draft that grows.                                       *)
(***************************************************************************)
LEMMA Fields ==
    ASSUME NEW d, IsDraft(d)
    PROVE  /\ \A r, row : /\ WithRecord(d, r, row).restaurant = d.restaurant
                          /\ WithRecord(d, r, row).record = Put(d.record, r, row)
                          /\ WithRecord(d, r, row).run = d.run
                          /\ WithRecord(d, r, row).audit = d.audit
           /\ \A id, row : /\ WithSheet(d, id, row).restaurant = Put(d.restaurant, id, row)
                           /\ WithSheet(d, id, row).record = d.record
                           /\ WithSheet(d, id, row).run = d.run
                           /\ WithSheet(d, id, row).audit = d.audit
           /\ \A h, result : /\ WithRun(d, h, result).restaurant = d.restaurant
                             /\ WithRun(d, h, result).record = d.record
                             /\ WithRun(d, h, result).run = Put(d.run, h, result)
                             /\ WithRun(d, h, result).audit = d.audit
           /\ \A e : /\ WithAudit(d, e).restaurant = d.restaurant
                     /\ WithAudit(d, e).record = d.record
                     /\ WithAudit(d, e).run = d.run
                     /\ WithAudit(d, e).audit = d.audit \cup {e}
  BY DEF IsDraft, WithRecord, WithSheet, WithRun, WithAudit

(***************************************************************************)
(* A session that scans for real, or that is locked, holds the lock.       *)
(***************************************************************************)
LEMMA WriterHolds ==
    ASSUME Discipline, Phased, NEW s \in Sessions,
           \/ pc[s] = "locked"
           \/ pc[s] \in {"scanning", "committing"} /\ ~IsDry(s)
    PROVE  lock = s
  BY DEF Discipline, Holds

(***************************************************************************)
(* The import drafts a sheet: its draft grows by the sheet and the record. *)
(***************************************************************************)
LEMMA CreateDraftGrows ==
    ASSUME TypeOK, Phased, Discipline, NEW s \in Sessions, CreateDraft(s)
    PROVE  \E id \in Ids : Drafts(s, id)
  <1>1. IsDraft(draft[s]) /\ Scanning(s) /\ pc[s] = "scanning" /\ ~IsDry(s)
    BY DEF TypeOK, CreateDraft, Scanning
  <1> DEFINE sheet == NewSheet(Discovered(Current(s)), Current(s).ref)
             row(id) == [Observation(s) EXCEPT !.restaurant = id]
             d(id) == WithRecord(WithSheet(draft[s], id, sheet),
                                 Current(s).ref, row(id))
  <1>2. PICK id \in FreshIds : draft' = [draft EXCEPT ![s] = d(id)]
    BY DEF CreateDraft
  <1>3. id \in Ids
    BY DEF FreshIds
  <1>4. sheet \in Restaurant
    BY <1>1, DraftedType, SheetType, CurrentType DEF CreateDraft
  <1>5. IsDraft(WithSheet(draft[s], id, sheet))
    BY <1>1, <1>3, <1>4, DraftWithSheet
  <1> HIDE DEF sheet, row
  <1>6. /\ d(id).restaurant = Put(draft[s].restaurant, id, sheet)
        /\ d(id).record = Put(draft[s].record, Current(s).ref, row(id))
        /\ d(id).run = draft[s].run /\ d(id).audit = draft[s].audit
    BY <1>1, <1>5, Fields
  <1> HIDE DEF d
  <1>7. Drafts(s, id)
    BY <1>1, <1>2, <1>6, WriterHolds
    DEF Drafts, Grown, CreateDraft, tables, TypeOK, sheet, row
  <1> QED BY <1>3, <1>7

(***************************************************************************)
(* The manual creation: its draft grows by the sheet and the audit entry.  *)
(***************************************************************************)
LEMMA CreateRestaurantGrows ==
    ASSUME TypeOK, Phased, Discipline, NEW s \in Sessions, CreateRestaurant(s)
    PROVE  \E id \in Ids : Creates(s, id)
  <1>1. IsDraft(draft[s]) /\ pc[s] = "locked"
    BY DEF TypeOK, CreateRestaurant
  <1>2. op[s].sheet \in Identity
    BY RequestsAssumption
    DEF CreateRestaurant, Phased, ImportRequest, CreateRequest, LinkRequest
  <1> DEFINE sheet == NewSheet(op[s].sheet, Null)
             entry(id) == [action |-> "restaurant_created",
                           resource |-> id, ref |-> Null]
             d(id) == WithAudit(WithSheet(draft[s], id, sheet), entry(id))
  <1>3. PICK id \in FreshIds : draft' = [draft EXCEPT ![s] = d(id)]
    BY DEF CreateRestaurant
  <1>4. id \in Ids
    BY DEF FreshIds
  <1>5. sheet \in Restaurant
    BY <1>2, SheetType
  <1>6. IsDraft(WithSheet(draft[s], id, sheet))
    BY <1>1, <1>4, <1>5, DraftWithSheet
  <1> HIDE DEF sheet, entry
  <1>7. /\ d(id).restaurant = Put(draft[s].restaurant, id, sheet)
        /\ d(id).record = draft[s].record /\ d(id).run = draft[s].run
        /\ d(id).audit = draft[s].audit \cup {entry(id)}
    BY <1>1, <1>6, Fields
  <1> HIDE DEF d
  <1>8. /\ lock = s /\ UNCHANGED tables
        /\ draft'[s] = d(id)
        /\ \A t \in Sessions \ {s} : draft'[t] = draft[t]
    <2>1. lock = s
      BY <1>1, WriterHolds
    <2>2. UNCHANGED tables
      BY DEF CreateRestaurant
    <2>3. DOMAIN draft = Sessions
      BY DEF TypeOK
    <2> QED BY <1>3, <2>1, <2>2, <2>3
  <1>9. Grown(s, Put(draft[s].restaurant, id, sheet), draft[s].record,
              draft[s].run, draft[s].audit \cup {entry(id)})
    BY <1>7, <1>8 DEF Grown
  <1>10. Creates(s, id)
    BY <1>1, <1>9 DEF Creates, CreateRestaurant, sheet, entry
  <1> QED BY <1>4, <1>10

(***************************************************************************)
(* The manual link: its draft grows by the record and the audit entry.     *)
(***************************************************************************)
LEMMA LinkCandidateGrows ==
    ASSUME TypeOK, Phased, Discipline, NEW s \in Sessions, LinkCandidate(s)
    PROVE  Attaches(s)
  <1>1. IsDraft(draft[s]) /\ pc[s] = "locked"
    BY DEF TypeOK, LinkCandidate
  <1>2. op[s].ref \in Refs /\ op[s].id \in Ids
    BY RequestsAssumption
    DEF LinkCandidate, Phased, ImportRequest, CreateRequest, LinkRequest, Refs
  <1> DEFINE row == [SeenRecords(s)[op[s].ref] EXCEPT !.restaurant = op[s].id]
             entry == [action |-> "osm_candidate_linked",
                       resource |-> op[s].id, ref |-> op[s].ref]
             d == WithAudit(WithRecord(draft[s], op[s].ref, row), entry)
  <1>3. draft' = [draft EXCEPT ![s] = d]
    BY DEF LinkCandidate
  <1>4. row \in Record
    BY <1>2, SeenType DEF LinkCandidate, CanLink, Record
  <1>5. IsDraft(WithRecord(draft[s], op[s].ref, row))
    BY <1>1, <1>2, <1>4, DraftWithRecord
  <1> HIDE DEF row, entry
  <1>6. /\ d.restaurant = draft[s].restaurant
        /\ d.record = Put(draft[s].record, op[s].ref, row)
        /\ d.run = draft[s].run /\ d.audit = draft[s].audit \cup {entry}
    BY <1>1, <1>5, Fields
  <1> HIDE DEF d
  <1>7. /\ lock = s /\ UNCHANGED tables
        /\ draft'[s] = d
        /\ \A t \in Sessions \ {s} : draft'[t] = draft[t]
    <2>1. lock = s
      BY <1>1, WriterHolds
    <2>2. UNCHANGED tables
      BY DEF LinkCandidate
    <2>3. DOMAIN draft = Sessions
      BY DEF TypeOK
    <2> QED BY <1>3, <2>1, <2>2, <2>3
  <1>8. Grown(s, draft[s].restaurant, Put(draft[s].record, op[s].ref, row),
              draft[s].run, draft[s].audit \cup {entry})
    BY <1>6, <1>7 DEF Grown
  <1>9. Attaches(s)
    BY <1>1, <1>8 DEF Attaches, LinkCandidate, row, entry
  <1> QED BY <1>9

(***************************************************************************)
(* A commit settles the draft of the holder of the lock, or there is none. *)
(***************************************************************************)
LEMMA CommitCases ==
    ASSUME TypeOK, Phased, Discipline, NEW s \in Sessions, Commit(s)
    PROVE  Dropped(s) \/ Settles(s)
  <1>1. CASE IsDry(s)
    <2>1. draft[s] = NoDraft
      BY <1>1, NullsAssumption DEF Discipline, Holds, Commit
    <2>2. /\ restaurant' = restaurant /\ record' = record
          /\ importRun' = importRun /\ audit' = audit
      BY <2>1 DEF Commit, NoDraft, Overlay, TypeOK
    <2> QED BY <2>2 DEF Commit, Dropped, tables
  <1>2. CASE ~IsDry(s)
    <2>1. lock = s
      BY <1>2 DEF Discipline, Holds, Commit
    <2>2. \A t \in Sessions : draft'[t] = NoDraft
      BY <2>1, NullsAssumption DEF Discipline, Commit, TypeOK
    <2> QED BY <2>1, <2>2 DEF Commit, Settles, Overlay, TypeOK
  <1> QED BY <1>1, <1>2

(***************************************************************************)
(* Every step is one of these: nothing, a dropped draft, a draft that      *)
(* grows, a draft that settles, or an edit.                                *)
(***************************************************************************)
LEMMA StepCases ==
    ASSUME TypeOK, Phased, Discipline, [Next]_vars
    PROVE  \/ Quiet
           \/ \E s \in Sessions :
                \/ Dropped(s) \/ Observes(s) \/ Attaches(s) \/ Files(s)
                \/ Settles(s)
                \/ \E id \in Ids : Drafts(s, id) \/ Creates(s, id)
           \/ \E id \in Ids, e \in Edits :
                UpdateRestaurant(id, e) /\ UNCHANGED draft
  <1> DEFINE Goal ==
           \/ Quiet
           \/ \E s \in Sessions :
                \/ Dropped(s) \/ Observes(s) \/ Attaches(s) \/ Files(s)
                \/ Settles(s)
                \/ \E id \in Ids : Drafts(s, id) \/ Creates(s, id)
           \/ \E id \in Ids, e \in Edits :
                UpdateRestaurant(id, e) /\ UNCHANGED draft
  <1>1. ASSUME NEW s \in Sessions,
               \/ \E o \in Requests : Begin(s, o)
               \/ AcquireLock(s) \/ OpenSnapshot(s) \/ Replay(s) \/ StartScan(s)
               \/ SkipCandidate(s) \/ PlanDraft(s) \/ EndSimulation(s)
        PROVE  Goal
    <2>1. Quiet
      BY <1>1 DEF Quiet, tables, Begin, AcquireLock, OpenSnapshot, Replay,
                  StartScan, SkipCandidate, PlanDraft, EndSimulation
    <2> QED BY <2>1
  <1>2. ASSUME NEW s \in Sessions, StageCandidate(s)
        PROVE  Goal
    <2>1. IsDraft(draft[s]) /\ Scanning(s) /\ pc[s] = "scanning"
      BY <1>2 DEF TypeOK, StageCandidate, Scanning
    <2>2. CASE IsDry(s)
      BY <1>2, <2>2 DEF StageCandidate, Quiet, tables
    <2>3. CASE ~IsDry(s)
      <3> DEFINE d == WithRecord(draft[s], Current(s).ref, Observation(s))
      <3>1. draft' = [draft EXCEPT ![s] = d]
        BY <1>2, <2>3 DEF StageCandidate
      <3>2. /\ d.restaurant = draft[s].restaurant
            /\ d.record = Put(draft[s].record, Current(s).ref, Observation(s))
            /\ d.run = draft[s].run /\ d.audit = draft[s].audit
        BY <2>1, Fields
      <3> HIDE DEF d
      <3>3. Observes(s)
        BY <1>2, <2>1, <2>3, <3>1, <3>2, WriterHolds
        DEF Observes, Grown, StageCandidate, tables, TypeOK
      <3> QED BY <3>3
    <2> QED BY <2>2, <2>3
  <1>3. ASSUME NEW s \in Sessions, CreateDraft(s)
        PROVE  Goal
    BY <1>3, CreateDraftGrows
  <1>4. ASSUME NEW s \in Sessions, RecordRun(s)
        PROVE  Goal
    <2>1. IsDraft(draft[s]) /\ pc[s] = "scanning" /\ ~IsDry(s)
      BY <1>4 DEF TypeOK, RecordRun, Scanned
    <2> DEFINE d == WithRun(draft[s], op[s].command, items[s])
    <2>2. draft' = [draft EXCEPT ![s] = d]
      BY <1>4 DEF RecordRun
    <2>3. /\ d.restaurant = draft[s].restaurant /\ d.record = draft[s].record
          /\ d.run = Put(draft[s].run, op[s].command, items[s])
          /\ d.audit = draft[s].audit
      BY <2>1, Fields
    <2> HIDE DEF d
    <2>4. Files(s)
      BY <1>4, <2>1, <2>2, <2>3, WriterHolds
      DEF Files, Grown, RecordRun, tables, TypeOK
    <2> QED BY <2>4
  <1>5. ASSUME NEW s \in Sessions, CreateRestaurant(s)
        PROVE  Goal
    BY <1>5, CreateRestaurantGrows
  <1>6. ASSUME NEW s \in Sessions, LinkCandidate(s)
        PROVE  Goal
    BY <1>6, LinkCandidateGrows
  <1>7. ASSUME NEW s \in Sessions, Commit(s)
        PROVE  Goal
    BY <1>7, CommitCases
  <1>8. ASSUME NEW s \in Sessions, Reply(s) \/ Refuse(s) \/ Abort(s)
        PROVE  Goal
    <2>1. Dropped(s)
      BY <1>8 DEF Reply, Refuse, Abort, Rollback, EndSession, Dropped, tables
    <2> QED BY <2>1
  <1>9. ASSUME NEW id \in Ids, NEW e \in Edits, UpdateRestaurant(id, e)
        PROVE  Goal
    BY <1>9 DEF UpdateRestaurant, session
  <1>10. CASE UNCHANGED vars
    BY <1>10 DEF vars, session, Quiet
  <1>11. Goal
    BY <1>1, <1>2, <1>3, <1>4, <1>5, <1>6, <1>7, <1>8, <1>9, <1>10
    DEF Next, ImportStep, ManualStep
  <1> QED BY <1>11

-----------------------------------------------------------------------------
(***************************************************************************)
(* A set of numbers that is not empty has a least member: what is proved   *)
(* of every candidate of a command is proved by the first that would not   *)
(* have it.                                                                *)
(***************************************************************************)
LEMMA Least ==
  ASSUME NEW T, T \subseteq Nat, T # {}
  PROVE  \E x \in T : \A y \in T : x <= y
  <1>1. IsWellFoundedOn(OpToRel(<, Nat), Nat)
    BY NatLessThanWellFounded
  <1> DEFINE R == OpToRel(<, Nat)
  <1>2. \A x, y \in Nat : y < x => <<y, x>> \in R
    BY DEF OpToRel
  <1> HIDE DEF R
  <1>3. IsWellFoundedOn(R, Nat)
    BY <1>1 DEF R
  <1>4. PICK x \in T : \A y \in T : ~(<<y, x>> \in R)
    BY <1>3, WFMin
  <1>5. ASSUME NEW y \in T PROVE x <= y
    <2>1. x \in Nat /\ y \in Nat
      OBVIOUS
    <2>2. ~(y < x)
      BY <1>2, <1>4, <2>1
    <2> QED BY <2>1, <2>2
  <1> QED BY <1>5
-----------------------------------------------------------------------------
(***************************************************************************)
(* The tables after each candidate of a command, by induction on its       *)
(* length: the sequence of tables exists, so Alone is one.                 *)
(***************************************************************************)
Untouched(db) == [restaurant |-> db.restaurant, record |-> db.record, outcomes |-> << >>]

Applying(db, h, n, after) ==
  after = [i \in 0..n |-> IF i = 0 THEN [restaurant |-> db.restaurant, record |-> db.record,
                                         outcomes |-> << >>]
                          ELSE Applied(after[i - 1], h, i)]

LEMMA ApplyingExists ==
  ASSUME NEW db, NEW h, NEW n \in Nat
  PROVE  \E after : Applying(db, h, n, after)
  <1> DEFINE T == {m \in Nat : ~\E after : Applying(db, h, m, after)}
  <1> SUFFICES ASSUME T # {} PROVE FALSE
    OBVIOUS
  <1>1. PICK m \in T : \A k \in T : m <= k
    BY Least
  <1>2. m # 0
    <2> DEFINE f == [i \in 0..0 |-> Untouched(db)]
    <2>1. Applying(db, h, 0, f)
      BY DEF Applying, Untouched
    <2> QED BY <2>1
  <1>3. m - 1 \in Nat /\ m - 1 \notin T
    BY <1>1, <1>2
  <1>4. PICK g : Applying(db, h, m - 1, g)
    BY <1>3
  <1> DEFINE f == [i \in 0..m |-> IF i = m THEN Applied(g[m - 1], h, m) ELSE g[i]]
  <1>5. \A i \in 0..m : f[i] = IF i = 0 THEN Untouched(db) ELSE Applied(f[i - 1], h, i)
    <2> SUFFICES ASSUME NEW i \in 0..m
                 PROVE  f[i] = IF i = 0 THEN Untouched(db) ELSE Applied(f[i - 1], h, i)
      OBVIOUS
    <2>1. CASE i = m
      BY <2>1, <1>2
    <2>2. CASE i # m
      <3>1. i \in 0..(m - 1) /\ (i # 0 => i - 1 \in 0..(m - 1))
        BY <2>2
      <3>2. g[i] = IF i = 0 THEN Untouched(db) ELSE Applied(g[i - 1], h, i)
        BY <1>4, <3>1 DEF Applying, Untouched
      <3> QED BY <3>1, <3>2
    <2> QED BY <2>1, <2>2
  <1>6. Applying(db, h, m, f)
    <2>1. f = [i \in 0..m |-> f[i]]
      OBVIOUS
    <2> HIDE DEF f
    <2> QED BY <1>5, <2>1 DEF Applying, Untouched
  <1> QED BY <1>6

LEMMA AloneIs ==
  ASSUME NEW db, NEW h, Len(h.cands) \in Nat
  PROVE  /\ Alone(db, h)[0] = Untouched(db)
         /\ \A n \in 0..Len(h.cands) : n # Len(h.cands) =>
              Alone(db, h)[n + 1] = Applied(Alone(db, h)[n], h, n + 1)
  <1> DEFINE after == CHOOSE f : Applying(db, h, Len(h.cands), f)
  <1>1. Alone(db, h) = after
    BY DEF Alone, Applying
  <1>2. Applying(db, h, Len(h.cands), after)
    BY ApplyingExists
  <1> HIDE DEF after
  <1>3. after[0] = Untouched(db)
    BY <1>2 DEF Applying, Untouched
  <1>4. ASSUME NEW n \in 0..Len(h.cands), n # Len(h.cands)
        PROVE  after[n + 1] = Applied(after[n], h, n + 1)
    <2>1. n + 1 \in 0..Len(h.cands) /\ n + 1 # 0 /\ (n + 1) - 1 = n
      BY <1>4
    <2> QED BY <1>2, <2>1 DEF Applying
  <1> QED BY <1>1, <1>3, <1>4

-----------------------------------------------------------------------------
(***************************************************************************)
(* What a simulation has answered of its first n candidates, against the   *)
(* tables an application would have made of them: the same outcomes; the   *)
(* records of the candidates to come as they were; and its plan in place   *)
(* of the sheets an application creates.                                   *)
(***************************************************************************)
Alike(sheet, p) ==
  sheet.name = p.name /\ sheet.place = p.place /\ sheet.contacts = p.contacts

Foretold(after, n, v, plan, answers, h) ==
  /\ answers \in Seq(Item) /\ Len(answers) = n
  /\ after.outcomes = [i \in 1..n |-> answers[i].outcome]
  /\ DOMAIN after.record = Refs
  /\ \A j \in (n + 1)..Len(h.cands) :
        after.record[h.cands[j].ref] = v.record[h.cands[j].ref]
  /\ DOMAIN after.restaurant \subseteq Ids \cup {OwnId(k) : k \in 1..n}
  /\ \A id \in Ids : /\ id \in DOMAIN after.restaurant
                     /\ after.restaurant[id] = v.restaurant[id]
  /\ \A id \in DOMAIN after.restaurant \ Ids :
        /\ after.restaurant[id] # Null
        /\ \E p \in plan : Alike(after.restaurant[id], p)
  /\ \A p \in plan : \E id \in DOMAIN after.restaurant :
        after.restaurant[id] # Null /\ Alike(after.restaurant[id], p)

LEMMA ForetoldStart ==
  ASSUME NEW v \in View, NEW h
  PROVE  Foretold(Untouched(v), 0, v, {}, << >>, h)
  <1>1. DOMAIN v.record = Refs /\ DOMAIN v.restaurant = Ids
    BY DEF View
  <1>2. << >> \in Seq(Item) /\ Len(<< >>) = 0 /\ << >> = [i \in 1..0 |-> << >>[i].outcome]
    OBVIOUS
  <1> QED BY <1>1, <1>2 DEF Foretold, Untouched

LEMMA SameDuplicates ==
  ASSUME NEW after, NEW n, NEW v \in View, NEW plan, NEW answers, NEW h,
         Foretold(after, n, v, plan, answers, h), NEW c, c.name # Null
  PROVE  Duplicates(after.restaurant, c) # {} <=>
           Duplicates(v.restaurant, c) # {} \/ PlannedDuplicate(plan, c)
  <1>1. \A sheet, p : Alike(sheet, p) => (Resembles(c, sheet) <=> Resembles(c, p))
    BY DEF Alike, Resembles
  <1>2. DOMAIN v.restaurant = Ids
    BY DEF View
  <1>3. ASSUME NEW id \in Duplicates(after.restaurant, c)
        PROVE  Duplicates(v.restaurant, c) # {} \/ PlannedDuplicate(plan, c)
    <2>1. /\ id \in DOMAIN after.restaurant /\ after.restaurant[id] # Null
          /\ Resembles(c, after.restaurant[id])
      BY DEF Duplicates
    <2>2. CASE id \in Ids
      <3>1. id \in Duplicates(v.restaurant, c)
        BY <1>2, <2>1, <2>2 DEF Foretold, Duplicates
      <3> QED BY <3>1
    <2>3. CASE id \notin Ids
      <3>1. PICK p \in plan : Alike(after.restaurant[id], p)
        BY <2>1, <2>3 DEF Foretold
      <3> QED BY <1>1, <2>1, <3>1 DEF PlannedDuplicate
    <2> QED BY <2>2, <2>3
  <1>4. ASSUME NEW id \in Duplicates(v.restaurant, c)
        PROVE  Duplicates(after.restaurant, c) # {}
    <2>1. id \in Ids /\ v.restaurant[id] # Null /\ Resembles(c, v.restaurant[id])
      BY <1>2 DEF Duplicates
    <2>2. id \in Duplicates(after.restaurant, c)
      BY <2>1 DEF Foretold, Duplicates
    <2> QED BY <2>2
  <1>5. ASSUME PlannedDuplicate(plan, c)
        PROVE  Duplicates(after.restaurant, c) # {}
    <2>1. PICK p \in plan : Resembles(c, p)
      BY <1>5 DEF PlannedDuplicate
    <2>2. PICK id \in DOMAIN after.restaurant :
            after.restaurant[id] # Null /\ Alike(after.restaurant[id], p)
      BY DEF Foretold
    <2>3. id \in Duplicates(after.restaurant, c)
      BY <1>1, <2>1, <2>2 DEF Duplicates
    <2> QED BY <2>3
  <1> QED BY <1>3, <1>4, <1>5

LEMMA SameVerdict ==
  ASSUME NEW after, NEW n \in Nat, NEW v \in View, NEW plan, NEW answers, NEW h \in Command,
         Foretold(after, n, v, plan, answers, h), n < Len(h.cands)
  PROVE  Verdict(after.restaurant, after.record, {}, h, h.cands[n + 1])
           = Verdict(v.restaurant, v.record, plan, h, h.cands[n + 1])
  <1> DEFINE c == h.cands[n + 1]
  <1>1. n + 1 \in (n + 1)..Len(h.cands)
    BY DEF Command
  <1>2. after.record[c.ref] = v.record[c.ref]
    BY <1>1 DEF Foretold
  <1>3. LinkedTo(after.record, c.ref) = LinkedTo(v.record, c.ref)
    BY <1>2 DEF LinkedTo
  <1>4. ASSUME c.name # Null
        PROVE  (\/ Duplicates(after.restaurant, Discovered(c)) # {}
                \/ PlannedDuplicate({}, Discovered(c)))
               <=> (\/ Duplicates(v.restaurant, Discovered(c)) # {}
                    \/ PlannedDuplicate(plan, Discovered(c)))
    <2>1. Discovered(c).name # Null
      BY <1>4 DEF Discovered
    <2>2. ~PlannedDuplicate({}, Discovered(c))
      BY DEF PlannedDuplicate
    <2> DEFINE d == Discovered(c)
    <2> HIDE DEF c, d
    <2>3. d.name # Null
      BY <2>1 DEF d
    <2>4. Duplicates(after.restaurant, d) # {} <=>
            Duplicates(v.restaurant, d) # {} \/ PlannedDuplicate(plan, d)
      BY <2>3, SameDuplicates
    <2> QED BY <2>2, <2>4 DEF d
  <1> HIDE DEF c
  <1>5. Verdict(after.restaurant, after.record, {}, h, c)
          = Verdict(v.restaurant, v.record, plan, h, c)
    BY <1>2, <1>3, <1>4 DEF Verdict
  <1> QED BY <1>5 DEF c

LEMMA ForetoldStep ==
  ASSUME NEW after, NEW n \in Nat, NEW v \in View, NEW plan, NEW answers, NEW h \in Commands,
         Foretold(after, n, v, plan, answers, h), n < Len(h.cands),
         NEW item \in Item,
         item.outcome = Verdict(v.restaurant, v.record, plan, h, h.cands[n + 1]),
         NEW more,
         more = IF item.outcome = "DRAFT_CREATED"
                THEN plan \cup {Discovered(h.cands[n + 1])} ELSE plan
  PROVE  Foretold(Applied(after, h, n + 1), n + 1, v, more, Append(answers, item), h)
  <1> DEFINE c == h.cands[n + 1]
             next == Applied(after, h, n + 1)
             drafted == item.outcome = "DRAFT_CREATED"
             id == OwnId(n + 1)
             sheet == NewSheet(Discovered(c), c.ref)
             row == Upserted(after.record[c.ref], h, c)
             written == IF drafted THEN [row EXCEPT !.restaurant = id] ELSE row
  <1>0. h \in Command /\ h.cands \in Seq(Candidate) /\ n + 1 \in 1..Len(h.cands)
        /\ Len(h.cands) \in Nat
    <2>1. h \in Command
      BY CommandsAssumption
    <2>2. h.cands \in Seq(Candidate)
      BY <2>1 DEF Command
    <2> QED BY <2>1, <2>2
  <1>1. item.outcome = Verdict(after.restaurant, after.record, {}, h, c)
    BY <1>0, SameVerdict
  <1>2. /\ next.restaurant = IF drafted THEN Put(after.restaurant, id, sheet)
                                        ELSE after.restaurant
        /\ next.outcomes = Append(after.outcomes, item.outcome)
    BY <1>1 DEF Applied
  <1>3. \/ next.record = after.record
        \/ next.record = [after.record EXCEPT ![c.ref] = written]
    <2> DEFINE verdict == Verdict(after.restaurant, after.record, {}, h, c)
    <2>1. next.record = IF verdict \in {"OUTSIDE_ZONE", "STALE_SOURCE"} THEN after.record
                        ELSE [after.record EXCEPT ![c.ref] =
                                IF verdict = "DRAFT_CREATED"
                                THEN [row EXCEPT !.restaurant = id] ELSE row]
      BY DEF Applied
    <2>2. verdict = item.outcome
      BY <1>1
    <2>3. written = IF verdict = "DRAFT_CREATED" THEN [row EXCEPT !.restaurant = id] ELSE row
      BY <2>2
    <2>4. next.record = IF verdict \in {"OUTSIDE_ZONE", "STALE_SOURCE"} THEN after.record
                        ELSE [after.record EXCEPT ![c.ref] = written]
      BY <2>1, <2>3
    <2> HIDE DEF verdict, next, row, c, id, written
    <2> QED BY <2>4
  <1>4. c \in Candidate /\ c.ref \in Refs
    <2>1. c \in Candidate
      BY <1>0
    <2> QED BY <2>1 DEF Candidate
  <1>5. Append(answers, item) \in Seq(Item) /\ Len(Append(answers, item)) = n + 1
        /\ \A i \in 1..n : Append(answers, item)[i] = answers[i]
        /\ Append(answers, item)[n + 1] = item
    BY DEF Foretold
  <1>6. next.outcomes = [i \in 1..(n + 1) |-> Append(answers, item)[i].outcome]
    <2> DEFINE o == [i \in 1..n |-> answers[i].outcome]
               p == [i \in 1..(n + 1) |-> Append(answers, item)[i].outcome]
    <2>1. o \in Seq(Outcome) /\ Len(o) = n /\ item.outcome \in Outcome
      <3>1. \A i \in 1..n : answers[i] \in Item
        BY DEF Foretold
      <3>2. \A i \in 1..n : answers[i].outcome \in Outcome
        BY <3>1 DEF Item
      <3> QED BY <3>2 DEF Item
    <2>2. next.outcomes = Append(o, item.outcome)
      BY <1>2 DEF Foretold
    <2>3. \A i \in 1..n : o[i] = p[i]
      BY <1>5
    <2>4. p[n + 1] = item.outcome
      BY <1>5
    <2>5. p = [i \in 1..(n + 1) |-> p[i]]
      OBVIOUS
    <2> HIDE DEF o, p
    <2>6. Append(o, item.outcome) = [i \in 1..(n + 1) |-> IF i = n + 1 THEN item.outcome ELSE o[i]]
      BY <2>1
    <2>7. \A i \in 1..(n + 1) : i \in 1..n \/ i = n + 1
      OBVIOUS
    <2>8. next.outcomes = p
      BY <2>2, <2>3, <2>4, <2>5, <2>6, <2>7
    <2> QED BY <2>8 DEF p
  <1>7. DOMAIN next.record = Refs
    BY <1>3 DEF Foretold
  <1>8. ASSUME NEW j \in (n + 2)..Len(h.cands)
        PROVE  next.record[h.cands[j].ref] = v.record[h.cands[j].ref]
    <2>1. j \in (n + 1)..Len(h.cands) /\ j \in 1..Len(h.cands) /\ j # n + 1
      BY <1>0
    <2>2. h.cands[j].ref # c.ref /\ h.cands[j] \in Candidate
      BY <1>0, <2>1, CommandsAssumption DEF NamesEachSourceOnce
    <2>3. after.record[h.cands[j].ref] = v.record[h.cands[j].ref]
          /\ DOMAIN after.record = Refs /\ h.cands[j].ref \in Refs
      BY <2>1, <2>2 DEF Foretold, Candidate
    <2> HIDE DEF next, c, written
    <2> QED BY <1>3, <2>2, <2>3
  <1>9. (n + 1) + 1 = n + 2
    OBVIOUS
  <1>10. id \notin Ids /\ id \notin DOMAIN after.restaurant
    <2>1. id \notin Ids
      BY <1>0, OwnIdsAssumption
    <2>2. \A k \in 1..n : OwnId(k) # id
      BY DEF OwnId
    <2> QED BY <2>1, <2>2 DEF Foretold
  <1> HIDE DEF next
  <1>11. CASE drafted
    <2>1. sheet # Null /\ Alike(sheet, Discovered(c))
      <3>1. c.name # Null /\ c.place # Null
        BY <1>1, <1>11 DEF Verdict
      <3>2. Canonical(c.contacts) \subseteq Contacts
        BY <1>4, CanonAssumption DEF Canonical, Candidate
      <3>3. Discovered(c) \in Identity
        BY <1>4, <3>1, <3>2 DEF Discovered, Identity, Candidate
      <3>4. sheet \in Restaurant
        BY <1>4, <3>3, SheetType
      <3> QED BY <3>4, NullsAssumption DEF Alike, NewSheet
    <2>2. /\ DOMAIN next.restaurant = DOMAIN after.restaurant \cup {id}
          /\ next.restaurant[id] = sheet
          /\ \A x \in DOMAIN after.restaurant : next.restaurant[x] = after.restaurant[x]
      BY <1>2, <1>10, <1>11 DEF Put
    <2>3. more = plan \cup {Discovered(c)}
      BY <1>11
    <2> HIDE DEF c, id, sheet
    <2>4. DOMAIN next.restaurant \subseteq Ids \cup {OwnId(k) : k \in 1..(n + 1)}
      BY <2>2 DEF Foretold, id
    <2>5. \A x \in Ids : x \in DOMAIN next.restaurant /\ next.restaurant[x] = v.restaurant[x]
      BY <2>2 DEF Foretold
    <2>6. \A x \in DOMAIN next.restaurant \ Ids :
            next.restaurant[x] # Null /\ \E p \in more : Alike(next.restaurant[x], p)
      BY <2>1, <2>2, <2>3 DEF Foretold
    <2>7. \A p \in more : \E x \in DOMAIN next.restaurant :
            next.restaurant[x] # Null /\ Alike(next.restaurant[x], p)
      BY <2>1, <2>2, <2>3 DEF Foretold
    <2>8. Foretold(next, n + 1, v, more, Append(answers, item), h)
      BY <1>5, <1>6, <1>7, <1>8, <1>9, <2>4, <2>5, <2>6, <2>7 DEF Foretold
    <2> QED BY <2>8 DEF next
  <1>12. CASE ~drafted
    <2>1. next.restaurant = after.restaurant /\ more = plan
      BY <1>2, <1>12
    <2>2. DOMAIN next.restaurant \subseteq Ids \cup {OwnId(k) : k \in 1..(n + 1)}
      BY <2>1 DEF Foretold
    <2>3. Foretold(next, n + 1, v, more, Append(answers, item), h)
      BY <1>5, <1>6, <1>7, <1>8, <1>9, <2>1, <2>2 DEF Foretold
    <2> QED BY <2>3 DEF next
  <1> QED BY <1>11, <1>12

-----------------------------------------------------------------------------
(***************************************************************************)
(* The invariant of a simulation, at each of its steps.                    *)
(***************************************************************************)
Done(s) == Len(items[s])

Simulated(s) ==
  /\ view[s] \in View /\ draft[s] = NoDraft
  /\ Done(s) <= Len(op[s].command.cands)
  /\ pc[s] # "scanning" => Done(s) = Len(op[s].command.cands)
  /\ Foretold(Alone(view[s], op[s].command)[Done(s)], Done(s), view[s], planned[s],
              items[s], op[s].command)

Simulating(s) ==
  /\ pc[s] \in {"idle", "opening"} => items[s] = << >> /\ planned[s] = {}
  /\ pc[s] \in {"scanning", "committing", "answered"} /\ IsDry(s) => Simulated(s)

SimulatingAll == \A s \in Sessions : Simulating(s)

LEMMA SimulatingInit == Init => SimulatingAll
  BY DEF Init, SimulatingAll, Simulating

LEMMA SimulatingFrame ==
  ASSUME NEW s, Simulating(s), draft'[s] = NoDraft \/ draft'[s] = draft[s],
         pc'[s] = pc[s], op'[s] = op[s], view'[s] = view[s], planned'[s] = planned[s],
         items'[s] = items[s]
  PROVE  Simulating(s)'
  <1>1. IsDry(s)' <=> IsDry(s)
    BY DEF IsDry
  <1>2. Done(s)' = Done(s)
    BY DEF Done
  <1>3. Simulated(s) => Simulated(s)'
    BY <1>2 DEF Simulated
  <1> QED BY <1>1, <1>3 DEF Simulating

(***************************************************************************)
(* A turn of the loop in a simulation: it reads its snapshot, answers the  *)
(* verdict, and plans what it would draft.                                 *)
(***************************************************************************)
LEMMA SimulatedTurn ==
  ASSUME TypeOK, Phased, SimulatingAll, NEW s \in Sessions, IsDry(s),
         SkipCandidate(s) \/ StageCandidate(s) \/ PlanDraft(s)
  PROVE  Simulating(s)'
  <1> DEFINE h == op[s].command
             n == Done(s)
             v == view[s]
             c == h.cands[n + 1]
             f == Alone(v, h)
  <1>1. /\ Scanning(s) /\ pc[s] = "scanning" /\ pc' = pc /\ op' = op /\ view' = view
        /\ draft' = draft /\ n < Len(h.cands)
    BY DEF SkipCandidate, StageCandidate, PlanDraft, Scanning, Done
  <1>2. Simulated(s)
    BY <1>1 DEF SimulatingAll, Simulating
  <1>3. h \in Commands /\ h \in Command /\ Len(h.cands) \in Nat /\ n \in Nat /\ v \in View
    <2>1. h \in Commands /\ h \in Command
      BY <1>1, CommandType DEF Phased
    <2>2. h.cands \in Seq(Candidate)
      BY <2>1 DEF Command
    <2>3. items[s] \in Seq(Item)
      BY DEF TypeOK
    <2> QED BY <1>2, <2>1, <2>2, <2>3 DEF Simulated, Done
  <1>4. SeenRestaurants(s) = v.restaurant /\ SeenRecords(s) = v.record
    <2>1. Base(s) = v /\ draft[s] = NoDraft
      BY <1>2 DEF Base, Simulated
    <2>2. \A t : Overlay(<< >>, t) = [k \in DOMAIN t |-> t[k]]
      BY DEF Overlay
    <2>3. v.restaurant = [k \in DOMAIN v.restaurant |-> v.restaurant[k]]
          /\ v.record = [k \in DOMAIN v.record |-> v.record[k]]
      BY <1>3 DEF View
    <2> QED BY <2>1, <2>2, <2>3 DEF SeenRestaurants, SeenRecords, NoDraft
  <1>5. CurrentVerdict(s) = Verdict(v.restaurant, v.record, planned[s], h, c)
        /\ Current(s) = c
    BY <1>4 DEF CurrentVerdict, Current, Done
  <1>6. PICK outcome, id :
           /\ Answer(s, outcome, id) /\ outcome = CurrentVerdict(s)
           /\ outcome \in Outcome /\ id \in Ids \cup {Null}
           /\ planned'[s] = IF outcome = "DRAFT_CREATED" THEN planned[s] \cup {Discovered(c)}
                                                         ELSE planned[s]
    <2>1. CASE SkipCandidate(s)
      BY <2>1 DEF SkipCandidate, Outcome
    <2>2. CASE StageCandidate(s)
      <3>1. LinkedTo(SeenRecords(s), Current(s).ref) \in Ids \cup {Null}
        BY <1>1, LinkedType, CurrentType
      <3> QED BY <2>2, <3>1 DEF StageCandidate, Outcome
    <2>3. CASE PlanDraft(s)
      <3>1. planned'[s] = planned[s] \cup {Discovered(c)}
        BY <1>5, <2>3 DEF PlanDraft, TypeOK
      <3>2. Answer(s, "DRAFT_CREATED", Null) /\ "DRAFT_CREATED" = CurrentVerdict(s)
            /\ "DRAFT_CREATED" \in Outcome
        BY <2>3 DEF PlanDraft, Outcome
      <3> QED BY <3>1, <3>2
    <2> QED BY <2>1, <2>2, <2>3
  <1> DEFINE item == [source |-> c.ref, outcome |-> outcome, restaurant |-> id]
  <1>7. item \in Item /\ items'[s] = Append(items[s], item)
    <2>1. c.ref \in Refs
      BY <1>1, <1>5, CurrentType
    <2>2. items'[s] = Append(items[s], item)
      BY <1>5, <1>6 DEF Answer, TypeOK
    <2> QED BY <1>6, <2>1, <2>2 DEF Item
  <1>8. Foretold(f[n], n, v, planned[s], items[s], h)
    BY <1>2 DEF Simulated
  <1>9. item.outcome = Verdict(v.restaurant, v.record, planned[s], h, c)
    BY <1>5, <1>6
  <1>10. planned'[s] = IF item.outcome = "DRAFT_CREATED" THEN planned[s] \cup {Discovered(c)}
                                                         ELSE planned[s]
    BY <1>6
  <1>11. f[n + 1] = Applied(f[n], h, n + 1)
    BY <1>1, <1>3, AloneIs
  <1>12. Done(s)' = n + 1
    <2>1. items[s] \in Seq(Item)
      BY DEF TypeOK
    <2> HIDE DEF item
    <2> QED BY <1>7, <2>1 DEF Done
  <1> HIDE DEF h, n, v, f, item
  <1>13. Foretold(Applied(f[n], h, n + 1), n + 1, v, planned'[s], Append(items[s], item), h)
    BY <1>1, <1>3, <1>7, <1>8, <1>9, <1>10, ForetoldStep
  <1>14. Foretold(f[n + 1], n + 1, v, planned'[s], items'[s], h)
    BY <1>7, <1>11, <1>13
  <1>15. op'[s].command = h /\ view'[s] = v /\ f = Alone(v, h)
    BY <1>1 DEF h, v, f
  <1>16. Foretold(Alone(view'[s], op'[s].command)[Done(s)'], Done(s)', view'[s], planned'[s],
                  items'[s], op'[s].command)
    BY <1>12, <1>14, <1>15
  <1>17. draft'[s] = NoDraft /\ view'[s] \in View /\ n + 1 <= Len(h.cands)
    BY <1>1, <1>2, <1>3 DEF Simulated, v
  <1>18. Simulated(s)'
    BY <1>1, <1>12, <1>15, <1>16, <1>17 DEF Simulated
  <1> QED BY <1>1, <1>18 DEF Simulating

LEMMA SimulatingNext ==
    TypeInv /\ Discipline /\ SimulatingAll /\ [Next]_vars => SimulatingAll'
  <1> SUFFICES ASSUME TypeOK, Phased, Discipline, SimulatingAll, [Next]_vars, NEW s \in Sessions
               PROVE  Simulating(s)'
    BY DEF TypeInv, SimulatingAll
  <1>0. Simulating(s)
    BY DEF SimulatingAll
  <1>1. ASSUME UNCHANGED session
        PROVE  Simulating(s)'
    BY <1>0, <1>1, SimulatingFrame DEF session
  <1>2. CASE UNCHANGED vars
    BY <1>1, <1>2 DEF vars
  <1>3. ASSUME NEW id \in Ids, NEW e \in Edits, UpdateRestaurant(id, e)
        PROVE  Simulating(s)'
    BY <1>1, <1>3 DEF UpdateRestaurant
  <1>4. ASSUME NEW t \in Sessions, t # s,
               (\E o \in Requests : Begin(t, o)) \/ AcquireLock(t) \/ ImportStep(t)
               \/ ManualStep(t) \/ Commit(t) \/ Reply(t) \/ Abort(t)
        PROVE  Simulating(s)'
    <2>1. /\ pc'[s] = pc[s] /\ op'[s] = op[s] /\ view'[s] = view[s]
          /\ planned'[s] = planned[s] /\ items'[s] = items[s] /\ draft'[s] = draft[s]
      <3>1. CASE (\E o \in Requests : Begin(t, o)) \/ AcquireLock(t) \/ ManualStep(t)
        BY <1>4, <3>1 DEF TypeOK, Begin, AcquireLock, ManualStep, CreateRestaurant,
                          LinkCandidate, Refuse, Rollback, EndSession
      <3>2. CASE ImportStep(t)
        BY <1>4, <3>2 DEF TypeOK, ImportStep, OpenSnapshot, Replay, StartScan, SkipCandidate,
                          StageCandidate, CreateDraft, PlanDraft, RecordRun, EndSimulation,
                          EndSession, Answer
      <3>3. CASE Commit(t) \/ Reply(t) \/ Abort(t)
        BY <1>4, <3>3 DEF TypeOK, Commit, Reply, Abort, Rollback, EndSession, Answer
      <3> QED BY <1>4, <3>1, <3>2, <3>3
    <2> QED BY <1>0, <2>1, SimulatingFrame
  <1>5. ASSUME NEW o \in Requests, Begin(s, o)
        PROVE  Simulating(s)'
    BY <1>0, <1>5 DEF Begin, Simulating, TypeOK
  <1>6. CASE AcquireLock(s)
    BY <1>6 DEF AcquireLock, Simulating, TypeOK
  <1>7. CASE OpenSnapshot(s)
    <2>1. /\ view'[s] = Committed /\ pc'[s] = "scanning" /\ pc[s] = "opening"
          /\ items'[s] = << >> /\ planned'[s] = {} /\ op' = op /\ draft' = draft
      BY <1>0, <1>7 DEF OpenSnapshot, TypeOK, Simulating
    <2>2. Committed \in View /\ lock # s
      BY <2>1 DEF Committed, View, TypeOK, Discipline, Holds
    <2>3. op[s].command \in Command
      BY <2>1, CommandType DEF Phased
    <2>4. Len(op[s].command.cands) \in Nat
      BY <2>3 DEF Command
    <2>5. Alone(Committed, op[s].command)[0] = Untouched(Committed)
      BY <2>4, AloneIs
    <2>6. Foretold(Alone(Committed, op[s].command)[0], 0, Committed, {}, << >>, op[s].command)
      BY <2>2, <2>5, ForetoldStart
    <2>7. Done(s)' = 0 /\ draft'[s] = NoDraft
      BY <2>1, <2>2 DEF Done, Discipline
    <2>8. Simulated(s)'
      BY <2>1, <2>2, <2>4, <2>6, <2>7 DEF Simulated
    <2> QED BY <2>1, <2>8 DEF Simulating
  <1>8. CASE Replay(s) \/ StartScan(s) \/ CreateDraft(s) \/ RecordRun(s)
             \/ CreateRestaurant(s) \/ LinkCandidate(s)
    <2>1. ~IsDry(s) /\ op'[s] = op[s] /\ pc'[s] \notin {"idle", "opening"}
      BY <1>8 DEF Phased, Replay, StartScan, CreateDraft, RecordRun, CreateRestaurant,
                  LinkCandidate, TypeOK, Scanning, Scanned, IsDry
    <2> QED BY <2>1 DEF Simulating, IsDry
  <1>9. CASE SkipCandidate(s) \/ StageCandidate(s) \/ PlanDraft(s)
    <2>1. CASE IsDry(s)
      BY <1>9, <2>1, SimulatedTurn
    <2>2. CASE ~IsDry(s)
      <3>1. op'[s] = op[s] /\ pc'[s] = "scanning"
        BY <1>9 DEF SkipCandidate, StageCandidate, PlanDraft, Scanning
      <3> QED BY <2>2, <3>1 DEF Simulating, IsDry
    <2> QED BY <2>1, <2>2
  <1>10. CASE EndSimulation(s)
    <2>1. /\ pc[s] = "scanning" /\ IsDry(s) /\ pc'[s] = "committing"
          /\ Done(s) = Len(op[s].command.cands)
          /\ UNCHANGED <<op, view, draft, planned, items>>
      BY <1>10 DEF EndSimulation, Scanned, TypeOK, Done
    <2>2. Simulated(s)
      BY <1>0, <2>1 DEF Simulating
    <2>3. Simulated(s)'
      BY <2>1, <2>2 DEF Simulated, Done
    <2> QED BY <2>1, <2>3 DEF Simulating
  <1>11. CASE Commit(s)
    <2>1. /\ pc[s] = "committing" /\ pc'[s] = "answered"
          /\ draft'[s] = NoDraft /\ UNCHANGED <<op, view, planned, items>>
      BY <1>11 DEF Commit, TypeOK
    <2>2. IsDry(s) => Simulated(s)
      BY <1>0, <2>1 DEF Simulating
    <2>3. Simulated(s) => Simulated(s)'
      BY <2>1 DEF Simulated, Done
    <2> QED BY <2>1, <2>2, <2>3 DEF Simulating, IsDry
  <1>12. CASE Reply(s) \/ Refuse(s) \/ Abort(s)
    <2>1. pc'[s] = "idle" /\ items'[s] = << >> /\ planned'[s] = {}
      BY <1>12 DEF Reply, Refuse, Abort, Rollback, EndSession, TypeOK
    <2> QED BY <2>1 DEF Simulating
  <1> QED
    BY <1>2, <1>3, <1>4, <1>5, <1>6, <1>7, <1>8, <1>9, <1>10, <1>11, <1>12
    DEF Next, ImportStep, ManualStep

(***************************************************************************)
(* A simulation answers what applying its command alone to the tables it   *)
(* read would answer, for every batch of candidates and whatever commits   *)
(* meanwhile.                                                              *)
(***************************************************************************)
THEOREM SimulationsForetell == Spec => []SimulationForetells
  <1>1. TypeInv /\ SimulatingAll => SimulationForetells
    <2> SUFFICES ASSUME TypeOK, SimulatingAll, NEW s \in Sessions, pc[s] = "answered", IsDry(s)
                 PROVE  [i \in 1..Len(items[s]) |-> items[s][i].outcome]
                          = AppliedAlone(view[s], op[s].command)
      BY DEF TypeInv, SimulationForetells
    <2>1. Simulated(s) /\ Done(s) = Len(op[s].command.cands)
      BY DEF SimulatingAll, Simulating, Simulated
    <2> QED BY <2>1 DEF Simulated, Foretold, AppliedAlone, Done
  <1> QED
    BY <1>1, TypeInit, TypeNext, DisciplineInit, DisciplineNext, SimulatingInit,
       SimulatingNext, PTL DEF Spec

-----------------------------------------------------------------------------
(***************************************************************************)
(* The tables as a session would leave them by committing now.             *)
(***************************************************************************)
Sheets(s)  == Overlay(draft[s].restaurant, restaurant)
Records(s) == Overlay(draft[s].record, record)
Entries(s) == audit \cup draft[s].audit

(***************************************************************************)
(* The sheets of a draft are new.                                          *)
(***************************************************************************)
FreshSheets ==
    \A s \in Sessions : \A id \in DOMAIN draft[s].restaurant :
        restaurant[id] = Null

(***************************************************************************)
(* What DraftsTraced, AuditTrail and UntouchedSheetsDistinct say, of any   *)
(* tables.                                                                 *)
(***************************************************************************)
Traced(sheets, records) ==
    /\ \A id \in Ids : sheets[id] # Null /\ sheets[id].origin # Null
          => LinkedTo(records, sheets[id].origin) = id
    /\ \A r \in Refs : LinkedTo(records, r) # Null
          => sheets[LinkedTo(records, r)] # Null

Entry(action, id, ref) == [action |-> action, resource |-> id, ref |-> ref]

Trailed(sheets, records, entries) ==
    /\ \A id \in Ids :
        /\ Entry("restaurant_created", id, Null) \in entries
              <=> sheets[id] # Null /\ sheets[id].origin = Null
        /\ Entry("restaurant_updated", id, Null) \in entries
              <=> sheets[id] # Null /\ sheets[id].version > 1
    /\ \A r \in OsmRefs, id \in Ids :
        /\ Entry("osm_candidate_linked", id, r) \in entries
              => LinkedTo(records, r) = id
        /\ LinkedTo(records, r) = id /\ sheets[id].origin # r
              => Entry("osm_candidate_linked", id, r) \in entries

Distinct(sheets) ==
    \A a, b \in Ids :
        (/\ a # b /\ sheets[a] # Null /\ sheets[b] # Null
         /\ sheets[a].version = 1 /\ sheets[b].version = 1)
        => ~Resembles(sheets[a], sheets[b])

Coherent(sheets, records, entries) ==
    /\ Traced(sheets, records)
    /\ Trailed(sheets, records, entries)
    /\ Distinct(sheets)

SheetTable == [Ids -> Restaurant \cup {Null}]
RecordTable == [Refs -> Record \cup {Null}]

(***************************************************************************)
(* An observation leaves the link of its source alone.                     *)
(***************************************************************************)
LEMMA CoherentObservation ==
    ASSUME NEW sheets \in SheetTable, NEW records \in RecordTable, NEW entries,
           Coherent(sheets, records, entries),
           NEW r \in Refs, NEW row \in Record,
           row.restaurant = LinkedTo(records, r)
    PROVE  Coherent(sheets, [records EXCEPT ![r] = row], entries)
  <1> DEFINE after == [records EXCEPT ![r] = row]
  <1>1. \A q \in Refs : LinkedTo(after, q) = LinkedTo(records, q)
    BY NullsAssumption DEF LinkedTo, RecordTable
  <1>2. \A id \in Ids : sheets[id] # Null => sheets[id].origin \in Refs \cup {Null}
    BY DEF SheetTable, Restaurant
  <1> HIDE DEF after
  <1>3. Traced(sheets, after)
    BY <1>1, <1>2 DEF Coherent, Traced
  <1>4. Trailed(sheets, after, entries)
    BY <1>1 DEF Coherent, Trailed, Refs
  <1> QED BY <1>3, <1>4 DEF Coherent, after

(***************************************************************************)
(* Two identities resemble each other both ways.                           *)
(***************************************************************************)
LEMMA ResemblesBothWays ==
    ASSUME NEW a \in Restaurant, NEW b \in Restaurant, Resembles(a, b)
    PROVE  Resembles(b, a)
  BY SymmetryAssumption DEF Resembles, Restaurant

(***************************************************************************)
(* A new sheet that resembles no other leaves the sheets distinct.         *)
(***************************************************************************)
LEMMA DistinctNewSheet ==
    ASSUME NEW sheets \in SheetTable, Distinct(sheets),
           NEW id \in Ids, NEW sheet \in Restaurant,
           \A other \in Ids : sheets[other] # Null
                => ~Resembles(sheet, sheets[other])
    PROVE  Distinct([sheets EXCEPT ![id] = sheet])
  <1> DEFINE after == [sheets EXCEPT ![id] = sheet]
  <1> SUFFICES ASSUME NEW a \in Ids, NEW b \in Ids, a # b,
                      after[a] # Null, after[b] # Null,
                      after[a].version = 1, after[b].version = 1,
                      Resembles(after[a], after[b])
               PROVE  FALSE
    BY DEF Distinct
  <1>1. /\ after[id] = sheet
        /\ \A other \in Ids \ {id} : after[other] = sheets[other]
        /\ after[a] \in Restaurant /\ after[b] \in Restaurant
    BY DEF SheetTable
  <1> HIDE DEF after
  <1>2. CASE a = id
    BY <1>1, <1>2
  <1>3. CASE b = id
    BY <1>1, <1>3, ResemblesBothWays
  <1>4. CASE a # id /\ b # id
    BY <1>1, <1>4 DEF Distinct
  <1> QED BY <1>2, <1>3, <1>4

(***************************************************************************)
(* A sheet drafted from an unlinked source, linked to it at once.          *)
(***************************************************************************)
LEMMA CoherentDraft ==
    ASSUME NEW sheets \in SheetTable, NEW records \in RecordTable, NEW entries,
           Coherent(sheets, records, entries),
           NEW id \in Ids, sheets[id] = Null,
           NEW r \in Refs, LinkedTo(records, r) = Null,
           NEW sheet \in Restaurant, sheet.origin = r, sheet.version = 1,
           NEW row \in Record, row.restaurant = id,
           \A other \in Ids : sheets[other] # Null
                => ~Resembles(sheet, sheets[other])
    PROVE  Coherent([sheets EXCEPT ![id] = sheet],
                    [records EXCEPT ![r] = row], entries)
  <1> DEFINE after == [sheets EXCEPT ![id] = sheet]
             linked == [records EXCEPT ![r] = row]
  <1> USE NullsAssumption
  <1>1. /\ LinkedTo(linked, r) = id
        /\ \A q \in Refs \ {r} : LinkedTo(linked, q) = LinkedTo(records, q)
    BY DEF LinkedTo, RecordTable
  <1>2. /\ after[id] = sheet /\ sheet # Null
        /\ \A other \in Ids \ {id} : after[other] = sheets[other]
    BY DEF SheetTable
  <1>3. \A other \in Ids : sheets[other] # Null
            => sheets[other].origin \in Refs \cup {Null}
    BY DEF SheetTable, Restaurant
  <1>4. \A q \in Refs : LinkedTo(records, q) \in Ids \cup {Null}
    BY DEF RecordTable, Record, LinkedTo
  <1>5. Distinct(after)
    BY DistinctNewSheet DEF Coherent
  <1> HIDE DEF after, linked
  <1>6. Traced(after, linked)
    BY <1>1, <1>2, <1>3, <1>4 DEF Coherent, Traced
  <1>7. Trailed(after, linked, entries)
    <2>1. ASSUME NEW other \in Ids
          PROVE  /\ Entry("restaurant_created", other, Null) \in entries
                      <=> after[other] # Null /\ after[other].origin = Null
                 /\ Entry("restaurant_updated", other, Null) \in entries
                      <=> after[other] # Null /\ after[other].version > 1
      BY <1>2 DEF Coherent, Trailed
    <2>2. ASSUME NEW q \in OsmRefs, NEW other \in Ids
          PROVE  /\ Entry("osm_candidate_linked", other, q) \in entries
                      => LinkedTo(linked, q) = other
                 /\ LinkedTo(linked, q) = other /\ after[other].origin # q
                      => Entry("osm_candidate_linked", other, q) \in entries
      BY <1>1, <1>2, <1>4 DEF Coherent, Trailed, Traced, Refs
    <2> QED BY <2>1, <2>2 DEF Trailed
  <1> QED BY <1>5, <1>6, <1>7 DEF Coherent, after, linked

(***************************************************************************)
(* A sheet created by hand, and the entry that says so.                    *)
(***************************************************************************)
LEMMA CoherentCreation ==
    ASSUME NEW sheets \in SheetTable, NEW records \in RecordTable, NEW entries,
           Coherent(sheets, records, entries),
           NEW id \in Ids, sheets[id] = Null,
           NEW sheet \in Restaurant, sheet.origin = Null, sheet.version = 1,
           \A other \in Ids : sheets[other] # Null
                => ~Resembles(sheet, sheets[other])
    PROVE  Coherent([sheets EXCEPT ![id] = sheet], records,
                    entries \cup {Entry("restaurant_created", id, Null)})
  <1> DEFINE after == [sheets EXCEPT ![id] = sheet]
             more == entries \cup {Entry("restaurant_created", id, Null)}
  <1> USE NullsAssumption
  <1>1. \A action \in {"restaurant_created", "restaurant_updated",
                       "osm_candidate_linked"} : \A other, ref :
            Entry(action, other, ref) \in more
            <=> \/ Entry(action, other, ref) \in entries
                \/ /\ action = "restaurant_created" 
                   /\ other = id /\ ref = Null
    BY DEF Entry
  <1>2. /\ after[id] = sheet /\ sheet # Null
        /\ \A other \in Ids \ {id} : after[other] = sheets[other]
    BY DEF SheetTable
  <1>3. \A q \in Refs : LinkedTo(records, q) \in Ids \cup {Null}
    BY DEF RecordTable, Record, LinkedTo
  <1>4. Distinct(after)
    BY DistinctNewSheet DEF Coherent
  <1> HIDE DEF after, more
  <1>5. Traced(after, records)
    BY <1>2, <1>3 DEF Coherent, Traced
  <1>6. Trailed(after, records, more)
    BY <1>1, <1>2, <1>3 DEF Coherent, Trailed, Traced, Refs
  <1> QED BY <1>4, <1>5, <1>6 DEF Coherent, after, more

(***************************************************************************)
(* A link by hand of a source that is unlinked, or linked to that sheet.   *)
(***************************************************************************)
LEMMA CoherentLink ==
    ASSUME NEW sheets \in SheetTable, NEW records \in RecordTable, NEW entries,
           Coherent(sheets, records, entries),
           NEW r \in OsmRefs, NEW id \in Ids, sheets[id] # Null,
           LinkedTo(records, r) \in {Null, id},
           NEW row \in Record, row.restaurant = id
    PROVE  Coherent(sheets, [records EXCEPT ![r] = row],
                    entries \cup {Entry("osm_candidate_linked", id, r)})
  <1> DEFINE linked == [records EXCEPT ![r] = row]
             more == entries \cup {Entry("osm_candidate_linked", id, r)}
  <1> USE NullsAssumption
  <1>1. \A action \in {"restaurant_created", "restaurant_updated",
                       "osm_candidate_linked"} : \A other, ref :
            Entry(action, other, ref) \in more
            <=> \/ Entry(action, other, ref) \in entries
                \/ /\ action = "osm_candidate_linked"
                   /\ other = id /\ ref = r
    BY DEF Entry
  <1>2. /\ LinkedTo(linked, r) = id /\ r \in Refs
        /\ \A q \in Refs \ {r} : LinkedTo(linked, q) = LinkedTo(records, q)
    BY DEF LinkedTo, RecordTable, Refs
  <1>3. \A other \in Ids : sheets[other] # Null
            => sheets[other].origin \in Refs \cup {Null}
    BY DEF SheetTable, Restaurant
  <1> HIDE DEF linked, more
  <1>4. Traced(sheets, linked)
    BY <1>2, <1>3 DEF Coherent, Traced
  <1>5. Trailed(sheets, linked, more)
    BY <1>1, <1>2 DEF Coherent, Trailed, Refs
  <1> QED BY <1>4, <1>5 DEF Coherent, linked, more

(***************************************************************************)
(* An edit: the version moves, the origin stays, the entry says so.        *)
(***************************************************************************)
LEMMA CoherentEdit ==
    ASSUME NEW sheets \in SheetTable, NEW records \in RecordTable, NEW entries,
           Coherent(sheets, records, entries),
           NEW id \in Ids, sheets[id] # Null,
           NEW sheet \in Restaurant, sheet.origin = sheets[id].origin,
           sheet.version = sheets[id].version + 1
    PROVE  Coherent([sheets EXCEPT ![id] = sheet], records,
                    entries \cup {Entry("restaurant_updated", id, Null)})
  <1> DEFINE after == [sheets EXCEPT ![id] = sheet]
             more == entries \cup {Entry("restaurant_updated", id, Null)}
  <1> USE NullsAssumption
  <1>1. \A action \in {"restaurant_created", "restaurant_updated",
                       "osm_candidate_linked"} : \A other, ref :
            Entry(action, other, ref) \in more
            <=> \/ Entry(action, other, ref) \in entries
                \/ /\ action = "restaurant_updated"
                   /\ other = id /\ ref = Null
    BY DEF Entry
  <1>2. /\ after[id] = sheet /\ sheet # Null
        /\ \A other \in Ids \ {id} : after[other] = sheets[other]
    BY DEF SheetTable
  <1>3. \A q \in Refs : LinkedTo(records, q) \in Ids \cup {Null}
    BY DEF RecordTable, Record, LinkedTo
  <1>4. sheet.version > 1
    BY RequestsAssumption DEF SheetTable, Restaurant
  <1> HIDE DEF after, more
  <1>5. Distinct(after)
    BY <1>2, <1>4 DEF Coherent, Distinct
  <1>6. Traced(after, records)
    BY <1>2, <1>3 DEF Coherent, Traced
  <1>7. Trailed(after, records, more)
    BY <1>1, <1>2, <1>3, <1>4 DEF Coherent, Trailed, Traced, Refs
  <1> QED BY <1>5, <1>6, <1>7 DEF Coherent, after, more

(***************************************************************************)
(* What a writer reads is what it would leave by committing.               *)
(***************************************************************************)
LEMMA SeenByWriter ==
    ASSUME NEW s \in Sessions, ~IsDry(s)
    PROVE  SeenRestaurants(s) = Sheets(s) /\ SeenRecords(s) = Records(s)
  BY DEF SeenRestaurants, SeenRecords, Sheets, Records, Base, Committed

(***************************************************************************)
(* The world of a session is typed as the tables are.                      *)
(***************************************************************************)
LEMMA WorldType ==
    ASSUME TypeOK, NEW s \in Sessions
    PROVE  /\ Sheets(s) \in SheetTable /\ Records(s) \in RecordTable
           /\ restaurant \in SheetTable /\ record \in RecordTable
  <1>1. /\ IsRows(draft[s].restaurant, Ids, Restaurant)
        /\ IsRows(draft[s].record, Refs, Record)
    BY DEF TypeOK, IsDraft
  <1> QED BY <1>1, OverlayType
          DEF TypeOK, Sheets, Records, SheetTable, RecordTable

(***************************************************************************)
(* Without a draft, a session would leave the tables as they are.          *)
(***************************************************************************)
LEMMA NothingOfItsOwn ==
    ASSUME TypeOK, NEW s \in Sessions, draft[s] = NoDraft
    PROVE  Sheets(s) = restaurant /\ Records(s) = record /\ Entries(s) = audit
  BY DEF TypeOK, NoDraft, Sheets, Records, Entries, Overlay

(***************************************************************************)
(* A row put into a draft is a row set in what its session would leave.    *)
(***************************************************************************)
LEMMA OverlayPut ==
    ASSUME TypeOK, NEW s \in Sessions, NEW row
    PROVE  /\ \A id \in Ids : Overlay(Put(draft[s].restaurant, id, row), restaurant)
                                = [Sheets(s) EXCEPT ![id] = row]
           /\ \A r \in Refs : Overlay(Put(draft[s].record, r, row), record)
                                = [Records(s) EXCEPT ![r] = row]
  BY DEF TypeOK, Sheets, Records, Overlay, Put

(***************************************************************************)
(* The steps that change no committed table, seen from the world of each   *)
(* session: only that of the holder of the lock changes.                   *)
(***************************************************************************)
LEMMA OthersUnmoved ==
    ASSUME NEW s \in Sessions, UNCHANGED tables,
           \A t \in Sessions \ {s} : draft'[t] = draft[t],
           NEW t \in Sessions \ {s}
    PROVE  /\ Sheets(t)' = Sheets(t) /\ Records(t)' = Records(t)
           /\ Entries(t)' = Entries(t)
  BY DEF Sheets, Records, Entries, tables

(***************************************************************************)
(* The invariant: the tables are coherent, and so are they as each session *)
(* would leave them by committing now.                                     *)
(***************************************************************************)
CoherentAll ==
    /\ Coherent(restaurant, record, audit)
    /\ \A s \in Sessions : Coherent(Sheets(s), Records(s), Entries(s))

LEMMA CoherentInit == Init => CoherentAll /\ FreshSheets
  <1> SUFFICES ASSUME Init PROVE CoherentAll /\ FreshSheets
    OBVIOUS
  <1>1. /\ \A id \in Ids : restaurant[id] = Null
        /\ \A r \in Refs : LinkedTo(record, r) = Null
        /\ audit = {}
    BY DEF Init, LinkedTo
  <1>2. Coherent(restaurant, record, audit)
    BY <1>1, NullsAssumption DEF Coherent, Traced, Trailed, Distinct, Refs
  <1>3. \A s \in Sessions : /\ draft[s] = NoDraft /\ Sheets(s) = restaurant
                            /\ Records(s) = record /\ Entries(s) = audit
    BY DEF Init, NoDraft, Sheets, Records, Entries, Overlay
  <1>4. CoherentAll
    BY <1>2, <1>3 DEF CoherentAll
  <1>5. FreshSheets
    BY <1>3 DEF FreshSheets, NoDraft
  <1> QED BY <1>4, <1>5

(***************************************************************************)
(* The identifier of a draft is taken while it is free, and only the       *)
(* holder of the lock drafts, so that no other commit takes it in between. *)
(***************************************************************************)
LEMMA FreshSheetsNext ==
    TypeInv /\ Discipline /\ FreshSheets /\ [Next]_vars => FreshSheets'
  <1> SUFFICES ASSUME TypeOK, Phased, Discipline, FreshSheets, [Next]_vars
               PROVE  FreshSheets'
    BY DEF TypeInv
  <1> USE DEF tables
  <1>1. CASE Quiet
    BY <1>1 DEF Quiet, FreshSheets
  <1>2. ASSUME NEW s \in Sessions, Dropped(s) PROVE FreshSheets'
    BY <1>2 DEF Dropped, FreshSheets, NoDraft, TypeOK
  <1>3. ASSUME NEW s \in Sessions, Observes(s) \/ Attaches(s) \/ Files(s)
        PROVE  FreshSheets'
    BY <1>3 DEF Observes, Attaches, Files, Grown, FreshSheets
  <1>4. ASSUME NEW s \in Sessions, NEW id \in Ids, Drafts(s, id) \/ Creates(s, id)
        PROVE  FreshSheets'
    <2>1. /\ restaurant' = restaurant /\ restaurant[id] = Null
          /\ DOMAIN draft'[s].restaurant = DOMAIN draft[s].restaurant \cup {id}
          /\ \A t \in Sessions \ {s} : draft'[t] = draft[t]
      BY <1>4 DEF Drafts, Creates, Grown, FreshIds, Put
    <2> QED BY <2>1 DEF FreshSheets
  <1>5. ASSUME NEW s \in Sessions, Settles(s) PROVE FreshSheets'
    BY <1>5 DEF Settles, FreshSheets, NoDraft
  <1>6. ASSUME NEW id \in Ids, NEW e \in Edits,
               UpdateRestaurant(id, e), UNCHANGED draft
        PROVE  FreshSheets'
    BY <1>6 DEF UpdateRestaurant, FreshSheets, TypeOK
  <1> QED BY <1>1, <1>2, <1>3, <1>4, <1>5, <1>6, StepCases

(***************************************************************************)
(* A growing draft changes the world of its session by the rows it adds.   *)
(***************************************************************************)
LEMMA GrownCoherent ==
    ASSUME CoherentAll, NEW s \in Sessions, UNCHANGED tables,
           \A t \in Sessions \ {s} : draft'[t] = draft[t],
           Coherent(Sheets(s)', Records(s)', Entries(s)')
    PROVE  CoherentAll'
  <1>1. Coherent(restaurant', record', audit')
    BY DEF CoherentAll, tables
  <1>2. ASSUME NEW t \in Sessions
        PROVE  Coherent(Sheets(t)', Records(t)', Entries(t)')
    BY <1>2, OthersUnmoved DEF CoherentAll
  <1> QED BY <1>1, <1>2 DEF CoherentAll

(***************************************************************************)
(* Every step keeps the worlds coherent: the draft of the holder of the    *)
(* lock grows by a row its checks allow, a commit makes its world the      *)
(* tables, and an edit moves the version of a sheet in every world.        *)
(***************************************************************************)
LEMMA CoherentNext ==
    /\ TypeInv /\ TypeOK' /\ Discipline /\ FreshSheets /\ CoherentAll
    /\ [Next]_vars
    => CoherentAll'
  <1> SUFFICES ASSUME TypeOK, Phased, TypeOK', Discipline, FreshSheets,
                      CoherentAll, [Next]_vars
               PROVE  CoherentAll'
    BY DEF TypeInv
  <1>1. CASE Quiet
    BY <1>1 DEF Quiet, CoherentAll, tables, Sheets, Records, Entries
  <1>2. ASSUME NEW s \in Sessions, Dropped(s) PROVE CoherentAll'
    <2>1. /\ UNCHANGED tables /\ draft'[s] = NoDraft
          /\ \A t \in Sessions \ {s} : draft'[t] = draft[t]
      BY <1>2 DEF Dropped, TypeOK
    <2>2. /\ Sheets(s)' = restaurant /\ Records(s)' = record
          /\ Entries(s)' = audit
      BY <2>1 DEF TypeOK, NoDraft, Sheets, Records, Entries, Overlay, tables
    <2> QED BY <2>1, <2>2, GrownCoherent DEF CoherentAll
  <1>3. ASSUME NEW s \in Sessions, Files(s) PROVE CoherentAll'
    <2>1. /\ UNCHANGED tables
          /\ \A t \in Sessions \ {s} : draft'[t] = draft[t]
          /\ Sheets(s)' = Sheets(s) /\ Records(s)' = Records(s)
          /\ Entries(s)' = Entries(s)
      BY <1>3 DEF Files, Grown, Sheets, Records, Entries, tables
    <2> QED BY <2>1, GrownCoherent DEF CoherentAll
  <1>4. ASSUME NEW s \in Sessions, Observes(s) PROVE CoherentAll'
    <2> DEFINE r == Current(s).ref
    <2>1. /\ UNCHANGED tables
          /\ \A t \in Sessions \ {s} : draft'[t] = draft[t]
          /\ Sheets(s)' = Sheets(s) /\ Entries(s)' = Entries(s)
          /\ Records(s)' = Overlay(Put(draft[s].record, r, Observation(s)), record)
      BY <1>4 DEF Observes, Grown, Sheets, Records, Entries, tables
    <2>2. r \in Refs /\ Observation(s) \in Record
      BY <1>4, CurrentType, ObservationType DEF Observes
    <2>3. Records(s)' = [Records(s) EXCEPT ![r] = Observation(s)]
      BY <2>1, <2>2, OverlayPut
    <2>4. Observation(s).restaurant = LinkedTo(Records(s), r)
      BY <1>4, SeenByWriter DEF Observes, Observation, Upserted, LinkedTo
    <2>5. Coherent(Sheets(s), [Records(s) EXCEPT ![r] = Observation(s)], Entries(s))
      BY <2>2, <2>4, WorldType, CoherentObservation DEF CoherentAll
    <2> QED BY <2>1, <2>3, <2>5, GrownCoherent
  <1>5. ASSUME NEW s \in Sessions, NEW id \in Ids, Drafts(s, id)
        PROVE  CoherentAll'
    <2> DEFINE r == Current(s).ref
               row == [Observation(s) EXCEPT !.restaurant = id]
               sheet == NewSheet(Discovered(Current(s)), r)
    <2>1. /\ UNCHANGED tables
          /\ \A t \in Sessions \ {s} : draft'[t] = draft[t]
          /\ Sheets(s)' = Overlay(Put(draft[s].restaurant, id, sheet), restaurant)
          /\ Records(s)' = Overlay(Put(draft[s].record, r, row), record)
          /\ Entries(s)' = Entries(s)
      BY <1>5 DEF Drafts, Grown, Sheets, Records, Entries, tables
    <2>2. /\ r \in Refs /\ sheet \in Restaurant
          /\ sheet.origin = r /\ sheet.version = 1
      BY <1>5, CurrentType, DraftedType, SheetType DEF Drafts, NewSheet
    <2>3. row \in Record /\ row.restaurant = id
      BY <1>5, ObservationType DEF Drafts, Record
    <2>4. Sheets(s)[id] = Null
      BY <1>5 DEF Drafts, FreshIds, Sheets, Overlay, TypeOK
    <2>5. /\ LinkedTo(Records(s), r) = Null
          /\ Discovered(Current(s)).name # Null
          /\ Duplicates(Sheets(s), Discovered(Current(s))) = {}
      BY <1>5, SeenByWriter DEF Drafts, CurrentVerdict, Verdict, Discovered
    <2>6. \A other \in Ids : Sheets(s)[other] # Null
              => ~Resembles(sheet, Sheets(s)[other])
      <3>1. DOMAIN Sheets(s) = Ids
        BY WorldType DEF SheetTable
      <3>2. \A x : Resembles(sheet, x) <=> Resembles(Discovered(Current(s)), x)
        BY DEF NewSheet, Resembles
      <3> QED BY <2>5, <3>1, <3>2 DEF Duplicates
    <2>7. /\ Sheets(s)' = [Sheets(s) EXCEPT ![id] = sheet]
          /\ Records(s)' = [Records(s) EXCEPT ![r] = row]
      <3> HIDE DEF r, sheet, row
      <3> QED BY <2>1, <2>2, OverlayPut
    <2> HIDE DEF r, sheet, row
    <2>8. Coherent([Sheets(s) EXCEPT ![id] = sheet],
                   [Records(s) EXCEPT ![r] = row], Entries(s))
      BY <2>2, <2>3, <2>4, <2>5, <2>6, WorldType, CoherentDraft DEF CoherentAll
    <2> QED BY <2>1, <2>7, <2>8, GrownCoherent
  <1>6. ASSUME NEW s \in Sessions, NEW id \in Ids, Creates(s, id)
        PROVE  CoherentAll'
    <2> DEFINE sheet == NewSheet(op[s].sheet, Null)
    <2>1. /\ UNCHANGED tables
          /\ \A t \in Sessions \ {s} : draft'[t] = draft[t]
          /\ Sheets(s)' = Overlay(Put(draft[s].restaurant, id, sheet), restaurant)
          /\ Records(s)' = Records(s)
          /\ Entries(s)' = Entries(s) \cup {Entry("restaurant_created", id, Null)}
      BY <1>6 DEF Creates, Grown, Sheets, Records, Entries, Entry, tables
    <2>2. op[s].sheet \in Identity /\ ~IsDry(s)
      BY <1>6, RequestsAssumption
      DEF Creates, Phased, ImportRequest, CreateRequest, LinkRequest, IsDry
    <2>3. sheet \in Restaurant /\ sheet.origin = Null /\ sheet.version = 1
      BY <2>2, SheetType DEF NewSheet
    <2>4. Sheets(s)[id] = Null
      BY <1>6 DEF Creates, FreshIds, Sheets, Overlay, TypeOK
    <2>5. \A other \in Ids : Sheets(s)[other] # Null
              => ~Resembles(sheet, Sheets(s)[other])
      <3>1. DOMAIN Sheets(s) = Ids
        BY WorldType DEF SheetTable
      <3>2. \A x : Resembles(sheet, x) <=> Resembles(op[s].sheet, x)
        BY DEF NewSheet, Resembles
      <3>3. Duplicates(Sheets(s), op[s].sheet) = {} /\ op[s].sheet.name # Null
        BY <1>6, <2>2, SeenByWriter, NullAssumption DEF Creates, Identity
      <3> QED BY <3>1, <3>2, <3>3 DEF Duplicates
    <2> HIDE DEF sheet
    <2>6. Sheets(s)' = [Sheets(s) EXCEPT ![id] = sheet]
      BY <2>1, OverlayPut
    <2>7. Coherent([Sheets(s) EXCEPT ![id] = sheet], Records(s),
                   Entries(s) \cup {Entry("restaurant_created", id, Null)})
      BY <2>3, <2>4, <2>5, WorldType, CoherentCreation DEF CoherentAll
    <2> QED BY <2>1, <2>6, <2>7, GrownCoherent
  <1>7. ASSUME NEW s \in Sessions, Attaches(s) PROVE CoherentAll'
    <2> DEFINE r == op[s].ref
               id == op[s].id
               row == [Records(s)[r] EXCEPT !.restaurant = id]
    <2>1. ~IsDry(s) /\ r \in OsmRefs /\ r \in Refs /\ id \in Ids
      BY <1>7, RequestsAssumption
      DEF Attaches, Phased, ImportRequest, CreateRequest, LinkRequest, IsDry, Refs
    <2>2. /\ UNCHANGED tables
          /\ \A t \in Sessions \ {s} : draft'[t] = draft[t]
          /\ Sheets(s)' = Sheets(s)
          /\ Records(s)' = Overlay(Put(draft[s].record, r, row), record)
          /\ Entries(s)' = Entries(s) \cup {Entry("osm_candidate_linked", id, r)}
      BY <1>7, <2>1, SeenByWriter
      DEF Attaches, Grown, Sheets, Records, Entries, Entry, tables
    <2>3. /\ Records(s)[r] # Null /\ Sheets(s)[id] # Null
          /\ LinkedTo(Records(s), r) \in {Null, id}
      BY <1>7, <2>1, SeenByWriter DEF Attaches, CanLink, LinkedTo
    <2>4. row \in Record /\ row.restaurant = id
      BY <2>1, <2>3, WorldType DEF RecordTable, Record
    <2> HIDE DEF row
    <2>5. Records(s)' = [Records(s) EXCEPT ![r] = row]
      BY <2>1, <2>2, OverlayPut
    <2>6. Coherent(Sheets(s), [Records(s) EXCEPT ![r] = row],
                   Entries(s) \cup {Entry("osm_candidate_linked", id, r)})
      BY <2>1, <2>3, <2>4, WorldType, CoherentLink DEF CoherentAll
    <2> QED BY <2>2, <2>5, <2>6, GrownCoherent
  <1>8. ASSUME NEW s \in Sessions, Settles(s) PROVE CoherentAll'
    <2>1. /\ restaurant' = Sheets(s) /\ record' = Records(s)
          /\ audit' = Entries(s)
      BY <1>8 DEF Settles, Sheets, Records, Entries, Overlay, TypeOK
    <2>2. \A t \in Sessions : /\ Sheets(t)' = restaurant' /\ Records(t)' = record'
                              /\ Entries(t)' = audit'
      BY <1>8 DEF Settles, Sheets, Records, Entries, Overlay, NoDraft, TypeOK
    <2> QED BY <2>1, <2>2 DEF CoherentAll
  <1>9. ASSUME NEW id \in Ids, NEW e \in Edits,
               UpdateRestaurant(id, e), UNCHANGED draft
        PROVE  CoherentAll'
    <2> DEFINE sheet == restaurant'[id]
    <2>1. /\ restaurant[id] # Null /\ restaurant' = [restaurant EXCEPT ![id] = sheet]
          /\ sheet \in Restaurant /\ sheet.origin = restaurant[id].origin
          /\ sheet.version = restaurant[id].version + 1
          /\ record' = record
          /\ audit' = audit \cup {Entry("restaurant_updated", id, Null)}
      <3>1. restaurant[id] \in Restaurant /\ e \in Identity
        BY <1>9, RequestsAssumption DEF UpdateRestaurant, TypeOK
      <3>2. sheet = [name |-> e.name, place |-> e.place, contacts |-> e.contacts,
                     origin |-> restaurant[id].origin,
                     version |-> restaurant[id].version + 1]
        BY <1>9 DEF UpdateRestaurant, TypeOK
      <3>3. restaurant[id].version < MaxVersion
        BY <1>9 DEF UpdateRestaurant
      <3>4. sheet \in Restaurant
        BY <3>1, <3>2, <3>3, RequestsAssumption DEF Restaurant, Identity
      <3>5. /\ restaurant[id] # Null /\ record' = record
            /\ restaurant' = [restaurant EXCEPT ![id] = sheet]
        BY <1>9, <3>2 DEF UpdateRestaurant, TypeOK
      <3>6. audit' = audit \cup {Entry("restaurant_updated", id, Null)}
        BY <1>9 DEF UpdateRestaurant, Entry
      <3> QED BY <3>2, <3>4, <3>5, <3>6
    <2> HIDE DEF sheet
    <2>2. Coherent(restaurant', record', audit')
      BY <2>1, CoherentEdit DEF CoherentAll, TypeOK, SheetTable, RecordTable
    <2>3. ASSUME NEW s \in Sessions
          PROVE  Coherent(Sheets(s)', Records(s)', Entries(s)')
      <3>1. id \notin DOMAIN draft[s].restaurant
        BY <2>1 DEF FreshSheets
      <3>2. Sheets(s)[id] = restaurant[id]
        BY <3>1 DEF Sheets, Overlay, TypeOK
      <3>3. Sheets(s)' = [Sheets(s) EXCEPT ![id] = sheet]
        BY <1>9, <2>1, <3>1 DEF Sheets, Overlay, TypeOK
      <3>4. /\ Records(s)' = Records(s)
            /\ Entries(s)' = Entries(s) \cup {Entry("restaurant_updated", id, Null)}
        BY <1>9, <2>1 DEF Records, Entries
      <3>5. Coherent([Sheets(s) EXCEPT ![id] = sheet], Records(s),
                     Entries(s) \cup {Entry("restaurant_updated", id, Null)})
        BY <2>1, <3>2, WorldType, CoherentEdit DEF CoherentAll
      <3> QED BY <3>3, <3>4, <3>5
    <2> QED BY <2>2, <2>3 DEF CoherentAll
  <1> QED
    BY <1>1, <1>2, <1>3, <1>4, <1>5, <1>6, <1>7, <1>8, <1>9, StepCases

(***************************************************************************)
(* The committed tables are coherent, hence the three properties.          *)
(***************************************************************************)
LEMMA CoherentAlways == Spec => []CoherentAll
  BY CoherentInit, TypeInit, TypeNext, DisciplineInit, DisciplineNext,
     FreshSheetsNext, CoherentNext, PTL DEF Spec, TypeInv

(***************************************************************************)
(* A drafted sheet is the one its source points to, and links point to     *)
(* sheets that exist.                                                      *)
(***************************************************************************)
THEOREM DraftsAreTraced == Spec => []DraftsTraced
  <1>1. CoherentAll => DraftsTraced
    BY DEF CoherentAll, Coherent, Traced, DraftsTraced, Exists
  <1> QED BY <1>1, CoherentAlways, PTL

(***************************************************************************)
(* The audit of creations, edits and links is exact.                       *)
(***************************************************************************)
THEOREM AuditIsExact == Spec => []AuditTrail
  <1>1. CoherentAll => AuditTrail
    BY DEF CoherentAll, Coherent, Trailed, Entry, AuditTrail, Audited, Exists
  <1> QED BY <1>1, CoherentAlways, PTL

(***************************************************************************)
(* Sheets nobody edited do not resemble each other.                        *)
(***************************************************************************)
THEOREM UntouchedAreDistinct == Spec => []UntouchedSheetsDistinct
  <1>1. CoherentAll => UntouchedSheetsDistinct
    BY DEF CoherentAll, Coherent, Distinct, UntouchedSheetsDistinct, Exists
  <1> QED BY <1>1, CoherentAlways, PTL

(***************************************************************************)
(* A committed sheet changes by an edit only, which moves its version: a   *)
(* transaction settles new sheets only.                                    *)
(***************************************************************************)
LEMMA EditStep ==
    TypeInv /\ Discipline /\ FreshSheets /\ [Next]_vars
    => \A id \in Ids : Exists(id) =>
          /\ restaurant'[id] # Null
          /\ restaurant'[id] # restaurant[id]
                => /\ restaurant'[id].version = restaurant[id].version + 1
                   /\ restaurant'[id].origin = restaurant[id].origin
  <1> SUFFICES ASSUME TypeOK, Phased, Discipline, FreshSheets, [Next]_vars,
                      NEW id \in Ids, restaurant[id] # Null
               PROVE  /\ restaurant'[id] # Null
                      /\ restaurant'[id] # restaurant[id]
                          => /\ restaurant'[id].version = restaurant[id].version + 1
                             /\ restaurant'[id].origin = restaurant[id].origin
    BY DEF TypeInv, Exists
  <1>1. ASSUME NEW s \in Sessions, Settles(s)
        PROVE  restaurant'[id] = restaurant[id]
    BY <1>1 DEF Settles, FreshSheets
  <1>2. ASSUME NEW other \in Ids, NEW e \in Edits, UpdateRestaurant(other, e)
        PROVE  /\ restaurant'[id] # Null
               /\ restaurant'[id] # restaurant[id]
                    => /\ restaurant'[id].version = restaurant[id].version + 1
                       /\ restaurant'[id].origin = restaurant[id].origin
    <2> DEFINE sheet == [name |-> e.name, place |-> e.place,
                         contacts |-> e.contacts,
                         origin |-> restaurant[other].origin,
                         version |-> restaurant[other].version + 1]
    <2>1. restaurant' = [restaurant EXCEPT ![other] = sheet]
      BY <1>2 DEF UpdateRestaurant
    <2>2. sheet \in Restaurant
      <3>1. restaurant[other] \in Restaurant /\ e \in Identity
        BY <1>2, RequestsAssumption DEF UpdateRestaurant, TypeOK
      <3>2. restaurant[other].version < MaxVersion
        BY <1>2 DEF UpdateRestaurant
      <3> QED BY <3>1, <3>2, RequestsAssumption DEF Restaurant, Identity
    <2>3. sheet # Null
      BY <2>2, NullsAssumption
    <2>4. /\ sheet.version = restaurant[other].version + 1
          /\ sheet.origin = restaurant[other].origin
      OBVIOUS
    <2> HIDE DEF sheet
    <2> QED BY <2>1, <2>3, <2>4 DEF TypeOK
  <1>3. CASE restaurant' = restaurant
    BY <1>3
  <1> QED
    BY <1>1, <1>2, <1>3, StepCases
    DEF Quiet, Dropped, Observes, Attaches, Files, Drafts, Creates, Grown, tables

(***************************************************************************)
(* No import, creation or link changes a sheet that exists: only an edit   *)
(* does, and each edit adds one to the version.                            *)
(***************************************************************************)
THEOREM EditsOnlyByVersion == Spec => SheetsChangeByEdit
  BY CoherentInit, TypeInit, TypeNext, DisciplineInit, DisciplineNext,
     FreshSheetsNext, EditStep, PTL DEF Spec, SheetsChangeByEdit

-----------------------------------------------------------------------------
(***************************************************************************)
(* An uncommitted observation of an OSM element is not older than the      *)
(* committed one.                                                          *)
(***************************************************************************)
NotBefore(row, known) ==
    /\ row # Null
    /\ row.snapshot >= known.snapshot
    /\ known.version # Null => row.version # Null /\ row.version >= known.version

Advancing ==
    \A s \in Sessions : \A r \in OsmRefs :
        record[r] # Null => NotBefore(Records(s)[r], record[r])

(***************************************************************************)
(* An observation is not older than itself, and an order of observations   *)
(* may be taken in two steps.                                              *)
(***************************************************************************)
LEMMA NotBeforeSelf ==
    ASSUME NEW row \in Record PROVE NotBefore(row, row)
  BY NullsAssumption DEF NotBefore, Record

LEMMA NotBeforeLonger ==
    ASSUME NEW a \in Record, NEW b \in Record, NEW c \in Record,
           NotBefore(b, a), NotBefore(c, b)
    PROVE  NotBefore(c, a)
  BY NullsAssumption DEF NotBefore, Record

(***************************************************************************)
(* A candidate the scan does not skip is not older than what it replaces.  *)
(***************************************************************************)
LEMMA ObservationAdvances ==
    ASSUME TypeOK, Phased, NEW s \in Sessions, Scanning(s), ~IsDry(s),
           CurrentVerdict(s) \notin {"OUTSIDE_ZONE", "STALE_SOURCE"},
           Current(s).ref \in OsmRefs, Records(s)[Current(s).ref] # Null
    PROVE  NotBefore(Observation(s), Records(s)[Current(s).ref])
  <1> DEFINE known == Records(s)[Current(s).ref]
             c == Current(s)
             h == op[s].command
  <1>1. /\ h \in Commands /\ h \in Command /\ c \in Candidate /\ c.ref \in Refs
    BY CommandType, CurrentType DEF Scanning, Phased
  <1>2. known \in Record
    BY <1>1, WorldType DEF RecordTable
  <1>3. h.kind = "osm"
    <2>1. Len(items[s]) + 1 \in 1..Len(h.cands)
      BY <1>1 DEF Scanning, TypeOK, Command
    <2>2. c = h.cands[Len(items[s]) + 1]
      BY DEF Current
    <2>3. c.ref \in IF h.kind = "osm" THEN OsmRefs ELSE SiteRefs
      BY <1>1, <2>1, <2>2, CommandsAssumption
    <2> QED BY <2>3, DisjointAssumption
  <1>4. SeenRecords(s) = Records(s)
    BY SeenByWriter
  <1>5. ~Stale(known, h, c)
    BY <1>3, <1>4 DEF CurrentVerdict, Verdict
  <1>6. Observation(s) = Upserted(known, h, c)
    BY <1>4 DEF Observation
  <1> HIDE DEF known, c, h
  <1>7. /\ known # Null /\ known.snapshot <= h.snapshot
        /\ known.version # Null => c.version # Null /\ c.version >= known.version
    BY <1>1, <1>2, <1>5, NullsAssumption DEF Stale, Record, Command, Candidate
  <1>8. /\ Observation(s) # Null /\ Observation(s).snapshot = h.snapshot
        /\ c.version # Null => Observation(s).version = c.version
    BY <1>6, ObservationType, NullsAssumption DEF Upserted
  <1> QED BY <1>1, <1>2, <1>7, <1>8 DEF NotBefore, Record, Command, known

(***************************************************************************)
(* One row set in the world of a session, not older than the one it hides. *)
(***************************************************************************)
LEMMA AdvancingRow ==
    ASSUME TypeOK, Advancing, NEW s \in Sessions, UNCHANGED tables,
           \A t \in Sessions \ {s} : draft'[t] = draft[t],
           NEW r \in Refs, NEW row \in Record,
           Records(s)' = [Records(s) EXCEPT ![r] = row],
           r \in OsmRefs /\ Records(s)[r] # Null => NotBefore(row, Records(s)[r])
    PROVE  Advancing'
  <1> SUFFICES ASSUME NEW t \in Sessions, NEW q \in OsmRefs, record[q] # Null
               PROVE  NotBefore(Records(t)'[q], record[q])
    BY DEF Advancing, tables
  <1>1. CASE t # s
    BY <1>1, OthersUnmoved DEF Advancing
  <1>2. CASE t = s /\ q # r
    BY <1>2, WorldType DEF Advancing, RecordTable, Refs
  <1>3. CASE t = s /\ q = r
    <2>1. Records(s)'[q] = row
      BY <1>3, WorldType DEF RecordTable
    <2>2. NotBefore(Records(s)[r], record[r])
      BY <1>3 DEF Advancing
    <2>3. Records(s)[r] \in Record /\ record[r] \in Record
      BY <1>3, <2>2, WorldType DEF NotBefore, RecordTable
    <2>4. NotBefore(row, Records(s)[r])
      BY <1>3, <2>2 DEF NotBefore
    <2> QED BY <1>3, <2>1, <2>2, <2>3, <2>4, NotBeforeLonger
  <1> QED BY <1>1, <1>2, <1>3

(***************************************************************************)
(* An observation in a draft is not older than the one in the table: the   *)
(* scan stages nothing that Stale refuses, and nobody else writes records. *)
(***************************************************************************)
LEMMA AdvancingNext ==
    TypeInv /\ TypeOK' /\ Discipline /\ Advancing /\ [Next]_vars => Advancing'
  <1> SUFFICES ASSUME TypeOK, Phased, TypeOK', Discipline, Advancing, [Next]_vars
               PROVE  Advancing'
    BY DEF TypeInv
  <1>0. \A r \in OsmRefs : record[r] # Null => NotBefore(record[r], record[r])
    BY NotBeforeSelf DEF TypeOK, Refs
  <1>1. ASSUME UNCHANGED record,
               \A t \in Sessions : Records(t)' = Records(t) \/ Records(t)' = record
        PROVE  Advancing'
    BY <1>0, <1>1 DEF Advancing
  <1>2. CASE Quiet
    BY <1>1, <1>2 DEF Quiet, Records, tables
  <1>3. ASSUME NEW s \in Sessions, Dropped(s) PROVE Advancing'
    <2>1. \A t \in Sessions \ {s} : Records(t)' = Records(t)
      BY <1>3 DEF Dropped, TypeOK, Records, tables
    <2>2. Records(s)' = record
      BY <1>3 DEF Dropped, TypeOK, Records, Overlay, NoDraft, tables
    <2> QED BY <1>1, <1>3, <2>1, <2>2 DEF Dropped, tables
  <1>4. ASSUME NEW s \in Sessions,
               Files(s) \/ \E id \in Ids : Creates(s, id)
        PROVE  Advancing'
    <2>1. \A t \in Sessions : Records(t)' = Records(t)
      BY <1>4 DEF Files, Creates, Grown, Records, tables
    <2> QED BY <1>1, <1>4, <2>1 DEF Files, Creates, Grown, tables
  <1>5. ASSUME NEW s \in Sessions, Observes(s) PROVE Advancing'
    <2> DEFINE r == Current(s).ref
    <2>1. r \in Refs /\ Observation(s) \in Record
      BY <1>5, CurrentType, ObservationType DEF Observes
    <2>2. Records(s)' = Overlay(Put(draft[s].record, r, Observation(s)), record)
      BY <1>5 DEF Observes, Grown, Records, tables
    <2>3. Records(s)' = [Records(s) EXCEPT ![r] = Observation(s)]
      BY <2>1, <2>2, OverlayPut
    <2>4. r \in OsmRefs /\ Records(s)[r] # Null
            => NotBefore(Observation(s), Records(s)[r])
      BY <1>5, ObservationAdvances DEF Observes
    <2>5. /\ UNCHANGED tables
          /\ \A t \in Sessions \ {s} : draft'[t] = draft[t]
      BY <1>5 DEF Observes, Grown
    <2> QED BY <2>1, <2>3, <2>4, <2>5, AdvancingRow
  <1>6. ASSUME NEW s \in Sessions, NEW id \in Ids, Drafts(s, id)
        PROVE  Advancing'
    <2> DEFINE r == Current(s).ref
               row == [Observation(s) EXCEPT !.restaurant = id]
    <2>1. r \in Refs /\ Observation(s) \in Record
      BY <1>6, CurrentType, ObservationType DEF Drafts
    <2>2. /\ row \in Record /\ row.snapshot = Observation(s).snapshot
          /\ row.version = Observation(s).version
      BY <2>1 DEF Record
    <2>3. Records(s)' = Overlay(Put(draft[s].record, r, row), record)
      BY <1>6 DEF Drafts, Grown, Records, tables
    <2>4. r \in OsmRefs /\ Records(s)[r] # Null
            => NotBefore(Observation(s), Records(s)[r])
      BY <1>6, ObservationAdvances DEF Drafts
    <2>5. /\ UNCHANGED tables
          /\ \A t \in Sessions \ {s} : draft'[t] = draft[t]
      BY <1>6 DEF Drafts, Grown
    <2> HIDE DEF r, row
    <2>6. Records(s)' = [Records(s) EXCEPT ![r] = row]
      BY <2>1, <2>3, OverlayPut
    <2>7. r \in OsmRefs /\ Records(s)[r] # Null => NotBefore(row, Records(s)[r])
      BY <2>2, <2>4, NullsAssumption DEF NotBefore
    <2> QED BY <2>1, <2>2, <2>5, <2>6, <2>7, AdvancingRow
  <1>7. ASSUME NEW s \in Sessions, Attaches(s) PROVE Advancing'
    <2> DEFINE r == op[s].ref
               row == [Records(s)[r] EXCEPT !.restaurant = op[s].id]
    <2>1. ~IsDry(s) /\ r \in Refs /\ op[s].id \in Ids
      BY <1>7, RequestsAssumption
      DEF Attaches, Phased, ImportRequest, CreateRequest, LinkRequest, IsDry, Refs
    <2>2. Records(s)[r] \in Record
      BY <1>7, <2>1, SeenByWriter, WorldType DEF Attaches, CanLink, RecordTable
    <2>3. /\ row \in Record /\ row.snapshot = Records(s)[r].snapshot
          /\ row.version = Records(s)[r].version
      BY <2>1, <2>2 DEF Record
    <2>4. /\ UNCHANGED tables
          /\ \A t \in Sessions \ {s} : draft'[t] = draft[t]
          /\ Records(s)' = Overlay(Put(draft[s].record, r, row), record)
      BY <1>7, <2>1, SeenByWriter DEF Attaches, Grown, Records, tables
    <2> HIDE DEF row
    <2>5. Records(s)' = [Records(s) EXCEPT ![r] = row]
      BY <2>1, <2>4, OverlayPut
    <2>6. NotBefore(row, Records(s)[r])
      BY <2>2, <2>3, NullsAssumption DEF NotBefore, Record
    <2> QED BY <2>1, <2>3, <2>4, <2>5, <2>6, AdvancingRow
  <1>8. ASSUME NEW s \in Sessions, Settles(s) PROVE Advancing'
    <2>1. \A t \in Sessions : Records(t)' = record'
      BY <1>8 DEF Settles, Records, Overlay, NoDraft, TypeOK
    <2>2. \A r \in OsmRefs : record'[r] # Null => NotBefore(record'[r], record'[r])
      BY NotBeforeSelf DEF TypeOK, Refs
    <2> QED BY <2>1, <2>2 DEF Advancing
  <1>9. ASSUME NEW id \in Ids, NEW e \in Edits,
               UpdateRestaurant(id, e), UNCHANGED draft
        PROVE  Advancing'
    BY <1>1, <1>9 DEF UpdateRestaurant, Records
  <1> QED
    BY <1>2, <1>3, <1>4, <1>5, <1>6, <1>7, <1>8, <1>9, StepCases

(***************************************************************************)
(* A step leaves the committed observations or settles those of a draft.   *)
(***************************************************************************)
LEMMA AdvanceStep ==
    TypeInv /\ Discipline /\ Advancing /\ [Next]_vars
    => \A r \in OsmRefs : record[r] # Null =>
          /\ record'[r] # Null
          /\ record'[r].snapshot >= record[r].snapshot
          /\ record[r].version # Null =>
                /\ record'[r].version # Null
                /\ record'[r].version >= record[r].version
  <1> SUFFICES ASSUME TypeOK, Phased, Discipline, Advancing, [Next]_vars,
                      NEW r \in OsmRefs, record[r] # Null
               PROVE  NotBefore(record'[r], record[r])
    BY DEF TypeInv, NotBefore
  <1>1. record[r] \in Record /\ r \in Refs
    BY DEF TypeOK, Refs
  <1>2. ASSUME NEW s \in Sessions, Settles(s)
        PROVE  record'[r] = Records(s)[r]
    BY <1>1, <1>2 DEF Settles, Records, Overlay, TypeOK
  <1>3. CASE record' = record
    BY <1>1, <1>3, NotBeforeSelf
  <1> QED
    BY <1>2, <1>3, StepCases
    DEF Quiet, Dropped, Observes, Attaches, Files, Drafts, Creates, Grown,
        UpdateRestaurant, Advancing, tables

(***************************************************************************)
(* The observation of an OSM element never goes back.                      *)
(***************************************************************************)
THEOREM SourcesOnlyAdvance == Spec => SourceMonotone
  <1>1. Init => Advancing
    BY DEF Init, Advancing, Refs
  <1> QED
    BY <1>1, TypeInit, TypeNext, DisciplineInit, DisciplineNext, AdvancingNext,
       AdvanceStep, PTL DEF Spec, TypeInv, SourceMonotone

-----------------------------------------------------------------------------
(***************************************************************************)
(* What a session that imports has done about the result of its command.   *)
(***************************************************************************)
FiledBy(s) ==
    /\ pc[s] \in {"idle", "locking", "locked", "opening"}
        => draft[s] = NoDraft /\ items[s] = << >> /\ ~replayed[s]
    /\ pc[s] = "scanning" => DOMAIN draft[s].run = {} /\ ~replayed[s]
    /\ \A h \in DOMAIN draft[s].run : importRun[h] = Null
    /\ (pc[s] = "committing" /\ op[s].kind = "import" /\ ~IsDry(s))
        => /\ items[s] = IF op[s].command \in DOMAIN draft[s].run
                         THEN draft[s].run[op[s].command]
                         ELSE importRun[op[s].command]
           /\ replayed[s] \/ op[s].command \in DOMAIN draft[s].run
    /\ (pc[s] = "answered" /\ op[s].kind = "import" /\ ~IsDry(s))
        => importRun[op[s].command] = items[s]

Filed == OneFreshAnswer /\ \A s \in Sessions : FiledBy(s)

(***************************************************************************)
(* Whoever answers a fresh import has filed its result: the phases of a    *)
(* session, step by step.                                                  *)
(***************************************************************************)
LEMMA FiledInit == Init => Filed
  BY EmptyRows DEF Init, Filed, FiledBy, OneFreshAnswer, NoDraft

(***************************************************************************)
(* A step of one session that files nothing and gives no fresh answer.     *)
(***************************************************************************)
LEMMA FiledAlone ==
    ASSUME TypeOK, Filed, NEW s \in Sessions, importRun' = importRun,
           \A t \in Sessions \ {s} :
                /\ pc'[t] = pc[t] /\ op'[t] = op[t] /\ draft'[t] = draft[t]
                /\ items'[t] = items[t] /\ replayed'[t] = replayed[t],
           pc'[s] # "answered" \/ IsDry(s)' \/ op'[s].kind # "import",
           FiledBy(s)'
    PROVE  Filed'
  <1>1. ASSUME NEW t \in Sessions PROVE FiledBy(t)'
    <2>1. CASE t = s
      BY <2>1
    <2>2. CASE t # s
      BY <2>2 DEF Filed, FiledBy, IsDry
    <2> QED BY <2>1, <2>2
  <1>2. OneFreshAnswer'
    <2> SUFFICES ASSUME NEW a \in Sessions, NEW b \in Sessions, a # b,
                        pc'[a] = "answered", pc'[b] = "answered",
                        op'[a] = op'[b], op'[a].kind = "import", ~IsDry(a)'
                 PROVE  replayed'[a] \/ replayed'[b]
      BY DEF OneFreshAnswer
    <2>1. a # s /\ b # s
      BY DEF IsDry
    <2> QED BY <2>1 DEF Filed, OneFreshAnswer, IsDry
  <1> QED BY <1>1, <1>2 DEF Filed

LEMMA FiledNext ==
    TypeInv /\ Discipline /\ Filed /\ [Next]_vars => Filed'
  <1> SUFFICES ASSUME TypeOK, Phased, Discipline, Filed, [Next]_vars
               PROVE  Filed'
    BY DEF TypeInv
  <1> USE DEF tables, session
  <1>0. DOMAIN NoDraft.run = {}
    BY EmptyRows DEF NoDraft
  <1>1. ASSUME NEW s \in Sessions,
               \/ \E o \in Requests : Begin(s, o)
               \/ AcquireLock(s) \/ OpenSnapshot(s) \/ StartScan(s)
        PROVE  Filed'
    <2>1. FiledBy(s)'
      BY <1>0, <1>1 DEF Filed, FiledBy, TypeOK, Begin, AcquireLock, OpenSnapshot,
                  StartScan
    <2>2. /\ importRun' = importRun /\ pc'[s] # "answered"
          /\ \A t \in Sessions \ {s} :
                /\ pc'[t] = pc[t] /\ op'[t] = op[t] /\ draft'[t] = draft[t]
                /\ items'[t] = items[t] /\ replayed'[t] = replayed[t]
      BY <1>1 DEF TypeOK, Begin, AcquireLock, OpenSnapshot, StartScan
    <2> QED BY <2>1, <2>2, FiledAlone
  <1>2. ASSUME NEW s \in Sessions, Replay(s) PROVE Filed'
    <2>1. FiledBy(s)'
      BY <1>0, <1>2 DEF Filed, FiledBy, TypeOK, Replay, IsDry
    <2>2. /\ importRun' = importRun /\ pc'[s] # "answered"
          /\ \A t \in Sessions \ {s} :
                /\ pc'[t] = pc[t] /\ op'[t] = op[t] /\ draft'[t] = draft[t]
                /\ items'[t] = items[t] /\ replayed'[t] = replayed[t]
      BY <1>2 DEF TypeOK, Replay
    <2> QED BY <2>1, <2>2, FiledAlone
  <1>3. ASSUME NEW s \in Sessions,
               \/ SkipCandidate(s) \/ StageCandidate(s)
               \/ CreateDraft(s) \/ PlanDraft(s)
        PROVE  Filed'
    <2>1. /\ pc[s] = "scanning" /\ pc'[s] = "scanning" /\ IsDraft(draft[s])
          /\ importRun' = importRun /\ replayed' = replayed /\ op' = op
      BY <1>3 DEF SkipCandidate, StageCandidate, CreateDraft, PlanDraft,
                  Scanning, TypeOK
    <2>2. /\ \A t \in Sessions \ {s} :
                /\ pc'[t] = pc[t] /\ draft'[t] = draft[t]
                /\ items'[t] = items[t]
      BY <1>3 DEF SkipCandidate, StageCandidate, CreateDraft, PlanDraft,
                  Answer, TypeOK
    <2>3. draft'[s].run = draft[s].run
      <3>1. CASE \/ SkipCandidate(s) \/ PlanDraft(s)
                 \/ StageCandidate(s) /\ IsDry(s)
        BY <3>1 DEF SkipCandidate, PlanDraft, StageCandidate
      <3>2. CASE StageCandidate(s) /\ ~IsDry(s)
        <4>1. draft'[s] = WithRecord(draft[s], Current(s).ref, Observation(s))
          BY <3>2 DEF StageCandidate, TypeOK
        <4> QED BY <2>1, <4>1, Fields
      <3>3. CASE CreateDraft(s)
        BY <3>3, CreateDraftGrows DEF Drafts, Grown
      <3> QED BY <1>3, <3>1, <3>2, <3>3
    <2>4. FiledBy(s)'
      BY <2>1, <2>3 DEF Filed, FiledBy
    <2> QED BY <2>1, <2>2, <2>4, FiledAlone
  <1>4. ASSUME NEW s \in Sessions, RecordRun(s) PROVE Filed'
    <2>1. /\ pc[s] = "scanning" /\ pc'[s] = "committing" /\ IsDraft(draft[s])
          /\ draft'[s] = WithRun(draft[s], op[s].command, items[s])
          /\ op' = op /\ items' = items /\ importRun' = importRun
          /\ importRun[op[s].command] = Null
      BY <1>4 DEF RecordRun, Scanned, TypeOK
    <2>2. draft'[s].run = Put(draft[s].run, op[s].command, items[s])
      BY <2>1, Fields
    <2>3. /\ DOMAIN draft'[s].run = {op[s].command}
          /\ draft'[s].run[op[s].command] = items[s]
      BY <2>1, <2>2 DEF Filed, FiledBy, Put
    <2>4. FiledBy(s)'
      BY <2>1, <2>3 DEF FiledBy, IsDry
    <2>5. \A t \in Sessions \ {s} :
                /\ pc'[t] = pc[t] /\ draft'[t] = draft[t]
                /\ replayed'[t] = replayed[t]
      BY <1>4 DEF RecordRun, TypeOK
    <2> QED BY <2>1, <2>4, <2>5, FiledAlone
  <1>5. ASSUME NEW s \in Sessions, EndSimulation(s) PROVE Filed'
    <2>1. /\ pc[s] = "scanning" /\ pc'[s] # "answered" /\ IsDry(s) /\ IsDry(s)'
          /\ pc'[s] \in {"committing", "answered"}
          /\ draft' = draft /\ importRun' = importRun
          /\ \A t \in Sessions \ {s} :
                /\ pc'[t] = pc[t] /\ op'[t] = op[t]
                /\ items'[t] = items[t] /\ replayed'[t] = replayed[t]
      BY <1>5 DEF EndSimulation, Scanned, TypeOK, IsDry
    <2>2. FiledBy(s)'
      BY <2>1 DEF Filed, FiledBy
    <2> QED BY <2>1, <2>2, FiledAlone
  <1>6. ASSUME NEW s \in Sessions, CreateRestaurant(s) \/ LinkCandidate(s)
        PROVE  Filed'
    <2>1. /\ pc[s] = "locked" /\ pc'[s] = "committing"
          /\ importRun' = importRun /\ op' = op /\ op[s].kind # "import"
          /\ \A t \in Sessions \ {s} :
                /\ pc'[t] = pc[t] /\ draft'[t] = draft[t]
                /\ items'[t] = items[t] /\ replayed'[t] = replayed[t]
      BY <1>6 DEF CreateRestaurant, LinkCandidate, TypeOK
    <2>2. draft'[s].run = draft[s].run
      BY <1>6, CreateRestaurantGrows, LinkCandidateGrows
      DEF Creates, Attaches, Grown
    <2> QED BY <2>1, <2>2, FiledAlone DEF Filed, FiledBy
  <1>7. ASSUME NEW s \in Sessions, Commit(s) PROVE Filed'
    <2>1. /\ pc[s] = "committing" /\ pc'[s] = "answered" /\ draft'[s] = NoDraft
          /\ \A h \in Commands : importRun'[h] =
                IF h \in DOMAIN draft[s].run THEN draft[s].run[h] ELSE importRun[h]
          /\ op' = op /\ items' = items /\ replayed' = replayed
          /\ \A t \in Sessions \ {s} : pc'[t] = pc[t] /\ draft'[t] = draft[t]
      BY <1>7 DEF Commit, Overlay, TypeOK
    <2>2. CASE IsDry(s)
      <3>1. draft[s] = NoDraft
        BY <1>7, <2>2, NullsAssumption DEF Discipline, Holds, Commit
      <3>2. importRun' = importRun
        BY <1>0, <1>7, <3>1 DEF Commit, Overlay, TypeOK
      <3>3. FiledBy(s)'
        BY <1>0, <2>1, <2>2 DEF FiledBy, IsDry
      <3> QED BY <2>1, <2>2, <3>2, <3>3, FiledAlone DEF IsDry
    <2>3. CASE ~IsDry(s)
      <3>1. /\ lock = s
            /\ \A t \in Sessions \ {s} :
                  draft[t] = NoDraft /\ ~(pc[t] = "committing" /\ ~IsDry(t))
        BY <2>1, <2>3 DEF Discipline, Holds
      <3>2. ASSUME NEW t \in Sessions, pc[t] # "idle", op[t].kind = "import"
            PROVE  op[t].command \in Commands
        BY <3>2, CommandType
      <3>3. \A t \in Sessions : items[t] # Null
        BY NullsAssumption DEF TypeOK
      <3>4. ASSUME NEW t \in Sessions \ {s}, pc[t] = "answered",
                   op[t].kind = "import", ~IsDry(t)
            PROVE  /\ op[t].command \notin DOMAIN draft[s].run
                   /\ importRun'[op[t].command] = items[t]
        BY <2>1, <3>2, <3>3, <3>4 DEF Filed, FiledBy
      <3>5. ASSUME NEW t \in Sessions \ {s} PROVE FiledBy(t)'
        BY <1>0, <2>1, <3>1, <3>4 DEF Filed, FiledBy, IsDry
      <3>6. FiledBy(s)'
        BY <1>0, <2>1, <3>2 DEF Filed, FiledBy, IsDry
      <3>7. OneFreshAnswer'
        <4> SUFFICES ASSUME NEW a \in Sessions, NEW b \in Sessions, a # b,
                            pc'[a] = "answered", pc'[b] = "answered",
                            op'[a] = op'[b], op'[a].kind = "import", ~IsDry(a)',
                            ~replayed'[a], ~replayed'[b]
                     PROVE  FALSE
          BY DEF OneFreshAnswer
        <4>1. IsDry(a) = IsDry(b) /\ ~IsDry(a)
          BY <2>1 DEF IsDry
        <4>2. CASE a = s
          BY <2>1, <3>4, <4>1, <4>2 DEF Filed, FiledBy
        <4>3. CASE b = s
          BY <2>1, <3>4, <4>1, <4>3 DEF Filed, FiledBy
        <4>4. CASE a # s /\ b # s
          BY <2>1, <4>1, <4>4 DEF Filed, OneFreshAnswer
        <4> QED BY <4>2, <4>3, <4>4
      <3> QED BY <3>5, <3>6, <3>7 DEF Filed
    <2> QED BY <2>2, <2>3
  <1>8. ASSUME NEW s \in Sessions, Reply(s) \/ Refuse(s) \/ Abort(s)
        PROVE  Filed'
    <2>1. EndSession(s) /\ importRun' = importRun
      BY <1>8 DEF Reply, Refuse, Abort, Rollback
    <2>2. FiledBy(s)'
      BY <1>0, <2>1 DEF EndSession, FiledBy, TypeOK
    <2>3. /\ pc'[s] # "answered"
          /\ \A t \in Sessions \ {s} :
                /\ pc'[t] = pc[t] /\ op'[t] = op[t] /\ draft'[t] = draft[t]
                /\ items'[t] = items[t] /\ replayed'[t] = replayed[t]
      BY <2>1 DEF EndSession, TypeOK
    <2> QED BY <2>1, <2>2, <2>3, FiledAlone
  <1>9. ASSUME NEW id \in Ids, NEW e \in Edits, UpdateRestaurant(id, e)
        PROVE  Filed'
    BY <1>9 DEF UpdateRestaurant, Filed, FiledBy, OneFreshAnswer, IsDry
  <1>10. CASE UNCHANGED vars
    BY <1>10 DEF vars, Filed, FiledBy, OneFreshAnswer, IsDry
  <1> QED
    BY <1>1, <1>2, <1>3, <1>4, <1>5, <1>6, <1>7, <1>8, <1>9, <1>10
    DEF Next, ImportStep, ManualStep

(***************************************************************************)
(* An answered import has the result on file.                              *)
(***************************************************************************)
THEOREM AnswersAreOnFile == Spec => []AnswersOnFile
  <1>1. Filed => AnswersOnFile
    BY DEF Filed, FiledBy, AnswersOnFile
  <1> QED
    BY <1>1, FiledInit, TypeInit, TypeNext, DisciplineInit, DisciplineNext,
       FiledNext, PTL DEF Spec

(***************************************************************************)
(* Of two answers to one command, one at least says replayed.              *)
(***************************************************************************)
THEOREM AtMostOneFresh == Spec => []OneFreshAnswer
  <1>1. Filed => OneFreshAnswer
    BY DEF Filed
  <1> QED
    BY <1>1, FiledInit, TypeInit, TypeNext, DisciplineInit, DisciplineNext,
       FiledNext, PTL DEF Spec

-----------------------------------------------------------------------------
(***************************************************************************)
(* The results on file as a session would leave them: those of its own     *)
(* command are the items it has answered so far.                           *)
(***************************************************************************)
Results(s) ==
    IF pc[s] = "scanning" /\ ~IsDry(s)
    THEN [importRun EXCEPT ![op[s].command] = items[s]]
    ELSE Overlay(draft[s].run, importRun)

Announces(results, h, i, id) ==
    /\ results[h] # Null /\ i \in DOMAIN results[h]
    /\ results[h][i].outcome = "DRAFT_CREATED" /\ results[h][i].restaurant = id

Sourced(sheets, id) == sheets[id] # Null /\ sheets[id].origin # Null

(***************************************************************************)
(* What RunsAccountForDrafts says, of any tables.                          *)
(***************************************************************************)
Accounted(sheets, results) ==
    /\ \A id \in Ids, h \in Commands, i \in Nat :
          Announces(results, h, i, id) => Sourced(sheets, id)
    /\ \A id \in Ids : Sourced(sheets, id)
          => \E h \in Commands, i \in Nat : Announces(results, h, i, id)
    /\ \A id \in Ids, h, g \in Commands, i, j \in Nat :
          Announces(results, h, i, id) /\ Announces(results, g, j, id)
          => h = g /\ i = j

AccountedAll ==
    /\ Accounted(restaurant, importRun)
    /\ \A s \in Sessions : Accounted(Sheets(s), Results(s))

ResultTable == [Commands -> Seq(Item) \cup {Null}]

(***************************************************************************)
(* Only the sheets with an origin, and the items that announce one, count. *)
(***************************************************************************)
LEMMA AccountedSame ==
    ASSUME NEW sheets, NEW results, NEW sheets2, NEW results2,
           Accounted(sheets, results),
           \A id \in Ids : Sourced(sheets2, id) <=> Sourced(sheets, id),
           \A id \in Ids, h \in Commands, i \in Nat :
                Announces(results2, h, i, id) <=> Announces(results, h, i, id)
    PROVE  Accounted(sheets2, results2)
  BY DEF Accounted

(***************************************************************************)
(* An empty result put on file announces nothing.                          *)
(***************************************************************************)
LEMMA AccountedStart ==
    ASSUME NEW sheets, NEW results \in ResultTable, Accounted(sheets, results),
           NEW h \in Commands, results[h] = Null
    PROVE  Accounted(sheets, [results EXCEPT ![h] = << >>])
  <1> DEFINE after == [results EXCEPT ![h] = << >>]
  <1>1. \A id \in Ids, g \in Commands, i \in Nat :
            Announces(after, g, i, id) <=> Announces(results, g, i, id)
    BY DEF Announces, ResultTable
  <1> HIDE DEF after
  <1>2. Accounted(sheets, after)
    BY <1>1, AccountedSame
  <1> QED BY <1>2 DEF after

(***************************************************************************)
(* One more item.                                                          *)
(***************************************************************************)
WithItem(results, h, item) ==
    [results EXCEPT ![h] = Append(results[h], item)]

(***************************************************************************)
(* What one more item changes of the announcements of the results.         *)
(***************************************************************************)
LEMMA Appended ==
    ASSUME NEW results \in ResultTable, NEW h \in Commands, results[h] # Null,
           NEW item \in Item
    PROVE  \A id \in Ids, g \in Commands, i \in Nat :
              Announces(WithItem(results, h, item), g, i, id)
              <=> \/ Announces(results, g, i, id)
                  \/ /\ g = h /\ i = Len(results[h]) + 1
                     /\ item.outcome = "DRAFT_CREATED" /\ item.restaurant = id
  <1> DEFINE after == WithItem(results, h, item)
  <1>1. results[h] \in Seq(Item)
    BY DEF ResultTable
  <1>2. /\ Append(results[h], item) \in Seq(Item)
        /\ DOMAIN Append(results[h], item) = 1..(Len(results[h]) + 1)
        /\ DOMAIN results[h] = 1..Len(results[h])
        /\ \A i \in 1..Len(results[h]) : Append(results[h], item)[i] = results[h][i]
        /\ Append(results[h], item)[Len(results[h]) + 1] = item
        /\ Len(results[h]) \in Nat
    BY <1>1
  <1>3. Append(results[h], item) # Null
    BY <1>2, NullsAssumption
  <1> SUFFICES ASSUME NEW id \in Ids, NEW g \in Commands, NEW i \in Nat
               PROVE  Announces(after, g, i, id)
              <=> \/ Announces(results, g, i, id)
                  \/ /\ g = h /\ i = Len(results[h]) + 1
                     /\ item.outcome = "DRAFT_CREATED" /\ item.restaurant = id
    OBVIOUS
  <1>4. CASE g # h
    <2>1. after[g] = results[g]
      BY <1>4 DEF ResultTable, WithItem
    <2> QED BY <1>4, <2>1 DEF Announces
  <1>5. CASE g = h
    <2>1. after[g] = Append(results[h], item)
      BY <1>5 DEF ResultTable, WithItem
    <2> QED BY <1>2, <1>3, <1>5, <2>1 DEF Announces
  <1> QED BY <1>4, <1>5

(***************************************************************************)
(* An item that drafts nothing leaves the sheets accounted for; an item    *)
(* that drafts a sheet accounts for that sheet.                            *)
(***************************************************************************)
LEMMA AccountedOther ==
    ASSUME NEW sheets, NEW results \in ResultTable, Accounted(sheets, results),
           NEW h \in Commands, results[h] # Null,
           NEW item \in Item, item.outcome # "DRAFT_CREATED"
    PROVE  Accounted(sheets, WithItem(results, h, item))
  <1>1. \A id \in Ids, g \in Commands, i \in Nat :
            Announces(WithItem(results, h, item), g, i, id)
            <=> Announces(results, g, i, id)
    BY Appended
  <1> QED BY <1>1, AccountedSame

LEMMA AccountedDraft ==
    ASSUME NEW sheets \in SheetTable, NEW results \in ResultTable,
           Accounted(sheets, results),
           NEW h \in Commands, results[h] # Null,
           NEW id \in Ids, sheets[id] = Null,
           NEW sheet \in Restaurant, sheet.origin # Null,
           NEW item \in Item, item.outcome = "DRAFT_CREATED", item.restaurant = id
    PROVE  Accounted([sheets EXCEPT ![id] = sheet],
                     WithItem(results, h, item))
  <1> DEFINE after == WithItem(results, h, item)
             grown == [sheets EXCEPT ![id] = sheet]
             n == Len(results[h]) + 1
  <1>1. \A x \in Ids, g \in Commands, i \in Nat :
            Announces(after, g, i, x)
            <=> Announces(results, g, i, x) \/ (g = h /\ i = n /\ x = id)
    BY Appended
  <1>2. \A x \in Ids : Sourced(grown, x) <=> Sourced(sheets, x) \/ x = id
    BY NullsAssumption DEF Sourced, SheetTable
  <1>3. ~Sourced(sheets, id)
    BY DEF Sourced
  <1>4. n \in Nat
    BY DEF ResultTable
  <1> HIDE DEF after, grown, n
  <1>5. Accounted(grown, after)
    BY <1>1, <1>2, <1>3, <1>4 DEF Accounted
  <1> QED BY <1>5 DEF after, grown

(***************************************************************************)
(* One announcement, and one only, of each drafted sheet.                  *)
(***************************************************************************)
LEMMA AccountedCount ==
    ASSUME TypeOK, Accounted(restaurant, importRun)
    PROVE  RunsAccountForDrafts
  <1> SUFFICES ASSUME NEW id \in Ids
               PROVE  Cardinality(Announced(id))
                        = IF Sourced(restaurant, id) THEN 1 ELSE 0
    BY DEF RunsAccountForDrafts, Sourced, Exists
  <1>1. ASSUME NEW x
        PROVE  x \in Announced(id)
               <=> \E h \in Commands, i \in Nat :
                      x = <<h, i>> /\ Announces(importRun, h, i, id)
    <2>1. \A h \in Commands : importRun[h] # Null => DOMAIN importRun[h] \subseteq Nat
      BY DEF TypeOK
    <2> QED BY <2>1 DEF Announced, Announces
  <1>2. CASE ~Sourced(restaurant, id)
    <2>1. Announced(id) = {}
      BY <1>1, <1>2 DEF Accounted
    <2> QED BY <1>2, <2>1, FS_EmptySet
  <1>3. CASE Sourced(restaurant, id)
    <2>1. PICK h \in Commands, i \in Nat : Announces(importRun, h, i, id)
      BY <1>3 DEF Accounted
    <2>2. \A x : x \in Announced(id) <=> x = <<h, i>>
      BY <1>1, <2>1 DEF Accounted
    <2>3. Announced(id) = {<<h, i>>}
      BY <2>2
    <2> QED BY <1>3, <2>3, FS_Singleton
  <1> QED BY <1>2, <1>3

(***************************************************************************)
(* A step of one session leaves what the others would leave.               *)
(***************************************************************************)
LEMMA AccountedAlone ==
    ASSUME AccountedAll, NEW s \in Sessions,
           restaurant' = restaurant, importRun' = importRun,
           \A t \in Sessions \ {s} :
                /\ pc'[t] = pc[t] /\ op'[t] = op[t] /\ draft'[t] = draft[t]
                /\ items'[t] = items[t],
           Accounted(Sheets(s)', Results(s)')
    PROVE  AccountedAll'
  <1>1. ASSUME NEW t \in Sessions \ {s}
        PROVE  Sheets(t)' = Sheets(t) /\ Results(t)' = Results(t)
    BY DEF Sheets, Results, IsDry
  <1> QED BY <1>1 DEF AccountedAll

LEMMA AccountedInit == Init => AccountedAll
  <1> SUFFICES ASSUME Init PROVE AccountedAll
    OBVIOUS
  <1>1. /\ \A id \in Ids : restaurant[id] = Null
        /\ \A h \in Commands : importRun[h] = Null
    BY DEF Init
  <1>2. Accounted(restaurant, importRun)
    BY <1>1 DEF Accounted, Announces, Sourced
  <1>3. \A s \in Sessions : Sheets(s) = restaurant /\ Results(s) = importRun
    BY DEF Init, Sheets, Results, NoDraft, Overlay
  <1> QED BY <1>2, <1>3 DEF AccountedAll

LEMMA ResultsType ==
    ASSUME TypeOK, Phased, NEW s \in Sessions
    PROVE  Results(s) \in ResultTable /\ importRun \in ResultTable
  <1>1. Overlay(draft[s].run, importRun) \in ResultTable
    BY OverlayType DEF TypeOK, IsDraft, ResultTable
  <1>2. [importRun EXCEPT ![op[s].command] = items[s]] \in ResultTable
    BY DEF TypeOK, ResultTable
  <1> QED BY <1>1, <1>2 DEF Results, ResultTable, TypeOK

(***************************************************************************)
(* Every step keeps the sheets accounted for: a scan announces the sheet   *)
(* in the step that drafts it, a commit files both, a rollback forgets     *)
(* both.                                                                   *)
(***************************************************************************)
LEMMA AccountedNext ==
    TypeInv /\ Discipline /\ Unfiled /\ FreshSheets /\ Filed /\ AccountedAll
    /\ [Next]_vars
    => AccountedAll'
  <1> SUFFICES ASSUME TypeOK, Phased, Discipline, Unfiled, FreshSheets, Filed,
                      AccountedAll, [Next]_vars
               PROVE  AccountedAll'
    BY DEF TypeInv
  <1> USE DEF tables, session
  <1>0. DOMAIN NoDraft.run = {} /\ DOMAIN NoDraft.restaurant = {}
    BY EmptyRows DEF NoDraft
  <1>1. ASSUME NEW s \in Sessions,
               restaurant' = restaurant, importRun' = importRun,
               draft'[s] = NoDraft, pc'[s] # "scanning" \/ IsDry(s)',
               \A t \in Sessions \ {s} :
                    /\ pc'[t] = pc[t] /\ op'[t] = op[t] /\ draft'[t] = draft[t]
                    /\ items'[t] = items[t]
        PROVE  AccountedAll'
    <2>1. Sheets(s)' = restaurant /\ Results(s)' = importRun
      BY <1>0, <1>1 DEF Sheets, Results, Overlay, TypeOK
    <2> QED BY <1>1, <2>1, AccountedAlone DEF AccountedAll
  <1>2. ASSUME NEW s \in Sessions,
               \/ \E o \in Requests : Begin(s, o)
               \/ AcquireLock(s) \/ OpenSnapshot(s) \/ Replay(s)
               \/ Reply(s) \/ Refuse(s) \/ Abort(s)
        PROVE  AccountedAll'
    <2>1. draft'[s] = NoDraft
      BY <1>2 DEF Filed, FiledBy, TypeOK, Begin, AcquireLock, OpenSnapshot,
                  Replay, Reply, Refuse, Abort, Rollback, EndSession
    <2>2. pc'[s] # "scanning" \/ IsDry(s)'
      BY <1>2 DEF Phased, TypeOK, Begin, AcquireLock, OpenSnapshot, IsDry,
                  Replay, Reply, Refuse, Abort, Rollback, EndSession
    <2>3. /\ restaurant' = restaurant /\ importRun' = importRun
          /\ \A t \in Sessions \ {s} :
                /\ pc'[t] = pc[t] /\ op'[t] = op[t] /\ draft'[t] = draft[t]
                /\ items'[t] = items[t]
      BY <1>2 DEF TypeOK, Begin, AcquireLock, OpenSnapshot,
                  Replay, Reply, Refuse, Abort, Rollback, EndSession
    <2> QED BY <1>1, <2>1, <2>2, <2>3
  <1>3. ASSUME NEW s \in Sessions, StartScan(s) PROVE AccountedAll'
    <2> DEFINE h == op[s].command
    <2>1. h \in Commands /\ importRun[h] = Null /\ ~IsDry(s)'
      BY <1>3, CommandType DEF StartScan, Phased, IsDry
    <2>2. Sheets(s)' = restaurant /\ Results(s)' = [importRun EXCEPT ![h] = << >>]
      BY <1>0, <1>3, <2>1
      DEF Filed, FiledBy, StartScan, Sheets, Results, Overlay, TypeOK
    <2>3. Accounted(restaurant, [importRun EXCEPT ![h] = << >>])
      BY <2>1, ResultsType, AccountedStart DEF AccountedAll
    <2> QED BY <1>3, <2>2, <2>3, AccountedAlone DEF StartScan, TypeOK
  <1>4. ASSUME NEW s \in Sessions,
               \/ SkipCandidate(s) \/ StageCandidate(s)
               \/ CreateDraft(s) \/ PlanDraft(s)
        PROVE  AccountedAll'
    <2> DEFINE h == op[s].command
    <2>1. /\ pc[s] = "scanning" /\ pc' = pc /\ op' = op /\ Scanning(s)
          /\ restaurant' = restaurant /\ importRun' = importRun
          /\ \A t \in Sessions \ {s} :
                draft'[t] = draft[t] /\ items'[t] = items[t]
      BY <1>4 DEF SkipCandidate, StageCandidate, CreateDraft, PlanDraft,
                  Answer, Scanning, TypeOK
    <2>2. CASE IsDry(s)
      <3>1. draft' = draft
        BY <1>4, <2>2 DEF SkipCandidate, StageCandidate, CreateDraft, PlanDraft
      <3>2. Sheets(s)' = Sheets(s) /\ Results(s)' = Results(s)
        BY <2>1, <2>2, <3>1 DEF Sheets, Results, IsDry
      <3> QED BY <2>1, <3>1, <3>2, AccountedAlone DEF AccountedAll
    <2>3. CASE ~IsDry(s)
      <3>1. h \in Commands
        BY <2>1, CommandType DEF Phased
      <3>2. /\ Results(s) = [importRun EXCEPT ![h] = items[s]]
            /\ Results(s) \in ResultTable
            /\ Results(s)' = [importRun EXCEPT ![h] = items'[s]]
            /\ Results(s)[h] = items[s] /\ Results(s)[h] # Null
        <4>1. /\ Results(s) = [importRun EXCEPT ![h] = items[s]]
              /\ Results(s)' = [importRun EXCEPT ![h] = items'[s]]
          BY <2>1, <2>3 DEF Results, IsDry
        <4>2. Results(s)[h] = items[s]
          BY <3>1, <4>1 DEF TypeOK
        <4>3. items[s] # Null
          BY NullsAssumption DEF TypeOK
        <4> QED BY <4>1, <4>2, <4>3, ResultsType
      <3>3. ASSUME NEW item \in Item, items' = [items EXCEPT ![s] = Append(@, item)]
            PROVE  Results(s)' = WithItem(Results(s), h, item)
        <4>1. items'[s] = Append(items[s], item)
          BY <3>3 DEF TypeOK
        <4> QED BY <3>2, <4>1 DEF WithItem
      <3>4. CASE SkipCandidate(s) \/ StageCandidate(s)
        <4> DEFINE id == IF SkipCandidate(s) THEN Null
                         ELSE LinkedTo(SeenRecords(s), Current(s).ref)
                   item == [source |-> Current(s).ref,
                            outcome |-> CurrentVerdict(s), restaurant |-> id]
        <4>1. /\ items' = [items EXCEPT ![s] = Append(@, item)]
              /\ CurrentVerdict(s) \in Outcome \ {"DRAFT_CREATED"}
          BY <3>4 DEF SkipCandidate, StageCandidate, Answer, Outcome
        <4>2. item \in Item /\ item.outcome # "DRAFT_CREATED"
          BY <2>1, <4>1, CurrentType, LinkedType DEF Item
        <4>3. Sheets(s)' = Sheets(s)
          <5>1. CASE SkipCandidate(s)
            BY <5>1 DEF SkipCandidate, Sheets
          <5>2. CASE StageCandidate(s)
            <6>1. /\ draft'[s] = WithRecord(draft[s], Current(s).ref, Observation(s))
                  /\ IsDraft(draft[s])
              BY <2>3, <5>2 DEF StageCandidate, TypeOK
            <6> QED BY <2>1, <6>1, Fields DEF Sheets
          <5> QED BY <3>4, <5>1, <5>2
        <4> HIDE DEF item
        <4>4. Results(s)' = WithItem(Results(s), h, item)
          BY <3>3, <4>1, <4>2
        <4>5. Accounted(Sheets(s), WithItem(Results(s), h, item))
          BY <3>1, <3>2, <4>2, AccountedOther DEF AccountedAll
        <4> QED BY <2>1, <4>3, <4>4, <4>5, AccountedAlone
      <3>5. CASE CreateDraft(s)
        <4>1. PICK id \in FreshIds :
                /\ Answer(s, "DRAFT_CREATED", id)
                /\ draft' = [draft EXCEPT ![s] = WithRecord(
                      WithSheet(draft[s], id,
                                NewSheet(Discovered(Current(s)), Current(s).ref)),
                      Current(s).ref,
                      [Observation(s) EXCEPT !.restaurant = id])]
          BY <3>5 DEF CreateDraft
        <4> DEFINE sheet == NewSheet(Discovered(Current(s)), Current(s).ref)
                   row == [Observation(s) EXCEPT !.restaurant = id]
                   item == [source |-> Current(s).ref,
                            outcome |-> "DRAFT_CREATED", restaurant |-> id]
        <4>2. /\ id \in Ids /\ Sheets(s)[id] = Null
              /\ sheet \in Restaurant /\ sheet.origin # Null
          BY <2>1, <3>5, CurrentType, DraftedType, SheetType, NullsAssumption
          DEF CreateDraft, FreshIds, Sheets, Overlay, NewSheet, TypeOK
        <4>3. /\ item \in Item /\ item.outcome = "DRAFT_CREATED"
              /\ item.restaurant = id
              /\ items' = [items EXCEPT ![s] = Append(@, item)]
          BY <2>1, <4>1, <4>2, CurrentType DEF Answer, Item, Outcome
        <4>4. draft'[s] = WithRecord(WithSheet(draft[s], id, sheet),
                                     Current(s).ref, row)
          BY <4>1 DEF TypeOK
        <4>5. IsDraft(draft[s]) /\ IsDraft(WithSheet(draft[s], id, sheet))
          BY <4>2, DraftWithSheet DEF TypeOK
        <4> HIDE DEF sheet, row, item
        <4>6. draft'[s].restaurant = Put(draft[s].restaurant, id, sheet)
          BY <4>4, <4>5, Fields
        <4>7. Sheets(s)' = [Sheets(s) EXCEPT ![id] = sheet]
          BY <2>1, <4>2, <4>6, OverlayPut DEF Sheets
        <4>8. Results(s)' = WithItem(Results(s), h, item)
          BY <3>3, <4>3
        <4>9. Accounted([Sheets(s) EXCEPT ![id] = sheet],
                        WithItem(Results(s), h, item))
          BY <3>1, <3>2, <4>2, <4>3, WorldType, AccountedDraft DEF AccountedAll
        <4> QED BY <2>1, <4>7, <4>8, <4>9, AccountedAlone
      <3> QED BY <1>4, <2>3, <3>4, <3>5 DEF PlanDraft
    <2> QED BY <2>2, <2>3
  <1>5. ASSUME NEW s \in Sessions, RecordRun(s) PROVE AccountedAll'
    <2> DEFINE h == op[s].command
    <2>1. /\ pc[s] = "scanning" /\ pc'[s] = "committing" /\ IsDraft(draft[s])
          /\ ~IsDry(s)
          /\ draft'[s] = WithRun(draft[s], h, items[s])
          /\ restaurant' = restaurant /\ importRun' = importRun
          /\ \A t \in Sessions \ {s} :
                /\ pc'[t] = pc[t] /\ op'[t] = op[t] /\ draft'[t] = draft[t]
                /\ items'[t] = items[t]
      BY <1>5 DEF RecordRun, Scanned, TypeOK
    <2>2. /\ draft'[s].run = Put(draft[s].run, h, items[s])
          /\ draft'[s].restaurant = draft[s].restaurant
      BY <2>1, Fields
    <2>3. DOMAIN draft[s].run = {}
      BY <2>1 DEF Filed, FiledBy
    <2>4. Overlay(Put(draft[s].run, h, items[s]), importRun)
            = [importRun EXCEPT ![h] = items[s]]
      BY <2>3 DEF Overlay, Put, TypeOK
    <2>5. Sheets(s)' = Sheets(s) /\ Results(s)' = Results(s)
      BY <2>1, <2>2, <2>4 DEF Sheets, Results
    <2> QED BY <2>1, <2>5, AccountedAlone DEF AccountedAll
  <1>6. ASSUME NEW s \in Sessions, EndSimulation(s) PROVE AccountedAll'
    <2>1. Sheets(s)' = Sheets(s) /\ Results(s)' = Results(s)
      BY <1>6 DEF EndSimulation, Sheets, Results, IsDry
    <2> QED BY <1>6, <2>1, AccountedAlone DEF EndSimulation, AccountedAll, TypeOK
  <1>7. ASSUME NEW s \in Sessions, CreateRestaurant(s) PROVE AccountedAll'
    <2>1. PICK id \in Ids : Creates(s, id)
      BY <1>7, CreateRestaurantGrows
    <2> DEFINE sheet == NewSheet(op[s].sheet, Null)
    <2>2. /\ restaurant' = restaurant /\ importRun' = importRun
          /\ draft'[s].restaurant = Put(draft[s].restaurant, id, sheet)
          /\ draft'[s].run = draft[s].run
          /\ pc[s] = "locked" /\ pc'[s] = "committing"
          /\ \A t \in Sessions \ {s} :
                /\ pc'[t] = pc[t] /\ op'[t] = op[t] /\ draft'[t] = draft[t]
                /\ items'[t] = items[t]
      BY <1>7, <2>1 DEF Creates, Grown, CreateRestaurant, TypeOK
    <2>3. sheet.origin = Null /\ Sheets(s)[id] = Null
      BY <2>1 DEF NewSheet, Creates, FreshIds, Sheets, Overlay, TypeOK
    <2> HIDE DEF sheet
    <2>4. Sheets(s)' = [Sheets(s) EXCEPT ![id] = sheet]
      BY <2>2, OverlayPut DEF Sheets
    <2>5. \A x \in Ids : Sourced(Sheets(s)', x) <=> Sourced(Sheets(s), x)
      BY <2>3, <2>4, WorldType DEF Sourced, SheetTable
    <2>6. Results(s)' = Results(s)
      BY <2>2 DEF Results
    <2>7. Accounted(Sheets(s)', Results(s)')
      BY <2>5, <2>6, AccountedSame DEF AccountedAll
    <2> QED BY <2>2, <2>7, AccountedAlone
  <1>8. ASSUME NEW s \in Sessions, LinkCandidate(s) PROVE AccountedAll'
    <2>1. /\ restaurant' = restaurant /\ importRun' = importRun
          /\ draft'[s].restaurant = draft[s].restaurant
          /\ draft'[s].run = draft[s].run
          /\ pc[s] = "locked" /\ pc'[s] = "committing"
          /\ \A t \in Sessions \ {s} :
                /\ pc'[t] = pc[t] /\ op'[t] = op[t] /\ draft'[t] = draft[t]
                /\ items'[t] = items[t]
      BY <1>8, LinkCandidateGrows DEF Attaches, Grown, LinkCandidate, TypeOK
    <2>2. Sheets(s)' = Sheets(s) /\ Results(s)' = Results(s)
      BY <2>1 DEF Sheets, Results
    <2> QED BY <2>1, <2>2, AccountedAlone DEF AccountedAll
  <1>9. ASSUME NEW s \in Sessions, Commit(s) PROVE AccountedAll'
    <2>1. CASE IsDry(s)
      <3>1. /\ draft[s] = NoDraft /\ draft'[s] = NoDraft /\ IsDry(s)'
            /\ \A t \in Sessions \ {s} :
                  /\ pc'[t] = pc[t] /\ op'[t] = op[t] /\ draft'[t] = draft[t]
                  /\ items'[t] = items[t]
        BY <1>9, <2>1, NullsAssumption DEF Discipline, Holds, Commit, TypeOK, IsDry
      <3>2. restaurant' = restaurant /\ importRun' = importRun
        BY <1>0, <1>9, <3>1 DEF Commit, Overlay, TypeOK
      <3> QED BY <1>1, <3>1, <3>2
    <2>2. CASE ~IsDry(s)
      <3>1. lock = s
        BY <1>9, <2>2 DEF Discipline, Holds, Commit
      <3>2. restaurant' = Sheets(s) /\ importRun' = Results(s)
        BY <1>9 DEF Commit, Sheets, Results
      <3>3. ASSUME NEW t \in Sessions
            PROVE  /\ draft'[t] = NoDraft
                   /\ pc'[t] # "scanning" \/ IsDry(t)'
        BY <1>9, <3>1 DEF Discipline, Holds, Commit, TypeOK, IsDry
      <3>4. ASSUME NEW t \in Sessions
            PROVE  Sheets(t)' = restaurant' /\ Results(t)' = importRun'
        <4>1. /\ DOMAIN restaurant' = Ids /\ DOMAIN importRun' = Commands
              /\ restaurant' \in SheetTable /\ importRun' \in ResultTable
          BY <3>2, WorldType, ResultsType DEF SheetTable, ResultTable
        <4> QED BY <1>0, <3>3, <4>1 DEF Sheets, Results, Overlay,
                                        SheetTable, ResultTable
      <3> QED BY <3>2, <3>4 DEF AccountedAll
    <2> QED BY <2>1, <2>2
  <1>10. ASSUME NEW id \in Ids, NEW e \in Edits, UpdateRestaurant(id, e)
        PROVE  AccountedAll'
    <2> DEFINE sheet == [name |-> e.name, place |-> e.place,
                         contacts |-> e.contacts,
                         origin |-> restaurant[id].origin,
                         version |-> restaurant[id].version + 1]
    <2>1. /\ restaurant' = [restaurant EXCEPT ![id] = sheet]
          /\ restaurant[id] # Null /\ restaurant[id].version < MaxVersion
          /\ importRun' = importRun /\ draft' = draft /\ pc' = pc /\ op' = op
          /\ items' = items
      BY <1>10 DEF UpdateRestaurant
    <2>2. restaurant[id] \in Restaurant /\ e \in Identity
      BY <2>1, RequestsAssumption DEF TypeOK
    <2>3. sheet \in Restaurant
      BY <2>1, <2>2, RequestsAssumption DEF Restaurant, Identity
    <2>4. sheet # Null /\ sheet.origin = restaurant[id].origin
      BY <2>3, NullsAssumption
    <2> HIDE DEF sheet
    <2>5. ASSUME NEW sheets \in SheetTable, sheets[id] = restaurant[id], NEW after,
                 after = [sheets EXCEPT ![id] = sheet]
          PROVE  \A x \in Ids : Sourced(after, x) <=> Sourced(sheets, x)
      BY <2>1, <2>4, <2>5 DEF Sourced, SheetTable
    <2>6. Accounted(restaurant', importRun')
      BY <2>1, <2>5, WorldType, AccountedSame DEF AccountedAll, TypeOK, SheetTable
    <2>7. ASSUME NEW s \in Sessions PROVE Accounted(Sheets(s)', Results(s)')
      <3>1. id \notin DOMAIN draft[s].restaurant
        BY <2>1 DEF FreshSheets
      <3>2. Sheets(s)[id] = restaurant[id]
        BY <3>1 DEF Sheets, Overlay, TypeOK
      <3>3. Sheets(s)' = [Sheets(s) EXCEPT ![id] = sheet]
        BY <2>1, <3>1 DEF Sheets, Overlay, TypeOK
      <3>4. Results(s)' = Results(s)
        BY <2>1 DEF Results, IsDry
      <3>5. \A x \in Ids : Sourced(Sheets(s)', x) <=> Sourced(Sheets(s), x)
        BY <2>5, <3>2, <3>3, WorldType
      <3> QED BY <3>4, <3>5, AccountedSame DEF AccountedAll
    <2> QED BY <2>6, <2>7 DEF AccountedAll
  <1>11. CASE UNCHANGED vars
    BY <1>11 DEF vars, AccountedAll, Sheets, Results, IsDry
  <1> QED
    BY <1>2, <1>3, <1>4, <1>5, <1>6, <1>7, <1>8, <1>9, <1>10, <1>11
    DEF Next, ImportStep, ManualStep

(***************************************************************************)
(* The drafts of the catalogue are those the results on file announce,     *)
(* each once.                                                              *)
(***************************************************************************)
THEOREM RunsAccount == Spec => []RunsAccountForDrafts
  <1>1. TypeInv /\ AccountedAll => RunsAccountForDrafts
    BY AccountedCount DEF TypeInv, AccountedAll
  <1>2. Init => Unfiled
    BY DEF Init, Unfiled
  <1> QED
    BY <1>1, <1>2, AccountedInit, AccountedNext, FiledInit, FiledNext,
       UnfiledNext, CoherentInit, FreshSheetsNext,
       TypeInit, TypeNext, DisciplineInit, DisciplineNext, PTL DEF Spec

-----------------------------------------------------------------------------
(***************************************************************************)
(* What the writer of a fresh import has drafted is what its items say:    *)
(* the sheets they announce, and the links of their sources.               *)
(***************************************************************************)
Announcing(result, i) ==
    i \in DOMAIN result /\ result[i].outcome = "DRAFT_CREATED"

Told(result, h, ids, before, after) ==
    /\ \A i \in DOMAIN result :
          i \in DOMAIN h.cands /\ result[i].source = h.cands[i].ref
    /\ \A i \in Nat : Announcing(result, i) =>
          /\ result[i].restaurant \in ids
          /\ LinkedTo(before, result[i].source) = Null
          /\ LinkedTo(after, result[i].source) = result[i].restaurant
    /\ \A id \in ids : \E i \in Nat :
          Announcing(result, i) /\ result[i].restaurant = id
    /\ \A r \in Refs : LinkedTo(after, r) # LinkedTo(before, r)
          => \E i \in Nat : Announcing(result, i) /\ result[i].source = r

ImportProgress(s) ==
    Told(items[s], op[s].command, DOMAIN draft[s].restaurant, record, Records(s))

(***************************************************************************)
(* One more item: of a candidate that is not drafted, of one that is.      *)
(***************************************************************************)
LEMMA OneMore ==
    ASSUME NEW result \in Seq(Item), NEW item \in Item
    PROVE  LET n == Len(result) + 1
               more == Append(result, item)
           IN  /\ n \in Nat /\ n \notin DOMAIN result
               /\ DOMAIN more = DOMAIN result \cup {n}
               /\ \A i \in DOMAIN result : more[i] = result[i]
               /\ more[n] = item
               /\ \A i \in Nat : Announcing(more, i) <=>
                     \/ Announcing(result, i)
                     \/ i = n /\ item.outcome = "DRAFT_CREATED"
  <1> DEFINE n == Len(result) + 1
             more == Append(result, item)
  <1>1. /\ n \in Nat /\ n \notin DOMAIN result
        /\ DOMAIN more = DOMAIN result \cup {n}
        /\ \A i \in DOMAIN result : more[i] = result[i]
        /\ more[n] = item
    OBVIOUS
  <1> HIDE DEF n, more
  <1>2. \A i \in Nat : Announcing(more, i) <=>
                     \/ Announcing(result, i)
                     \/ i = n /\ item.outcome = "DRAFT_CREATED"
    BY <1>1 DEF Announcing
  <1> QED BY <1>1, <1>2 DEF n, more

(***************************************************************************)
(* An item that drafts nothing, then one that drafts a sheet, said of what *)
(* the items tell.                                                         *)
(***************************************************************************)
LEMMA ToldOther ==
    ASSUME NEW result \in Seq(Item), NEW h, NEW ids, NEW before, NEW after,
           Told(result, h, ids, before, after),
           NEW item \in Item, item.outcome # "DRAFT_CREATED",
           Len(result) + 1 \in DOMAIN h.cands,
           item.source = h.cands[Len(result) + 1].ref,
           NEW later, \A r \in Refs : LinkedTo(later, r) = LinkedTo(after, r)
    PROVE  Told(Append(result, item), h, ids, before, later)
  <1> DEFINE n == Len(result) + 1
             more == Append(result, item)
  <1>1. /\ DOMAIN more = DOMAIN result \cup {n}
        /\ \A i \in DOMAIN result : more[i] = result[i]
        /\ more[n] = item
        /\ \A i \in Nat : Announcing(more, i) <=> Announcing(result, i)
    BY OneMore
  <1>2. \A i \in Nat : Announcing(result, i) =>
            i \in DOMAIN result /\ result[i].source \in Refs
    <2>1. \A i \in DOMAIN result : result[i] \in Item
      OBVIOUS
    <2> QED BY <2>1 DEF Announcing, Item
  <1> HIDE DEF more
  <1>3. \A i \in Nat : Announcing(result, i) => more[i] = result[i]
    BY <1>1, <1>2
  <1> HIDE DEF n
  <1>4. \A i \in DOMAIN more :
            i \in DOMAIN h.cands /\ more[i].source = h.cands[i].ref
    BY <1>1 DEF Told, n
  <1>5. Told(more, h, ids, before, later)
    BY <1>1, <1>2, <1>3, <1>4 DEF Told
  <1> QED BY <1>5 DEF more

LEMMA ToldDraft ==
    ASSUME NEW result \in Seq(Item), NEW h, NEW ids, NEW before, NEW after,
           Told(result, h, ids, before, after), Null \notin ids,
           NEW item \in Item, item.outcome = "DRAFT_CREATED",
           Len(result) + 1 \in DOMAIN h.cands,
           item.source = h.cands[Len(result) + 1].ref,
           LinkedTo(after, item.source) = Null,
           NEW later, LinkedTo(later, item.source) = item.restaurant,
           \A r \in Refs \ {item.source} : LinkedTo(later, r) = LinkedTo(after, r)
    PROVE  Told(Append(result, item), h, ids \cup {item.restaurant}, before, later)
  <1> DEFINE n == Len(result) + 1
             more == Append(result, item)
             grown == ids \cup {item.restaurant}
  <1>1. /\ n \in Nat /\ DOMAIN more = DOMAIN result \cup {n}
        /\ \A i \in DOMAIN result : more[i] = result[i]
        /\ more[n] = item
        /\ \A i \in Nat : Announcing(more, i) <=> Announcing(result, i) \/ i = n
    BY OneMore
  <1>2. \A i \in Nat : Announcing(result, i) =>
            i \in DOMAIN result /\ result[i].source \in Refs
    <2>1. \A i \in DOMAIN result : result[i] \in Item
      OBVIOUS
    <2> QED BY <2>1 DEF Announcing, Item
  <1>0. item.source \in Refs
    BY DEF Item
  <1> HIDE DEF more
  <1>3. \A i \in Nat : Announcing(result, i) => more[i] = result[i]
    BY <1>1, <1>2
  <1>4. \A i \in DOMAIN more :
            i \in DOMAIN h.cands /\ more[i].source = h.cands[i].ref
    BY <1>1 DEF Told
  <1> HIDE DEF n
  <1>5. \A i \in Nat : Announcing(result, i) => result[i].source # item.source
    BY DEF Told
  <1>6. LinkedTo(before, item.source) = Null
    BY <1>0, <1>5 DEF Told
  <1>7. \A i \in Nat : Announcing(more, i) =>
          /\ more[i].restaurant \in grown
          /\ LinkedTo(before, more[i].source) = Null
          /\ LinkedTo(later, more[i].source) = more[i].restaurant
    BY <1>1, <1>2, <1>3, <1>5, <1>6 DEF Told
  <1>8. \A id \in grown : \E i \in Nat :
          Announcing(more, i) /\ more[i].restaurant = id
    BY <1>1, <1>3 DEF Told
  <1>9. \A r \in Refs : LinkedTo(later, r) # LinkedTo(before, r)
          => \E i \in Nat : Announcing(more, i) /\ more[i].source = r
    BY <1>1, <1>3 DEF Told
  <1>10. Told(more, h, grown, before, later)
    BY <1>4, <1>7, <1>8, <1>9 DEF Told
  <1> QED BY <1>10 DEF more

(***************************************************************************)
(* What the writer of a manual creation, then of a link, has drafted.      *)
(***************************************************************************)
CreateProgress(s) ==
    /\ \E id \in Ids : DOMAIN draft[s].restaurant = {id}
    /\ DOMAIN draft[s].record = {} /\ DOMAIN draft[s].run = {}

LinkProgress(s) ==
    /\ DOMAIN draft[s].restaurant = {} /\ DOMAIN draft[s].run = {}
    /\ op[s].id \in Ids /\ op[s].ref \in Refs /\ restaurant[op[s].id] # Null
    /\ LinkedTo(record, op[s].ref) \in {Null, op[s].id}
    /\ \A r \in Refs : LinkedTo(Records(s), r) =
          IF r = op[s].ref THEN op[s].id ELSE LinkedTo(record, r)

(***************************************************************************)
(* The invariant of the refinement: each writer has drafted what the step  *)
(* of the ledger it will be must do.                                       *)
(***************************************************************************)
ProgressOf(s) ==
    /\ pc[s] = "scanning" /\ ~IsDry(s) => ImportProgress(s)
    /\ pc[s] = "committing" /\ op[s].kind = "import" /\ ~IsDry(s) =>
          \/ replayed[s] /\ draft[s] = NoDraft
          \/ /\ ~replayed[s] /\ ImportProgress(s)
             /\ DOMAIN draft[s].run = {op[s].command}
             /\ draft[s].run[op[s].command] = items[s]
    /\ pc[s] = "committing" /\ op[s].kind = "create" => CreateProgress(s)
    /\ pc[s] = "committing" /\ op[s].kind = "link" => LinkProgress(s)

Progress == \A s \in Sessions : ProgressOf(s)

LEMMA ProgressAlone ==
    ASSUME Progress, NEW s \in Sessions, record' = record,
           restaurant' = restaurant,
           \A t \in Sessions \ {s} :
                /\ pc'[t] = pc[t] /\ op'[t] = op[t] /\ draft'[t] = draft[t]
                /\ items'[t] = items[t] /\ replayed'[t] = replayed[t],
           ProgressOf(s)'
    PROVE  Progress'
  <1>1. ASSUME NEW t \in Sessions \ {s} PROVE ProgressOf(t)'
    <2>1. Records(t)' = Records(t) /\ IsDry(t)' = IsDry(t)
      BY DEF Records, IsDry
    <2>2. ImportProgress(t)' = ImportProgress(t)
      BY <2>1 DEF ImportProgress
    <2>3. CreateProgress(t)' = CreateProgress(t)
      BY DEF CreateProgress
    <2>4. LinkProgress(t)' = LinkProgress(t)
      BY <2>1 DEF LinkProgress, LinkedTo
    <2> QED BY <2>1, <2>2, <2>3, <2>4 DEF Progress, ProgressOf
  <1> QED BY <1>1 DEF Progress

(***************************************************************************)
(* Every step keeps it.                                                    *)
(***************************************************************************)
LEMMA ProgressNext ==
    TypeInv /\ Discipline /\ FreshSheets /\ Filed /\ Progress /\ [Next]_vars
    => Progress'
  <1> SUFFICES ASSUME TypeOK, Phased, Discipline, FreshSheets, Filed, Progress,
                      [Next]_vars
               PROVE  Progress'
    BY DEF TypeInv
  <1> USE DEF tables, session
  <1>0. DOMAIN NoDraft.run = {} /\ DOMAIN NoDraft.restaurant = {}
        /\ DOMAIN NoDraft.record = {}
    BY EmptyRows DEF NoDraft
  <1>1. ASSUME NEW s \in Sessions,
               \/ \E o \in Requests : Begin(s, o)
               \/ AcquireLock(s) \/ OpenSnapshot(s)
               \/ Reply(s) \/ Refuse(s) \/ Abort(s)
        PROVE  Progress'
    <2>1. /\ pc'[s] # "committing" /\ (pc'[s] = "scanning" => IsDry(s)')
          /\ restaurant' = restaurant /\ record' = record
          /\ \A t \in Sessions \ {s} :
                /\ pc'[t] = pc[t] /\ op'[t] = op[t] /\ draft'[t] = draft[t]
                /\ items'[t] = items[t] /\ replayed'[t] = replayed[t]
      BY <1>1 DEF TypeOK, Phased, Begin, AcquireLock, OpenSnapshot, IsDry,
                  Reply, Refuse, Abort, Rollback, EndSession
    <2> QED BY <2>1, ProgressAlone DEF ProgressOf
  <1>2. ASSUME NEW s \in Sessions, Replay(s) PROVE Progress'
    <2>1. /\ pc'[s] = "committing" /\ op'[s].kind = "import"
          /\ replayed'[s] /\ draft'[s] = NoDraft
          /\ restaurant' = restaurant /\ record' = record
          /\ \A t \in Sessions \ {s} :
                /\ pc'[t] = pc[t] /\ op'[t] = op[t] /\ draft'[t] = draft[t]
                /\ items'[t] = items[t] /\ replayed'[t] = replayed[t]
      BY <1>2 DEF TypeOK, Replay, Filed, FiledBy
    <2> QED BY <2>1, ProgressAlone DEF ProgressOf
  <1>3. ASSUME NEW s \in Sessions, StartScan(s) PROVE Progress'
    <2>1. /\ pc'[s] = "scanning" /\ draft'[s] = NoDraft /\ items'[s] = << >>
          /\ restaurant' = restaurant /\ record' = record
          /\ \A t \in Sessions \ {s} :
                /\ pc'[t] = pc[t] /\ op'[t] = op[t] /\ draft'[t] = draft[t]
                /\ items'[t] = items[t] /\ replayed'[t] = replayed[t]
      BY <1>3 DEF TypeOK, StartScan, Filed, FiledBy
    <2>2. Records(s)' = record' /\ DOMAIN items'[s] = {}
      BY <1>0, <2>1 DEF Records, Overlay, TypeOK
    <2>3. ImportProgress(s)'
      BY <1>0, <2>1, <2>2 DEF ImportProgress, Told, Announcing
    <2> QED BY <2>1, <2>3, ProgressAlone DEF ProgressOf
  <1>4. ASSUME NEW s \in Sessions,
               \/ SkipCandidate(s) \/ StageCandidate(s)
               \/ CreateDraft(s) \/ PlanDraft(s)
        PROVE  Progress'
    <2> DEFINE h == op[s].command
               n == Len(items[s]) + 1
    <2>1. /\ pc[s] = "scanning" /\ pc' = pc /\ op' = op /\ Scanning(s)
          /\ replayed' = replayed
          /\ restaurant' = restaurant /\ record' = record
          /\ \A t \in Sessions \ {s} :
                draft'[t] = draft[t] /\ items'[t] = items[t]
      BY <1>4 DEF SkipCandidate, StageCandidate, CreateDraft, PlanDraft,
                  Answer, Scanning, TypeOK
    <2>2. CASE IsDry(s)
      BY <2>1, <2>2, ProgressAlone DEF ProgressOf, IsDry
    <2>3. CASE ~IsDry(s)
      <3>1. h \in Command /\ Current(s) \in Candidate /\ Current(s).ref \in Refs
        BY <2>1, CommandType, CurrentType DEF Phased
      <3>2. /\ n \in Nat /\ n \in DOMAIN h.cands /\ n \notin DOMAIN items[s]
            /\ Current(s) = h.cands[n]
        BY <2>1, <3>1 DEF Scanning, TypeOK, Command, Current
      <3>3. ImportProgress(s)
        BY <2>1, <2>3 DEF Progress, ProgressOf
      <3>4. /\ items[s] \in Seq(Item) /\ Len(items[s]) + 1 \in DOMAIN h.cands
            /\ h.cands[Len(items[s]) + 1].ref = Current(s).ref
            /\ Told(items[s], h, DOMAIN draft[s].restaurant, record, Records(s))
        BY <3>2, <3>3 DEF ImportProgress, TypeOK
      <3>5. CASE SkipCandidate(s) \/ StageCandidate(s)
        <4> DEFINE id == IF SkipCandidate(s) THEN Null
                         ELSE LinkedTo(SeenRecords(s), Current(s).ref)
                   item == [source |-> Current(s).ref,
                            outcome |-> CurrentVerdict(s), restaurant |-> id]
        <4>1. /\ items' = [items EXCEPT ![s] = Append(@, item)]
              /\ CurrentVerdict(s) \in Outcome \ {"DRAFT_CREATED"}
          BY <3>5 DEF SkipCandidate, StageCandidate, Answer, Outcome
        <4>2. /\ item \in Item /\ item.outcome # "DRAFT_CREATED"
              /\ item.source = Current(s).ref
          BY <2>1, <3>1, <4>1, LinkedType DEF Item
        <4>3. /\ draft'[s].restaurant = draft[s].restaurant
              /\ \A r \in Refs : LinkedTo(Records(s)', r) = LinkedTo(Records(s), r)
          <5>1. CASE SkipCandidate(s)
            BY <5>1 DEF SkipCandidate, Records
          <5>2. CASE StageCandidate(s)
            <6>1. /\ draft'[s] = WithRecord(draft[s], Current(s).ref, Observation(s))
                  /\ IsDraft(draft[s])
              BY <2>3, <5>2 DEF StageCandidate, TypeOK
            <6>2. /\ draft'[s].restaurant = draft[s].restaurant
                  /\ Records(s)' = Overlay(Put(draft[s].record, Current(s).ref,
                                               Observation(s)), record)
              BY <2>1, <6>1, Fields DEF Records
            <6>3. Records(s)' = [Records(s) EXCEPT ![Current(s).ref] = Observation(s)]
              BY <3>1, <6>2, OverlayPut
            <6>4. /\ Observation(s).restaurant = LinkedTo(Records(s), Current(s).ref)
                  /\ Observation(s) # Null
              BY <2>1, <2>3, SeenByWriter, ObservationType, NullsAssumption
              DEF Observation, Upserted, LinkedTo
            <6> QED BY <6>2, <6>3, <6>4, WorldType DEF LinkedTo, RecordTable
          <5> QED BY <3>5, <5>1, <5>2
        <4> HIDE DEF item
        <4>4. items'[s] = Append(items[s], item)
          BY <4>1 DEF TypeOK
        <4>5. Told(Append(items[s], item), h, DOMAIN draft[s].restaurant,
                   record, Records(s)')
          BY <3>4, <4>2, <4>3, ToldOther
        <4>6. ImportProgress(s)'
          BY <2>1, <4>3, <4>4, <4>5 DEF ImportProgress
        <4> QED BY <2>1, <4>6, ProgressAlone DEF ProgressOf
      <3>6. CASE CreateDraft(s)
        <4> DEFINE r == Current(s).ref
                   sheet == NewSheet(Discovered(Current(s)), r)
                   row(id) == [Observation(s) EXCEPT !.restaurant = id]
        <4>1. PICK id \in FreshIds :
                /\ Answer(s, "DRAFT_CREATED", id)
                /\ draft' = [draft EXCEPT ![s] =
                      WithRecord(WithSheet(draft[s], id, sheet), r, row(id))]
          BY <3>6 DEF CreateDraft
        <4> DEFINE item == [source |-> r, outcome |-> "DRAFT_CREATED",
                            restaurant |-> id]
        <4>2. /\ id \in Ids /\ id \notin DOMAIN draft[s].restaurant
              /\ sheet \in Restaurant
          BY <2>1, <3>6, CurrentType, DraftedType, SheetType
          DEF CreateDraft, FreshIds
        <4>3. /\ item \in Item /\ item.outcome = "DRAFT_CREATED"
              /\ item.restaurant = id /\ item.source = Current(s).ref
              /\ items' = [items EXCEPT ![s] = Append(@, item)]
          BY <3>1, <4>1, <4>2 DEF Answer, Item, Outcome
        <4>4. draft'[s] = WithRecord(WithSheet(draft[s], id, sheet), r, row(id))
          BY <4>1 DEF TypeOK
        <4>5. IsDraft(draft[s]) /\ IsDraft(WithSheet(draft[s], id, sheet))
          BY <4>2, DraftWithSheet DEF TypeOK
        <4>6. row(id) \in Record /\ row(id).restaurant = id
          BY <2>1, <4>2, ObservationType DEF Record
        <4>7. LinkedTo(Records(s), r) = Null
          BY <2>1, <2>3, <3>6, SeenByWriter DEF CreateDraft, CurrentVerdict, Verdict
        <4> HIDE DEF sheet, row, item
        <4>8. /\ draft'[s].restaurant = Put(draft[s].restaurant, id, sheet)
              /\ draft'[s].record = Put(draft[s].record, r, row(id))
          BY <4>4, <4>5, Fields
        <4>9. Records(s)' = [Records(s) EXCEPT ![r] = row(id)]
          BY <2>1, <3>1, <4>8, OverlayPut DEF Records
        <4>10. /\ DOMAIN draft'[s].restaurant = DOMAIN draft[s].restaurant \cup {id}
               /\ LinkedTo(Records(s)', r) = id
               /\ \A q \in Refs \ {r} :
                    LinkedTo(Records(s)', q) = LinkedTo(Records(s), q)
          BY <3>1, <4>6, <4>8, <4>9, WorldType, NullsAssumption
          DEF LinkedTo, RecordTable, Put
        <4>11. items'[s] = Append(items[s], item)
          BY <4>3 DEF TypeOK
        <4>12. Null \notin DOMAIN draft[s].restaurant
          BY <4>5, NullsAssumption DEF IsDraft, IsRows
        <4>13. Told(Append(items[s], item), h, DOMAIN draft[s].restaurant \cup {id},
                    record, Records(s)')
          BY <3>4, <4>3, <4>7, <4>10, <4>12, ToldDraft
        <4>14. ImportProgress(s)'
          BY <2>1, <4>10, <4>11, <4>13 DEF ImportProgress
        <4> QED BY <2>1, <4>1, <4>14, ProgressAlone DEF ProgressOf
      <3> QED BY <1>4, <2>3, <3>5, <3>6 DEF PlanDraft
    <2> QED BY <2>2, <2>3
  <1>5. ASSUME NEW s \in Sessions, RecordRun(s) PROVE Progress'
    <2> DEFINE h == op[s].command
    <2>1. /\ pc[s] = "scanning" /\ pc'[s] = "committing" /\ IsDraft(draft[s])
          /\ ~IsDry(s) /\ op[s].kind = "import" /\ op' = op /\ items' = items
          /\ draft'[s] = WithRun(draft[s], h, items[s]) /\ replayed' = replayed
          /\ restaurant' = restaurant /\ record' = record
          /\ \A t \in Sessions \ {s} : pc'[t] = pc[t] /\ draft'[t] = draft[t]
      BY <1>5 DEF RecordRun, Scanned, TypeOK, Phased
    <2>2. /\ draft'[s].run = Put(draft[s].run, h, items[s])
          /\ draft'[s].restaurant = draft[s].restaurant
          /\ draft'[s].record = draft[s].record
      BY <2>1, Fields
    <2>3. /\ DOMAIN draft'[s].run = {h} /\ draft'[s].run[h] = items[s]
          /\ ~replayed[s]
      BY <2>1, <2>2 DEF Filed, FiledBy, Put
    <2>4. ImportProgress(s)
      BY <2>1 DEF Progress, ProgressOf
    <2>5. ImportProgress(s)'
      <3>1. Records(s)' = Records(s)
        BY <2>1, <2>2 DEF Records
      <3> QED BY <2>1, <2>2, <2>4, <3>1 DEF ImportProgress
    <2>6. ProgressOf(s)'
      BY <2>1, <2>3, <2>5 DEF ProgressOf
    <2> QED BY <2>1, <2>6, ProgressAlone
  <1>6. ASSUME NEW s \in Sessions, EndSimulation(s) PROVE Progress'
    <2>1. /\ pc'[s] = "committing" /\ IsDry(s)' /\ op'[s].kind = "import"
          /\ restaurant' = restaurant /\ record' = record
          /\ \A t \in Sessions \ {s} :
                /\ pc'[t] = pc[t] /\ op'[t] = op[t] /\ draft'[t] = draft[t]
                /\ items'[t] = items[t] /\ replayed'[t] = replayed[t]
      BY <1>6 DEF EndSimulation, TypeOK, IsDry
    <2> QED BY <2>1, ProgressAlone DEF ProgressOf
  <1>7. ASSUME NEW s \in Sessions, CreateRestaurant(s) PROVE Progress'
    <2>1. PICK id \in Ids : Creates(s, id)
      BY <1>7, CreateRestaurantGrows
    <2>2. /\ restaurant' = restaurant /\ record' = record
          /\ DOMAIN draft'[s].restaurant = DOMAIN draft[s].restaurant \cup {id}
          /\ draft'[s].record = draft[s].record /\ draft'[s].run = draft[s].run
          /\ draft[s] = NoDraft
          /\ pc'[s] = "committing" /\ op'[s].kind = "create"
          /\ \A t \in Sessions \ {s} :
                /\ pc'[t] = pc[t] /\ op'[t] = op[t] /\ draft'[t] = draft[t]
                /\ items'[t] = items[t] /\ replayed'[t] = replayed[t]
      BY <1>7, <2>1
      DEF Creates, Grown, Put, CreateRestaurant, TypeOK, Filed, FiledBy
    <2>3. CreateProgress(s)'
      BY <1>0, <2>2 DEF CreateProgress
    <2> QED BY <2>2, <2>3, ProgressAlone DEF ProgressOf
  <1>8. ASSUME NEW s \in Sessions, LinkCandidate(s) PROVE Progress'
    <2> DEFINE r == op[s].ref
               id == op[s].id
               row == [Records(s)[r] EXCEPT !.restaurant = id]
    <2>1. ~IsDry(s) /\ r \in Refs /\ id \in Ids
      BY <1>8, RequestsAssumption
      DEF LinkCandidate, Phased, ImportRequest, CreateRequest, LinkRequest, IsDry, Refs
    <2>2. /\ restaurant' = restaurant /\ record' = record /\ op' = op
          /\ draft'[s].restaurant = draft[s].restaurant
          /\ draft'[s].run = draft[s].run
          /\ draft'[s].record = Put(draft[s].record, r, row)
          /\ draft[s] = NoDraft
          /\ pc'[s] = "committing" /\ op[s].kind = "link"
          /\ \A t \in Sessions \ {s} :
                /\ pc'[t] = pc[t] /\ draft'[t] = draft[t]
                /\ items'[t] = items[t] /\ replayed'[t] = replayed[t]
      <3>1. SeenRecords(s) = Records(s)
        BY <2>1, SeenByWriter
      <3>2. Attaches(s)
        BY <1>8, LinkCandidateGrows
      <3>3. /\ draft'[s].restaurant = draft[s].restaurant
            /\ draft'[s].run = draft[s].run
            /\ draft'[s].record = Put(draft[s].record, r, row)
            /\ \A t \in Sessions \ {s} : draft'[t] = draft[t]
        BY <3>1, <3>2 DEF Attaches, Grown
      <3>4. /\ restaurant' = restaurant /\ record' = record /\ op' = op
            /\ items' = items /\ replayed' = replayed
            /\ pc[s] = "locked" /\ op[s].kind = "link"
            /\ pc' = [pc EXCEPT ![s] = "committing"]
        BY <1>8 DEF LinkCandidate
      <3>5. draft[s] = NoDraft
        BY <3>4 DEF Filed, FiledBy
      <3> QED BY <3>3, <3>4, <3>5 DEF TypeOK
    <2>3. Sheets(s) = restaurant /\ Records(s) = record
      BY <2>2, NothingOfItsOwn
    <2>4. /\ record[r] # Null /\ restaurant[id] # Null
          /\ LinkedTo(record, r) \in {Null, id}
      <3>1. SeenRecords(s) = record /\ SeenRestaurants(s) = restaurant
        BY <2>1, <2>3, SeenByWriter
      <3> QED BY <1>8, <3>1 DEF LinkCandidate, CanLink, LinkedTo
    <2>5. row \in Record /\ row.restaurant = id
      <3>1. Records(s)[r] \in Record
        BY <2>1, <2>3, <2>4 DEF TypeOK
      <3> QED BY <2>1, <3>1 DEF Record
    <2> HIDE DEF row
    <2>6. Records(s)' = [record EXCEPT ![r] = row]
      <3>1. Overlay(Put(draft[s].record, r, row), record) = [record EXCEPT ![r] = row]
        BY <2>1, <2>3, OverlayPut
      <3> QED BY <2>2, <3>1 DEF Records
    <2>7. \A q \in Refs : LinkedTo(Records(s)', q)
                            = IF q = r THEN id ELSE LinkedTo(record, q)
      BY <2>1, <2>5, <2>6, NullsAssumption DEF LinkedTo, TypeOK
    <2>8. LinkProgress(s)'
      BY <1>0, <2>1, <2>2, <2>4, <2>7 DEF LinkProgress
    <2>9. ProgressOf(s)'
      BY <2>2, <2>8 DEF ProgressOf
    <2> QED BY <2>2, <2>9, ProgressAlone
  <1>9. ASSUME NEW s \in Sessions, Commit(s) PROVE Progress'
    <2>1. /\ pc'[s] = "answered"
          /\ \A t \in Sessions \ {s} :
                /\ pc'[t] = pc[t] /\ op'[t] = op[t] /\ draft'[t] = draft[t]
                /\ items'[t] = items[t] /\ replayed'[t] = replayed[t]
      BY <1>9 DEF Commit, TypeOK
    <2>2. ProgressOf(s)'
      BY <2>1 DEF ProgressOf
    <2>3. CASE IsDry(s)
      <3>1. draft[s] = NoDraft
        BY <1>9, <2>3, NullsAssumption DEF Discipline, Holds, Commit
      <3>2. restaurant' = restaurant /\ record' = record
        BY <1>0, <1>9, <3>1 DEF Commit, Overlay, TypeOK
      <3> QED BY <2>1, <2>2, <3>2, ProgressAlone
    <2>4. CASE ~IsDry(s)
      <3>1. lock = s
        BY <1>9, <2>4 DEF Discipline, Holds, Commit
      <3>2. ASSUME NEW t \in Sessions \ {s} PROVE ProgressOf(t)'
        BY <2>1, <3>1 DEF Discipline, Holds, ProgressOf, IsDry
      <3> QED BY <2>2, <3>2 DEF Progress
    <2> QED BY <2>3, <2>4
  <1>10. ASSUME NEW id \in Ids, NEW e \in Edits, UpdateRestaurant(id, e)
        PROVE  Progress'
    <2>1. \A x \in Ids : restaurant[x] # Null => restaurant'[x] # Null
      BY EditStep DEF TypeInv, Exists
    <2>2. /\ record' = record /\ op' = op /\ pc' = pc /\ items' = items
          /\ draft' = draft /\ replayed' = replayed
      BY <1>10 DEF UpdateRestaurant
    <2>3. ASSUME NEW s \in Sessions PROVE ProgressOf(s)'
      <3>1. Records(s)' = Records(s) /\ IsDry(s)' = IsDry(s)
        BY <2>2 DEF Records, IsDry
      <3>2. ImportProgress(s)' = ImportProgress(s)
        BY <2>2, <3>1 DEF ImportProgress
      <3>3. CreateProgress(s)' = CreateProgress(s)
        BY <2>2 DEF CreateProgress
      <3>4. LinkProgress(s) => LinkProgress(s)'
        BY <2>1, <2>2, <3>1 DEF LinkProgress, LinkedTo
      <3> QED BY <2>2, <3>1, <3>2, <3>3, <3>4 DEF Progress, ProgressOf
    <2> QED BY <2>3 DEF Progress
  <1>11. CASE UNCHANGED vars
    <2>1. /\ record' = record /\ restaurant' = restaurant /\ op' = op /\ pc' = pc
          /\ items' = items /\ draft' = draft /\ replayed' = replayed
      BY <1>11 DEF vars
    <2>2. ASSUME NEW s \in Sessions PROVE ProgressOf(s)'
      <3>1. Records(s)' = Records(s) /\ IsDry(s)' = IsDry(s)
        BY <2>1 DEF Records, IsDry
      <3>2. /\ ImportProgress(s)' = ImportProgress(s)
            /\ CreateProgress(s)' = CreateProgress(s)
            /\ LinkProgress(s)' = LinkProgress(s)
        BY <2>1, <3>1 DEF ImportProgress, CreateProgress, LinkProgress, LinkedTo
      <3> QED BY <2>1, <3>1, <3>2 DEF Progress, ProgressOf
    <2> QED BY <2>2 DEF Progress
  <1> QED
    BY <1>1, <1>2, <1>3, <1>4, <1>5, <1>6, <1>7, <1>8, <1>9, <1>10, <1>11
    DEF Next, ImportStep, ManualStep

(***************************************************************************)
(* The sheet a source was drafted as, by the result of an import whose     *)
(* sources are distinct.                                                   *)
(***************************************************************************)
LEMMA DraftedAsItem ==
    ASSUME NEW result, NEW r,
           \A i, j \in DOMAIN result : result[i].source = result[j].source => i = j,
           NEW i \in DOMAIN result, result[i].source = r,
           result[i].outcome = "DRAFT_CREATED"
    PROVE  DraftedAs(result, r) = result[i].restaurant
  <1> DEFINE drafted == {k \in DOMAIN result : /\ result[k].source = r
                                               /\ result[k].outcome = "DRAFT_CREATED"}
  <1>1. i \in drafted /\ \A k \in drafted : k = i
    OBVIOUS
  <1>2. (CHOOSE k \in drafted : TRUE) = i
    BY <1>1
  <1> QED BY <1>1, <1>2 DEF DraftedAs

LEMMA DraftedAsNone ==
    ASSUME NEW result, NEW r,
           \A i \in DOMAIN result : result[i].outcome = "DRAFT_CREATED"
                => result[i].source # r
    PROVE  DraftedAs(result, r) = Null
  BY DEF DraftedAs

LEMMA LedgerInit == Init => L!Init
  BY DEF Init, L!Init, Exists, LinkedTo

(***************************************************************************)
(* The commit of a fresh import is one Ingest of the ledger.               *)
(***************************************************************************)
LEMMA ImportIngests ==
    ASSUME TypeOK, Phased, Discipline, FreshSheets, Filed, AccountedAll, Progress,
           NEW s \in Sessions, Commit(s), ~IsDry(s), op[s].kind = "import",
           ~replayed[s], ImportProgress(s),
           DOMAIN draft[s].run = {op[s].command},
           draft[s].run[op[s].command] = items[s]
    PROVE  L!Next
  <1> DEFINE h == op[s].command
             born == [r \in SourcesOf(h) |-> DraftedAs(items[s], r)]
             ids == DOMAIN draft[s].restaurant
  <1>1. /\ h \in Commands /\ h \in Command /\ NamesEachSourceOnce(h)
        /\ SourcesOf(h) \subseteq Refs
    <2>1. h \in Commands /\ h \in Command /\ NamesEachSourceOnce(h)
      BY CommandType, CommandsAssumption DEF Commit, Phased
    <2>2. \A i \in DOMAIN h.cands : h.cands[i].ref \in Refs
      <3>1. h.cands \in Seq(Candidate)
        BY <2>1 DEF Command
      <3>2. \A i \in DOMAIN h.cands : h.cands[i] \in Candidate
        BY <3>1
      <3> QED BY <3>2 DEF Candidate
    <2> QED BY <2>1, <2>2 DEF SourcesOf
  <1>2. importRun[h] = Null
    BY DEF Filed, FiledBy
  <1>3. /\ restaurant' = Sheets(s) /\ record' = Records(s)
        /\ importRun' = [importRun EXCEPT ![h] = items[s]]
    <2>1. Overlay(draft[s].run, importRun) = [importRun EXCEPT ![h] = items[s]]
      BY DEF Overlay, TypeOK
    <2> QED BY <2>1 DEF Commit, Sheets, Records
  <1>4. /\ items[s] \in Seq(Item) /\ ids \subseteq Ids
        /\ \A id \in ids : restaurant[id] = Null
        /\ \A id \in ids : draft[s].restaurant[id] # Null
    BY NullsAssumption DEF TypeOK, IsDraft, IsRows, FreshSheets
  <1>5. \A i \in DOMAIN items[s] :
            /\ items[s][i].source \in SourcesOf(h) /\ i \in Nat
            /\ items[s][i] \in Item
    <2>1. \A i \in DOMAIN items[s] : i \in Nat /\ items[s][i] \in Item
      BY <1>4
    <2> QED BY <2>1 DEF ImportProgress, Told, SourcesOf
  <1>6. \A i, j \in DOMAIN items[s] :
            items[s][i].source = items[s][j].source => i = j
    <2>1. DOMAIN h.cands = 1..Len(h.cands)
      BY <1>1 DEF Command
    <2> QED BY <1>1, <2>1 DEF ImportProgress, Told, NamesEachSourceOnce
  <1>7. \A i \in DOMAIN items[s] : items[s][i].outcome = "DRAFT_CREATED"
            => DraftedAs(items[s], items[s][i].source) = items[s][i].restaurant
    BY <1>6, DraftedAsItem
  <1>8. ASSUME NEW r \in SourcesOf(h), born[r] # Null
        PROVE  \E i \in Nat : Announcing(items[s], i) /\ items[s][i].source = r
                              /\ items[s][i].restaurant = born[r]
    <2>1. PICK i \in DOMAIN items[s] :
            items[s][i].outcome = "DRAFT_CREATED" /\ items[s][i].source = r
      BY <1>8, DraftedAsNone
    <2> QED BY <1>5, <1>7, <2>1 DEF Announcing
  <1>9. \A i \in Nat : Announcing(items[s], i) =>
            /\ items[s][i].source \in SourcesOf(h)
            /\ born[items[s][i].source] = items[s][i].restaurant
    BY <1>5, <1>7 DEF Announcing
  <1>10. \A i \in Nat : Announcing(items[s], i) =>
            /\ items[s][i].restaurant \in ids
            /\ LinkedTo(record, items[s][i].source) = Null
            /\ LinkedTo(record', items[s][i].source) = items[s][i].restaurant
    BY <1>3 DEF ImportProgress, Told
  <1>11. \A i, j \in Nat :
            (/\ Announcing(items[s], i) /\ Announcing(items[s], j)
             /\ items[s][i].restaurant = items[s][j].restaurant)
            => i = j
    <2>1. Overlay(draft[s].run, importRun) = [importRun EXCEPT ![h] = items[s]]
      BY DEF Overlay, TypeOK
    <2>2. Results(s) = [importRun EXCEPT ![h] = items[s]]
      BY <2>1 DEF Results, Commit
    <2>3. Results(s)[h] = items[s] /\ items[s] # Null
      BY <1>1, <1>4, <2>2, NullsAssumption DEF TypeOK
    <2>4. \A i \in Nat, id \in Ids :
              Announcing(items[s], i) /\ items[s][i].restaurant = id
              => Announces(Results(s), h, i, id)
      BY <2>3 DEF Announcing, Announces
    <2> QED BY <1>1, <1>4, <1>10, <2>4 DEF AccountedAll, Accounted
  <1>12. born \in [SourcesOf(h) -> Ids \cup {Null}]
    <2>1. \A r \in SourcesOf(h) : born[r] # Null => born[r] \in Ids
      BY <1>4, <1>8, <1>10
    <2> QED BY <2>1
  <1> HIDE DEF born, ids, h
  <1>13. \A r \in SourcesOf(h) : born[r] # Null =>
            /\ r \in Refs /\ LinkedTo(record, r) = Null /\ born[r] \in ids
            /\ LinkedTo(record', r) = born[r]
            /\ \A q \in SourcesOf(h) : born[q] = born[r] => q = r
    <2> SUFFICES ASSUME NEW r \in SourcesOf(h), born[r] # Null
                 PROVE  /\ r \in Refs /\ LinkedTo(record, r) = Null /\ born[r] \in ids
                        /\ LinkedTo(record', r) = born[r]
                        /\ \A q \in SourcesOf(h) : born[q] = born[r] => q = r
      OBVIOUS
    <2>1. PICK i \in Nat : Announcing(items[s], i) /\ items[s][i].source = r
                           /\ items[s][i].restaurant = born[r]
      BY <1>8
    <2>2. ASSUME NEW q \in SourcesOf(h), born[q] = born[r] PROVE q = r
      <3>1. PICK j \in Nat : Announcing(items[s], j) /\ items[s][j].source = q
                             /\ items[s][j].restaurant = born[q]
        BY <1>8, <2>2
      <3> QED BY <1>11, <2>1, <2>2, <3>1
    <2> QED BY <1>1, <1>10, <2>1, <2>2
  <1>14. \A id \in ids : \E r \in SourcesOf(h) : born[r] = id
    BY <1>9 DEF ImportProgress, Told, ids
  <1>15. {id \in Ids : restaurant'[id] # Null}
            = {id \in Ids : restaurant[id] # Null}
              \cup ({born[r] : r \in SourcesOf(h)} \ {Null})
    <2>1. \A id \in Ids : restaurant'[id] # Null
                            <=> restaurant[id] # Null \/ id \in ids
      BY <1>3, <1>4 DEF Sheets, Overlay, TypeOK, ids
    <2>2. \A x : x \in {born[r] : r \in SourcesOf(h)} \ {Null} <=> x \in ids
      <3>1. Null \notin ids
        BY <1>4, NullsAssumption
      <3> QED BY <1>13, <1>14, <3>1
    <2> QED BY <1>4, <2>1, <2>2
  <1>16. \A r \in Refs : LinkedTo(record', r) =
            IF r \in SourcesOf(h) /\ born[r] # Null THEN born[r]
            ELSE LinkedTo(record, r)
    <2> SUFFICES ASSUME NEW r \in Refs, LinkedTo(record', r) # LinkedTo(record, r)
                 PROVE  r \in SourcesOf(h) /\ born[r] # Null
      BY <1>13
    <2>1. PICK i \in Nat : Announcing(items[s], i) /\ items[s][i].source = r
      BY <1>3 DEF ImportProgress, Told
    <2> QED BY <1>4, <1>9, <1>10, <2>1, NullsAssumption
  <1>17. \A g \in Commands :
            (IF importRun'[g] = Null THEN Null
             ELSE [r \in SourcesOf(g) |-> DraftedAs(importRun'[g], r)])
            = IF g = h THEN born
              ELSE IF importRun[g] = Null THEN Null
              ELSE [r \in SourcesOf(g) |-> DraftedAs(importRun[g], r)]
    <2>1. items[s] # Null
      BY <1>4, NullsAssumption
    <2>2. \A g \in Commands : importRun'[g] = IF g = h THEN items[s] ELSE importRun[g]
      BY <1>3 DEF TypeOK
    <2> QED BY <2>1, <2>2 DEF born
  <1>18. PICK g \in Commands : g = h
    BY <1>1
  <1>19. PICK b \in [SourcesOf(g) -> Ids \cup {Null}] : b = born
    BY <1>12, <1>18
  <1>20. L!Ingest(g, b)
    <2> DEFINE sheets == {id \in Ids : Exists(id)}
               link == [r \in Refs |-> LinkedTo(record, r)]
               runs == [x \in Commands |->
                          IF importRun[x] = Null THEN Null
                          ELSE [r \in SourcesOf(x) |-> DraftedAs(importRun[x], r)]]
    <2>1. runs[g] = Null
      BY <1>2, <1>18
    <2>2. \A r \in SourcesOf(g) : b[r] # Null =>
            /\ link[r] = Null /\ b[r] \notin sheets
            /\ \A q \in SourcesOf(g) : b[q] = b[r] => q = r
      BY <1>4, <1>13, <1>18, <1>19 DEF Exists
    <2>3. sheets' = sheets \cup ({b[r] : r \in SourcesOf(g)} \ {Null})
      BY <1>15, <1>18, <1>19 DEF Exists
    <2>4. link' = [r \in Refs |->
            IF r \in SourcesOf(g) /\ b[r] # Null THEN b[r] ELSE link[r]]
      BY <1>16, <1>18, <1>19
    <2>5. runs' = [runs EXCEPT ![g] = b]
      BY <1>17, <1>18, <1>19
    <2> QED BY <2>1, <2>2, <2>3, <2>4, <2>5 DEF L!Ingest
  <1> QED BY <1>20 DEF L!Next

(***************************************************************************)
(* The commit of a manual creation is one Add, that of a manual link one   *)
(* Link or nothing new.                                                    *)
(***************************************************************************)
LEMMA ManualSettles ==
    ASSUME TypeOK, Phased, Discipline, FreshSheets, Progress,
           NEW s \in Sessions, Commit(s), op[s].kind \in {"create", "link"}
    PROVE  L!Next \/ UNCHANGED L!ledger
  <1>1. /\ restaurant' = Sheets(s) /\ record' = Records(s)
        /\ importRun' = Overlay(draft[s].run, importRun)
    BY DEF Commit, Sheets, Records
  <1>2. \A x \in Ids : restaurant'[x] # Null
            <=> restaurant[x] # Null \/ x \in DOMAIN draft[s].restaurant
    BY <1>1, NullsAssumption
    DEF Sheets, Overlay, TypeOK, IsDraft, IsRows, FreshSheets
  <1> DEFINE sheets == {id \in Ids : Exists(id)}
             link == [r \in Refs |-> LinkedTo(record, r)]
             runs == [x \in Commands |->
                        IF importRun[x] = Null THEN Null
                        ELSE [r \in SourcesOf(x) |-> DraftedAs(importRun[x], r)]]
  <1>3. CASE op[s].kind = "create"
    <2>1. PICK id \in Ids : DOMAIN draft[s].restaurant = {id}
      BY <1>3 DEF Progress, ProgressOf, CreateProgress, Commit
    <2>2. record' = record /\ importRun' = importRun
      BY <1>1, <1>3
      DEF Progress, ProgressOf, CreateProgress, Commit, Records, Overlay, TypeOK
    <2>3. restaurant[id] = Null
      BY <2>1 DEF FreshSheets
    <2>4. /\ id \notin sheets /\ sheets' = sheets \cup {id}
          /\ link' = link /\ runs' = runs
      BY <1>2, <2>1, <2>2, <2>3 DEF Exists
    <2>5. L!Add(id)
      BY <2>4 DEF L!Add
    <2> QED BY <2>5 DEF L!Next
  <1>4. CASE op[s].kind = "link"
    <2>1. LinkProgress(s)
      BY <1>4 DEF Progress, ProgressOf, Commit
    <2>2. PICK r \in Refs, id \in Ids : r = op[s].ref /\ id = op[s].id
      BY <2>1 DEF LinkProgress
    <2>3. /\ importRun' = importRun /\ restaurant[id] # Null
          /\ LinkedTo(record, r) \in {Null, id}
          /\ \A q \in Refs : LinkedTo(record', q)
                = IF q = r THEN id ELSE LinkedTo(record, q)
      BY <1>1, <2>1, <2>2 DEF LinkProgress, Overlay, TypeOK
    <2>4. \A x \in Ids : restaurant'[x] # Null <=> restaurant[x] # Null
      BY <1>2, <2>1 DEF LinkProgress
    <2>5. sheets' = sheets /\ runs' = runs /\ id \in sheets
      BY <2>3, <2>4 DEF Exists
    <2>6. CASE LinkedTo(record, r) = Null
      <3>1. link[r] = Null /\ link' = [link EXCEPT ![r] = id]
        BY <2>3, <2>6
      <3>2. L!Link(r, id)
        BY <2>5, <3>1 DEF L!Link
      <3> QED BY <3>2 DEF L!Next
    <2>7. CASE LinkedTo(record, r) = id
      <3>1. link' = link
        BY <2>3, <2>7
      <3> QED BY <2>5, <3>1 DEF L!ledger
    <2> QED BY <2>3, <2>6, <2>7
  <1> QED BY <1>3, <1>4

(***************************************************************************)
(* A step changes the committed tables by a commit or by an edit only.     *)
(***************************************************************************)
LEMMA TableSteps ==
    ASSUME [Next]_vars
    PROVE  \/ UNCHANGED tables
           \/ \E s \in Sessions : Commit(s)
           \/ \E id \in Ids, e \in Edits : UpdateRestaurant(id, e)
  <1> SUFFICES ASSUME ~UNCHANGED tables
               PROVE  \/ \E s \in Sessions : Commit(s)
                      \/ \E id \in Ids, e \in Edits : UpdateRestaurant(id, e)
    OBVIOUS
  <1>1. ~UNCHANGED vars
    BY DEF vars
  <1>2. \A s \in Sessions :
          /\ \A o \in Requests : ~Begin(s, o)
          /\ ~AcquireLock(s) /\ ~Reply(s) /\ ~Abort(s)
    BY DEF Begin, AcquireLock, Reply, Abort, Rollback
  <1>3. \A s \in Sessions : ~ImportStep(s)
    BY DEF ImportStep, OpenSnapshot, Replay, StartScan, SkipCandidate,
           StageCandidate, CreateDraft, PlanDraft, RecordRun, EndSimulation
  <1>4. \A s \in Sessions : ~ManualStep(s)
    BY DEF ManualStep, CreateRestaurant, LinkCandidate, Refuse, Rollback
  <1> QED BY <1>1, <1>2, <1>3, <1>4 DEF Next

(***************************************************************************)
(* A commit is the step of the ledger, and every other step is none.       *)
(***************************************************************************)
LEMMA LedgerStep ==
    TypeInv /\ Discipline /\ FreshSheets /\ Filed /\ AccountedAll /\ Progress
    /\ [Next]_vars
    => [L!Next]_(L!ledger)
  <1> SUFFICES ASSUME TypeOK, Phased, Discipline, FreshSheets, Filed,
                      AccountedAll, Progress, [Next]_vars
               PROVE  L!Next \/ UNCHANGED L!ledger
    BY DEF TypeInv
  <1>0. DOMAIN NoDraft.run = {} /\ DOMAIN NoDraft.restaurant = {}
        /\ DOMAIN NoDraft.record = {}
    BY EmptyRows DEF NoDraft
  <1> DEFINE sheets == {id \in Ids : Exists(id)}
             link == [r \in Refs |-> LinkedTo(record, r)]
             runs == [x \in Commands |->
                        IF importRun[x] = Null THEN Null
                        ELSE [r \in SourcesOf(x) |-> DraftedAs(importRun[x], r)]]
  <1>1. ASSUME record' = record, importRun' = importRun,
               \A id \in Ids : restaurant'[id] # Null <=> restaurant[id] # Null
        PROVE  UNCHANGED L!ledger
    <2>1. sheets' = sheets /\ link' = link /\ runs' = runs
      BY <1>1 DEF Exists
    <2> QED BY <2>1 DEF L!ledger
  <1>2. CASE UNCHANGED tables
    BY <1>1, <1>2 DEF tables
  <1>3. ASSUME NEW s \in Sessions, Commit(s)
        PROVE  L!Next \/ UNCHANGED L!ledger
    <2>1. CASE draft[s] = NoDraft
      <3>1. /\ restaurant' = restaurant /\ record' = record
            /\ importRun' = importRun
        BY <1>0, <1>3, <2>1 DEF Commit, Overlay, TypeOK
      <3> QED BY <1>1, <3>1
    <2>2. CASE op[s].kind \in {"create", "link"}
      BY <1>3, <2>2, ManualSettles
    <2>3. CASE op[s].kind = "import" /\ draft[s] # NoDraft
      <3>1. ~IsDry(s)
        BY <1>3, <2>3, NullsAssumption DEF Discipline, Holds, Commit
      <3>2. /\ ~replayed[s] /\ ImportProgress(s)
            /\ DOMAIN draft[s].run = {op[s].command}
            /\ draft[s].run[op[s].command] = items[s]
        BY <1>3, <2>3, <3>1 DEF Progress, ProgressOf, Commit
      <3> QED BY <1>3, <2>3, <3>1, <3>2, ImportIngests
    <2>4. op[s].kind \in {"import", "create", "link"}
      BY <1>3, RequestsAssumption
      DEF Commit, Phased, ImportRequest, CreateRequest, LinkRequest
    <2> QED BY <2>1, <2>2, <2>3, <2>4
  <1>4. ASSUME NEW id \in Ids, NEW e \in Edits, UpdateRestaurant(id, e)
        PROVE  UNCHANGED L!ledger
    <2>1. \A x \in Ids : restaurant[x] # Null => restaurant'[x] # Null
      BY EditStep DEF TypeInv, Exists
    <2>2. \A x \in Ids : restaurant'[x] # Null => restaurant[x] # Null
      BY <1>4 DEF UpdateRestaurant, TypeOK
    <2> QED BY <1>1, <1>4, <2>1, <2>2 DEF UpdateRestaurant
  <1> QED BY <1>2, <1>3, <1>4, TableSteps

(***************************************************************************)
(* Whatever interleaves, the committed tables move as the ledger does.     *)
(***************************************************************************)
THEOREM ImplementsLedger == Spec => AtomicLedger
  <1>1. Init => Unfiled
    BY DEF Init, Unfiled
  <1>2. Init => Progress
    BY DEF Init, Progress, ProgressOf
  <1> QED
    BY <1>1, <1>2, LedgerInit, LedgerStep, ProgressNext,
       AccountedInit, AccountedNext, FiledInit, FiledNext,
       UnfiledNext, CoherentInit, FreshSheetsNext,
       TypeInit, TypeNext, DisciplineInit, DisciplineNext,
       PTL DEF Spec, AtomicLedger, L!Spec
=============================================================================
