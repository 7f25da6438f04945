--------------------------- MODULE CollectorProofs ---------------------------
(***************************************************************************)
(* What holds of the runs that share a cache directory for any number of   *)
(* runs and areas and any durations.                                       *)
(***************************************************************************)
EXTENDS Collector, TLAPS

(***************************************************************************)
(* A run that holds has the lock file behind it, alone; the file left by   *)
(* nobody is owed to a crash; a run that may send has attempts left; a     *)
(* whole temporary file awaits the run that renames it; the stamp is not   *)
(* older than the last collection; a run that found it old enough still    *)
(* would when it writes its own.                                           *)
(***************************************************************************)
LockHeld == \A p \in Runs : pc[p] \in Holding => lock
Locks == LockHeld /\ OneCollector /\ OrphanNeedsCrash
AttemptsLeft == \A p \in Runs : pc[p] \in {"sending", "pausing"} => attempts[p] < Attempts
TempWhole == \A p \in Runs : pc[p] = "renaming" => temp[area[p]] = 0
CacheWhole == \A a \in Areas : cache[a] # Part
MarkDates == mark <= began
Compared == \A p \in Runs : pc[p] = "stamping" => mark = RateLimit

IInv ==
    TypeOK /\ Locks /\ AttemptsLeft /\ TempWhole /\ CacheWhole /\ MarkDates
           /\ Compared

(***************************************************************************)
(* Ages stay within their limit.                                           *)
(***************************************************************************)
LEMMA OlderType ==
    ASSUME NEW n \in Nat, NEW age \in Upto(n)
    PROVE  Older(age, n) \in Upto(n)
  BY DEF Older, Upto

LEMMA AgedType ==
    ASSUME NEW contents \in [Areas -> Contents]
    PROVE  Aged(contents) \in [Areas -> Contents]
<1>1. ASSUME NEW a \in Areas, contents[a] \in Nat
      PROVE  Older(contents[a], CacheLife) \in Contents
  <2>1. contents[a] \in Upto(CacheLife)
    BY <1>1, CollectorAssumption DEF Contents, Upto
  <2>2. QED BY <2>1, OlderType, CollectorAssumption DEF Contents
<1>2. QED BY <1>1 DEF Aged

LEMMA DelaysType ==
    /\ 0 \in Upto(RateLimit) /\ 0 \in Upto(Attempts)
    /\ Timeout \in Delays
    /\ 0 \in Delays
    /\ \A d \in Nat : d <= MaxWait => d \in Delays
    /\ \A d \in Delays : d \in Nat /\ (d > 0 => d - 1 \in Delays)
  BY CollectorAssumption DEF Delays, Upto, Attempts

(***************************************************************************)
(* The actions of a run that are not defined by others: AnswerTimesOut,    *)
(* NetworkFails and Unavailable are RetryAfter, BodyTimesOut is            *)
(* BodyRefused.                                                            *)
(***************************************************************************)
Acts(p) ==
    \/ UseCache(p) \/ RefuseOffline(p) \/ DecideToCollect(p) \/ TakeLock(p)
    \/ RefuseLock(p) \/ RefuseRate(p) \/ RateRespected(p) \/ Stamp(p)
    \/ StampFails(p) \/ Send(p)
    \/ Resume(p) \/ Rejected(p) \/ Answered(p) \/ BodyRefused(p)
    \/ BodyAccepted(p) \/ Store(p) \/ StoreFails(p) \/ Rename(p)
    \/ RenameFails(p) \/ Leave(p) \/ Crash(p)
    \/ \E delay \in Nat : RetryAfter(p, delay)

LEMMA StepsAreActs ==
    ASSUME TypeOK, NEW p \in Runs
    PROVE  Step(p) \/ Told(p) => Acts(p)
<1>1. attempts[p] * Backoff \in Nat
  BY CollectorAssumption DEF TypeOK, Upto, Attempts
<1>2. NetworkFails(p) => \E delay \in Nat : RetryAfter(p, delay)
  BY <1>1 DEF NetworkFails
<1>3. ASSUME NEW asks \in RetryAfters
      PROVE  Unavailable(p, asks) => \E delay \in Nat : RetryAfter(p, delay)
  <2>1. Largest(attempts[p] * Backoff, asks) \in Nat
    BY <1>1, CollectorAssumption DEF Largest
  <2>2. QED BY <2>1 DEF Unavailable
<1>4. QED
  BY <1>2, <1>3 DEF Step, Told, Acts, AnswerTimesOut, BodyTimesOut

(***************************************************************************)
(* Ending leaves the variables of the runs typed.                          *)
(***************************************************************************)
LEMMA ExitType ==
    ASSUME TypeOK, NEW p \in Runs, Exit(p)
    PROVE  /\ pc' \in [Runs -> Places]
           /\ area' \in [Runs -> Areas]
           /\ offline' \in [Runs -> BOOLEAN]
           /\ attempts' \in [Runs -> Upto(Attempts)]
           /\ timer' \in [Runs -> Delays]
<1>1. "idle" \in Places
  BY DEF Places
<1>2. QED BY <1>1, DelaysType DEF TypeOK, Exit

(***************************************************************************)
(* One step preserves the types.                                           *)
(***************************************************************************)
LEMMA TypeStep == TypeOK /\ AttemptsLeft /\ [Next]_vars => TypeOK'
<1> SUFFICES ASSUME TypeOK, AttemptsLeft, [Next]_vars PROVE TypeOK'
  OBVIOUS
<1> USE CollectorAssumption, DelaysType
<1>1. ASSUME NEW p \in Runs, NEW a \in Areas, NEW off \in BOOLEAN, Start(p, a, off)
      PROVE  TypeOK'
  BY <1>1 DEF TypeOK, Start, Goto, Places, files, history
<1>2. ASSUME NEW p \in Runs, Acts(p)
      PROVE  TypeOK'
  <2>1. CASE UseCache(p)
    BY <2>1, ExitType DEF TypeOK, UseCache, End, files, history
  <2>2. CASE RefuseOffline(p)
    BY <2>2, ExitType DEF TypeOK, RefuseOffline, End, files, history
  <2>3. CASE DecideToCollect(p)
    BY <2>3 DEF TypeOK, DecideToCollect, Goto, Places, Holding, files, local, history
  <2>4. CASE TakeLock(p)
    BY <2>4 DEF TypeOK, TakeLock, Goto, Places, Holding, local, history
  <2>5. CASE RefuseLock(p)
    BY <2>5, ExitType DEF TypeOK, RefuseLock, End, files, history
  <2>6. CASE RefuseRate(p)
    BY <2>6 DEF TypeOK, RefuseRate, Goto, Places, Holding, files, local, history
  <2>7. CASE Stamp(p)
    <3>1. pc' \in [Runs -> Places]
      BY <2>7 DEF TypeOK, Stamp, Goto, Places, Holding
    <3>2. attempts' \in [Runs -> Upto(Attempts)]
      BY <2>7 DEF TypeOK, Stamp
    <3>3. QED BY <2>7, <3>1, <3>2 DEF TypeOK, Stamp
  <2>8. CASE Send(p)
    <3>1. attempts[p] + 1 \in Upto(Attempts)
      BY <2>8 DEF TypeOK, AttemptsLeft, Send, Goto, Upto, Attempts
    <3>2. pc' \in [Runs -> Places]
      BY <2>8 DEF TypeOK, Send, Goto, Places, Holding
    <3>3. QED BY <2>8, <3>1, <3>2 DEF TypeOK, Send, files
  <2>9. CASE Resume(p)
    BY <2>9 DEF TypeOK, Resume, Goto, Places, Holding, files, local, history
  <2>10. CASE Rejected(p)
    BY <2>10 DEF TypeOK, Rejected, Goto, Places, Holding, files, local, history
  <2>11. CASE Answered(p)
    BY <2>11 DEF TypeOK, Answered, Goto, Places, Holding, files, local, history
  <2>12. CASE BodyRefused(p)
    BY <2>12 DEF TypeOK, BodyRefused, Goto, Places, Holding, files, local, history
  <2>13. CASE BodyAccepted(p)
    BY <2>13 DEF TypeOK, BodyAccepted, Goto, Places, Holding, files, local, history
  <2>14. CASE Store(p)
    BY <2>14 DEF TypeOK, Store, Goto, Places, Holding, local, history
  <2>15. CASE StoreFails(p)
    BY <2>15 DEF TypeOK, StoreFails, Goto, Places, Holding, local, history
  <2>16. CASE Rename(p)
    BY <2>16 DEF TypeOK, Rename, Goto, Places, Holding, Contents, Upto, local, history
  <2>17. CASE Leave(p)
    BY <2>17, ExitType DEF TypeOK, Leave, End, history
  <2>18. CASE Crash(p)
    BY <2>18, ExitType DEF TypeOK, Crash, StampInterrupted
  <2>19. ASSUME NEW delay \in Nat, RetryAfter(p, delay)
         PROVE  TypeOK'
    BY <2>19 DEF TypeOK, RetryAfter, Goto, Places, Holding, files, history
  <2>20. CASE RateRespected(p)
    BY <2>20 DEF TypeOK, RateRespected, Goto, Places, Holding, files, local, history
  <2>21. CASE StampFails(p)
    BY <2>21 DEF TypeOK, StampFails, StampInterrupted, Goto, Places, Holding, local, history
  <2>22. CASE RenameFails(p)
    BY <2>22 DEF TypeOK, RenameFails, Goto, Places, Holding, files, local, history
  <2>23. QED BY <1>2, <2>1, <2>2, <2>3, <2>4, <2>5, <2>6, <2>7, <2>8, <2>9, <2>10, <2>11, <2>12, <2>13, <2>14, <2>15, <2>16, <2>17, <2>18, <2>19,
       <2>20, <2>21, <2>22 DEF Acts
<1>3. CASE RemoveOrphan
  BY <1>3 DEF TypeOK, RemoveOrphan, local
<1>4. CASE Tick
  <2>1. mark' \in Upto(RateLimit) /\ began' \in Upto(RateLimit)
    BY <1>4, OlderType DEF TypeOK, Tick
  <2>2. cache' \in [Areas -> Contents]
    BY <1>4, AgedType DEF TypeOK, Tick
  <2>3. timer' \in [Runs -> Delays]
    BY <1>4 DEF TypeOK, Tick
  <2>4. QED BY <1>4, <2>1, <2>2, <2>3 DEF TypeOK, Tick
<1>5. CASE UNCHANGED vars
  BY <1>5 DEF TypeOK, vars, files, local, history
<1>6. QED
  BY <1>1, <1>2, <1>3, <1>4, <1>5, StepsAreActs DEF Next

(***************************************************************************)
(* One step keeps the lock file and the runs that hold it together.        *)
(***************************************************************************)
LEMMA LocksStep == TypeOK /\ Locks /\ [Next]_vars => Locks'
<1> SUFFICES ASSUME TypeOK, Locks, [Next]_vars PROVE Locks'
  OBVIOUS
<1>1. ASSUME NEW p \in Runs, NEW a \in Areas, NEW off \in BOOLEAN, Start(p, a, off)
      PROVE  Locks'
  BY <1>1 DEF TypeOK, Locks, LockHeld, OneCollector, OrphanNeedsCrash, Holding, Start, Goto, files, history
<1>2. ASSUME NEW p \in Runs, Acts(p)
      PROVE  Locks'
  <2>1. CASE UseCache(p)
    BY <2>1 DEF TypeOK, Locks, LockHeld, OneCollector, OrphanNeedsCrash, Holding, UseCache, End, Exit, files, history
  <2>2. CASE RefuseOffline(p)
    BY <2>2 DEF TypeOK, Locks, LockHeld, OneCollector, OrphanNeedsCrash, Holding, RefuseOffline, End, Exit, files, history
  <2>3. CASE DecideToCollect(p)
    BY <2>3 DEF TypeOK, Locks, LockHeld, OneCollector, OrphanNeedsCrash, Holding, DecideToCollect, Goto, files, history, local
  <2>4. CASE TakeLock(p)
    BY <2>4 DEF TypeOK, Locks, LockHeld, OneCollector, OrphanNeedsCrash, Holding, TakeLock, Goto, history, local
  <2>5. CASE RefuseLock(p)
    BY <2>5 DEF TypeOK, Locks, LockHeld, OneCollector, OrphanNeedsCrash, Holding, RefuseLock, End, Exit, files, history
  <2>6. CASE RefuseRate(p)
    BY <2>6 DEF TypeOK, Locks, LockHeld, OneCollector, OrphanNeedsCrash, Holding, RefuseRate, Goto, files, history, local
  <2>7. CASE Stamp(p)
    BY <2>7 DEF TypeOK, Locks, LockHeld, OneCollector, OrphanNeedsCrash, Holding, Stamp, Goto
  <2>8. CASE Send(p)
    BY <2>8 DEF TypeOK, Locks, LockHeld, OneCollector, OrphanNeedsCrash, Holding, Send, Goto, files
  <2>9. CASE Resume(p)
    BY <2>9 DEF TypeOK, Locks, LockHeld, OneCollector, OrphanNeedsCrash, Holding, Resume, Goto, files, history, local
  <2>10. CASE Rejected(p)
    BY <2>10 DEF TypeOK, Locks, LockHeld, OneCollector, OrphanNeedsCrash, Holding, Rejected, Goto, files, history, local
  <2>11. CASE Answered(p)
    BY <2>11 DEF TypeOK, Locks, LockHeld, OneCollector, OrphanNeedsCrash, Holding, Answered, Goto, files, history, local
  <2>12. CASE BodyRefused(p)
    BY <2>12 DEF TypeOK, Locks, LockHeld, OneCollector, OrphanNeedsCrash, Holding, BodyRefused, Goto, files, history, local
  <2>13. CASE BodyAccepted(p)
    BY <2>13 DEF TypeOK, Locks, LockHeld, OneCollector, OrphanNeedsCrash, Holding, BodyAccepted, Goto, files, history, local
  <2>14. CASE Store(p)
    BY <2>14 DEF TypeOK, Locks, LockHeld, OneCollector, OrphanNeedsCrash, Holding, Store, Goto, history, local
  <2>15. CASE StoreFails(p)
    BY <2>15 DEF TypeOK, Locks, LockHeld, OneCollector, OrphanNeedsCrash, Holding, StoreFails, Goto, history, local
  <2>16. CASE Rename(p)
    BY <2>16 DEF TypeOK, Locks, LockHeld, OneCollector, OrphanNeedsCrash, Holding, Rename, Goto, history, local
  <2>17. CASE Leave(p)
    BY <2>17 DEF TypeOK, Locks, LockHeld, OneCollector, OrphanNeedsCrash, Holding, Leave, End, Exit, history
  <2>18. CASE Crash(p)
    BY <2>18 DEF TypeOK, Locks, LockHeld, OneCollector, OrphanNeedsCrash, Holding, Crash, Exit
  <2>19. ASSUME NEW delay \in Nat, RetryAfter(p, delay)
         PROVE  Locks'
    BY <2>19 DEF TypeOK, Locks, LockHeld, OneCollector, OrphanNeedsCrash, Holding, RetryAfter, Goto, files, history
  <2>20. CASE RateRespected(p)
    BY <2>20 DEF TypeOK, Locks, LockHeld, OneCollector, OrphanNeedsCrash, Holding, RateRespected, Goto, files, history, local
  <2>21. CASE StampFails(p)
    BY <2>21 DEF TypeOK, Locks, LockHeld, OneCollector, OrphanNeedsCrash, Holding, StampFails, Goto, history, local
  <2>22. CASE RenameFails(p)
    BY <2>22 DEF TypeOK, Locks, LockHeld, OneCollector, OrphanNeedsCrash, Holding, RenameFails, Goto, files, history, local
  <2>23. QED
    BY <1>2, <2>1, <2>2, <2>3, <2>4, <2>5, <2>6, <2>7, <2>8,
       <2>9, <2>10, <2>11, <2>12, <2>13, <2>14, <2>15, <2>16, <2>17, <2>18, <2>19,
       <2>20, <2>21, <2>22 DEF Acts
<1>3. CASE RemoveOrphan
  BY <1>3 DEF TypeOK, Locks, LockHeld, OneCollector, OrphanNeedsCrash, Holding, RemoveOrphan, local
<1>4. CASE Tick
  BY <1>4 DEF TypeOK, Locks, LockHeld, OneCollector, OrphanNeedsCrash, Holding, Tick
<1>5. CASE UNCHANGED vars
  BY <1>5 DEF TypeOK, Locks, LockHeld, OneCollector, OrphanNeedsCrash, Holding, vars, files, local, history
<1>6. QED
  BY <1>1, <1>2, <1>3, <1>4, <1>5, StepsAreActs DEF Next

(***************************************************************************)
(* One step leaves an attempt to a run that may send.                      *)
(***************************************************************************)
LEMMA AttemptsStep == TypeOK /\ AttemptsLeft /\ [Next]_vars => AttemptsLeft'
<1> SUFFICES ASSUME TypeOK, AttemptsLeft, [Next]_vars PROVE AttemptsLeft'
  OBVIOUS
<1>1. ASSUME NEW p \in Runs, NEW a \in Areas, NEW off \in BOOLEAN, Start(p, a, off)
      PROVE  AttemptsLeft'
  BY <1>1 DEF TypeOK, AttemptsLeft, Attempts, Upto, Start, Goto, files, history
<1>2. ASSUME NEW p \in Runs, Acts(p)
      PROVE  AttemptsLeft'
  <2>1. CASE UseCache(p)
    BY <2>1 DEF TypeOK, AttemptsLeft, Attempts, Upto, UseCache, End, Exit, files, history
  <2>2. CASE RefuseOffline(p)
    BY <2>2 DEF TypeOK, AttemptsLeft, Attempts, Upto, RefuseOffline, End, Exit, files, history
  <2>3. CASE DecideToCollect(p)
    BY <2>3 DEF TypeOK, AttemptsLeft, Attempts, Upto, DecideToCollect, Goto, files, history, local
  <2>4. CASE TakeLock(p)
    BY <2>4 DEF TypeOK, AttemptsLeft, Attempts, Upto, TakeLock, Goto, history, local
  <2>5. CASE RefuseLock(p)
    BY <2>5 DEF TypeOK, AttemptsLeft, Attempts, Upto, RefuseLock, End, Exit, files, history
  <2>6. CASE RefuseRate(p)
    BY <2>6 DEF TypeOK, AttemptsLeft, Attempts, Upto, RefuseRate, Goto, files, history, local
  <2>7. CASE Stamp(p)
    BY <2>7 DEF TypeOK, AttemptsLeft, Attempts, Upto, Stamp, Goto
  <2>8. CASE Send(p)
    BY <2>8 DEF TypeOK, AttemptsLeft, Attempts, Upto, Send, Goto, files
  <2>9. CASE Resume(p)
    BY <2>9 DEF TypeOK, AttemptsLeft, Attempts, Upto, Resume, Goto, files, history, local
  <2>10. CASE Rejected(p)
    BY <2>10 DEF TypeOK, AttemptsLeft, Attempts, Upto, Rejected, Goto, files, history, local
  <2>11. CASE Answered(p)
    BY <2>11 DEF TypeOK, AttemptsLeft, Attempts, Upto, Answered, Goto, files, history, local
  <2>12. CASE BodyRefused(p)
    BY <2>12 DEF TypeOK, AttemptsLeft, Attempts, Upto, BodyRefused, Goto, files, history, local
  <2>13. CASE BodyAccepted(p)
    BY <2>13 DEF TypeOK, AttemptsLeft, Attempts, Upto, BodyAccepted, Goto, files, history, local
  <2>14. CASE Store(p)
    BY <2>14 DEF TypeOK, AttemptsLeft, Attempts, Upto, Store, Goto, history, local
  <2>15. CASE StoreFails(p)
    BY <2>15 DEF TypeOK, AttemptsLeft, Attempts, Upto, StoreFails, Goto, history, local
  <2>16. CASE Rename(p)
    BY <2>16 DEF TypeOK, AttemptsLeft, Attempts, Upto, Rename, Goto, history, local
  <2>17. CASE Leave(p)
    BY <2>17 DEF TypeOK, AttemptsLeft, Attempts, Upto, Leave, End, Exit, history
  <2>18. CASE Crash(p)
    BY <2>18 DEF TypeOK, AttemptsLeft, Attempts, Upto, Crash, Exit
  <2>19. ASSUME NEW delay \in Nat, RetryAfter(p, delay)
         PROVE  AttemptsLeft'
    BY <2>19 DEF TypeOK, AttemptsLeft, Attempts, Upto, RetryAfter, Goto, files, history
  <2>20. CASE RateRespected(p)
    BY <2>20 DEF TypeOK, AttemptsLeft, Attempts, Upto, RateRespected, Goto, files, history, local
  <2>21. CASE StampFails(p)
    BY <2>21 DEF TypeOK, AttemptsLeft, Attempts, Upto, StampFails, Goto, history, local
  <2>22. CASE RenameFails(p)
    BY <2>22 DEF TypeOK, AttemptsLeft, Attempts, Upto, RenameFails, Goto, files, history, local
  <2>23. QED
    BY <1>2, <2>1, <2>2, <2>3, <2>4, <2>5, <2>6, <2>7, <2>8,
       <2>9, <2>10, <2>11, <2>12, <2>13, <2>14, <2>15, <2>16, <2>17, <2>18, <2>19,
       <2>20, <2>21, <2>22 DEF Acts
<1>3. CASE RemoveOrphan
  BY <1>3 DEF TypeOK, AttemptsLeft, Attempts, Upto, RemoveOrphan, local
<1>4. CASE Tick
  BY <1>4 DEF TypeOK, AttemptsLeft, Attempts, Upto, Tick
<1>5. CASE UNCHANGED vars
  BY <1>5 DEF TypeOK, AttemptsLeft, Attempts, Upto, vars, files, local, history
<1>6. QED
  BY <1>1, <1>2, <1>3, <1>4, <1>5, StepsAreActs DEF Next

(***************************************************************************)
(* One step leaves a whole temporary file to the run that renames it: no   *)
(* other run writes meanwhile.                                             *)
(***************************************************************************)
LEMMA TempStep == TypeOK /\ Locks /\ TempWhole /\ [Next]_vars => TempWhole'
<1> SUFFICES ASSUME TypeOK, Locks, TempWhole, [Next]_vars PROVE TempWhole'
  OBVIOUS
<1>1. ASSUME NEW p \in Runs, NEW a \in Areas, NEW off \in BOOLEAN, Start(p, a, off)
      PROVE  TempWhole'
  BY <1>1 DEF TypeOK, Locks, OneCollector, Holding, TempWhole, Start, Goto, files, history
<1>2. ASSUME NEW p \in Runs, Acts(p)
      PROVE  TempWhole'
  <2>1. CASE UseCache(p)
    BY <2>1 DEF TypeOK, Locks, OneCollector, Holding, TempWhole, UseCache, End, Exit, files, history
  <2>2. CASE RefuseOffline(p)
    BY <2>2 DEF TypeOK, Locks, OneCollector, Holding, TempWhole, RefuseOffline, End, Exit, files, history
  <2>3. CASE DecideToCollect(p)
    BY <2>3 DEF TypeOK, Locks, OneCollector, Holding, TempWhole, DecideToCollect, Goto, files, history, local
  <2>4. CASE TakeLock(p)
    BY <2>4 DEF TypeOK, Locks, OneCollector, Holding, TempWhole, TakeLock, Goto, history, local
  <2>5. CASE RefuseLock(p)
    BY <2>5 DEF TypeOK, Locks, OneCollector, Holding, TempWhole, RefuseLock, End, Exit, files, history
  <2>6. CASE RefuseRate(p)
    BY <2>6 DEF TypeOK, Locks, OneCollector, Holding, TempWhole, RefuseRate, Goto, files, history, local
  <2>7. CASE Stamp(p)
    BY <2>7 DEF TypeOK, Locks, OneCollector, Holding, TempWhole, Stamp, Goto
  <2>8. CASE Send(p)
    BY <2>8 DEF TypeOK, Locks, OneCollector, Holding, TempWhole, Send, Goto, files
  <2>9. CASE Resume(p)
    BY <2>9 DEF TypeOK, Locks, OneCollector, Holding, TempWhole, Resume, Goto, files, history, local
  <2>10. CASE Rejected(p)
    BY <2>10 DEF TypeOK, Locks, OneCollector, Holding, TempWhole, Rejected, Goto, files, history, local
  <2>11. CASE Answered(p)
    BY <2>11 DEF TypeOK, Locks, OneCollector, Holding, TempWhole, Answered, Goto, files, history, local
  <2>12. CASE BodyRefused(p)
    BY <2>12 DEF TypeOK, Locks, OneCollector, Holding, TempWhole, BodyRefused, Goto, files, history, local
  <2>13. CASE BodyAccepted(p)
    BY <2>13 DEF TypeOK, Locks, OneCollector, Holding, TempWhole, BodyAccepted, Goto, files, history, local
  <2>14. CASE Store(p)
    BY <2>14 DEF TypeOK, Locks, OneCollector, Holding, TempWhole, Store, Goto, history, local
  <2>15. CASE StoreFails(p)
    BY <2>15 DEF TypeOK, Locks, OneCollector, Holding, TempWhole, StoreFails, Goto, history, local
  <2>16. CASE Rename(p)
    BY <2>16 DEF TypeOK, Locks, OneCollector, Holding, TempWhole, Rename, Goto, history, local
  <2>17. CASE Leave(p)
    BY <2>17 DEF TypeOK, Locks, OneCollector, Holding, TempWhole, Leave, End, Exit, history
  <2>18. CASE Crash(p)
    BY <2>18 DEF TypeOK, Locks, OneCollector, Holding, TempWhole, Crash, Exit
  <2>19. ASSUME NEW delay \in Nat, RetryAfter(p, delay)
         PROVE  TempWhole'
    BY <2>19 DEF TypeOK, Locks, OneCollector, Holding, TempWhole, RetryAfter, Goto, files, history
  <2>20. CASE RateRespected(p)
    BY <2>20 DEF TypeOK, Locks, OneCollector, Holding, TempWhole, RateRespected, Goto, files, history, local
  <2>21. CASE StampFails(p)
    BY <2>21 DEF TypeOK, Locks, OneCollector, Holding, TempWhole, StampFails, Goto, history, local
  <2>22. CASE RenameFails(p)
    BY <2>22 DEF TypeOK, Locks, OneCollector, Holding, TempWhole, RenameFails, Goto, files, history, local
  <2>23. QED
    BY <1>2, <2>1, <2>2, <2>3, <2>4, <2>5, <2>6, <2>7, <2>8,
       <2>9, <2>10, <2>11, <2>12, <2>13, <2>14, <2>15, <2>16, <2>17, <2>18, <2>19,
       <2>20, <2>21, <2>22 DEF Acts
<1>3. CASE RemoveOrphan
  BY <1>3 DEF TypeOK, Locks, OneCollector, Holding, TempWhole, RemoveOrphan, local
<1>4. CASE Tick
  BY <1>4 DEF TypeOK, Locks, OneCollector, Holding, TempWhole, Tick
<1>5. CASE UNCHANGED vars
  BY <1>5 DEF TypeOK, Locks, OneCollector, Holding, TempWhole, vars, files, local, history
<1>6. QED
  BY <1>1, <1>2, <1>3, <1>4, <1>5, StepsAreActs DEF Next

(***************************************************************************)
(* What one step may do to the caches.                                     *)
(***************************************************************************)
Kept == \A a \in Areas : /\ cache'[a] # Part
                         /\ Readable(a) => cache'[a] # Absent

LEMMA CacheStep == TypeOK /\ TempWhole /\ CacheWhole /\ [Next]_vars => Kept
<1> SUFFICES ASSUME TypeOK, TempWhole, CacheWhole, [Next]_vars PROVE Kept
  OBVIOUS
<1>1. CASE cache' = cache
  BY <1>1, CollectorAssumption DEF Kept, CacheWhole, Readable
<1>2. ASSUME NEW p \in Runs, Rename(p)
      PROVE  Kept
  BY <1>2, CollectorAssumption
  DEF Kept, CacheWhole, Readable, TypeOK, Rename, Goto, TempWhole
<1>3. CASE Tick
  <2>1. \A a \in Areas : cache[a] \in Nat => Older(cache[a], CacheLife) \in Nat
    BY DEF Older
  <2>2. QED
    BY <1>3, <2>1, CollectorAssumption
    DEF Kept, CacheWhole, Readable, Tick, Aged
<1>4. ASSUME NEW p \in Runs, Acts(p), ~Rename(p)
      PROVE  cache' = cache
  BY <1>4
  DEF Acts, UseCache, RefuseOffline, DecideToCollect, TakeLock, RefuseLock,
      RefuseRate, RateRespected, Stamp, StampFails, Send, Resume,
      Rejected, Answered, BodyRefused, BodyAccepted, Store, StoreFails,
      RenameFails, Leave, Crash, RetryAfter, files
<1>5. QED
  BY <1>1, <1>2, <1>3, <1>4, StepsAreActs
  DEF Next, Start, RemoveOrphan, vars, files

(***************************************************************************)
(* The stamp and the last collection age together, and the stamp that a    *)
(* run found old enough waits for that run.                                *)
(***************************************************************************)
LEMMA MarkStep ==
    TypeOK /\ Locks /\ MarkDates /\ Compared /\ [Next]_vars => MarkDates' /\ Compared'
<1> SUFFICES ASSUME TypeOK, Locks, MarkDates, Compared, [Next]_vars
             PROVE  MarkDates' /\ Compared'
  OBVIOUS
<1>1. ASSUME NEW p \in Runs, Acts(p), mark' = mark, began' = began,
             \A q \in Runs : pc'[q] = "stamping" => pc[q] = "stamping"
      PROVE  MarkDates' /\ Compared'
  BY <1>1 DEF MarkDates, Compared
<1>2. ASSUME NEW p \in Runs, Acts(p)
      PROVE  MarkDates' /\ Compared'
  <2>1. CASE RateRespected(p)
    BY <2>1, CollectorAssumption
    DEF MarkDates, Compared, RateRespected, Goto, TypeOK, Upto, files, history
  <2>2. CASE Stamp(p) \/ StampFails(p) \/ (Crash(p) /\ pc[p] = "stamping")
    <3>1. \A q \in Runs : pc'[q] # "stamping"
      BY <2>2
      DEF Stamp, StampFails, Crash, Exit, Goto, TypeOK, Locks,
          OneCollector, Holding
    <3>2. mark' \in {mark, 0} /\ (began' = began \/ mark' = 0)
      BY <2>2 DEF Stamp, StampFails, StampInterrupted, Crash, history
    <3>3. began' \in Nat
      BY <2>2, CollectorAssumption
      DEF Stamp, StampFails, Crash, history, TypeOK, Upto
    <3>4. QED BY <3>1, <3>2, <3>3 DEF MarkDates, Compared
  <2>3. CASE ~RateRespected(p) /\ ~Stamp(p) /\ ~StampFails(p)
             /\ ~(Crash(p) /\ pc[p] = "stamping")
    <3>1. mark' = mark /\ began' = began
      BY <1>2, <2>3
      DEF Acts, UseCache, RefuseOffline, DecideToCollect, TakeLock, RefuseLock,
          RefuseRate, Send, Resume, Rejected, Answered, BodyRefused,
          BodyAccepted, Store, StoreFails, Rename, RenameFails, Leave, Crash,
          RetryAfter, files, history
    <3>2. \A q \in Runs : pc'[q] = "stamping" => pc[q] = "stamping"
      BY <1>2, <2>3
      DEF TypeOK, Acts, UseCache, RefuseOffline, DecideToCollect, TakeLock,
          RefuseLock, RefuseRate, Send, Resume, Rejected, Answered, BodyRefused,
          BodyAccepted, Store, StoreFails, Rename, RenameFails, Leave, Crash,
          RetryAfter, Goto, End, Exit
    <3>3. QED BY <1>1, <1>2, <3>1, <3>2
  <2>4. QED BY <2>1, <2>2, <2>3
<1>3. ASSUME NEW p \in Runs, NEW a \in Areas, NEW off \in BOOLEAN, Start(p, a, off)
      PROVE  MarkDates' /\ Compared'
  BY <1>3 DEF MarkDates, Compared, Start, Goto, TypeOK, files, history
<1>4. CASE Tick
  BY <1>4, CollectorAssumption DEF MarkDates, Compared, Tick, Older, TypeOK, Upto
<1>5. CASE RemoveOrphan \/ UNCHANGED vars
  BY <1>5 DEF MarkDates, Compared, RemoveOrphan, vars, files, history
<1>6. QED
  BY <1>2, <1>3, <1>4, <1>5, StepsAreActs DEF Next

-----------------------------------------------------------------------------
LEMMA Initially == Init => IInv
<1> SUFFICES ASSUME Init PROVE IInv
  OBVIOUS
<1>1. TypeOK
  <2>1. RateLimit \in Upto(RateLimit)
    BY CollectorAssumption DEF Upto
  <2>2. QED BY <2>1, DelaysType DEF Init, TypeOK, Contents, Places
<1>2. Locks /\ AttemptsLeft /\ TempWhole /\ CacheWhole /\ MarkDates /\ Compared
  BY CollectorAssumption
  DEF Init, Locks, LockHeld, OneCollector, OrphanNeedsCrash, Holding,
      AttemptsLeft, TempWhole, CacheWhole, MarkDates, Compared
<1>3. QED BY <1>1, <1>2 DEF IInv

LEMMA Inductive == IInv /\ [Next]_vars => IInv'
<1> SUFFICES ASSUME IInv, [Next]_vars PROVE IInv'
  OBVIOUS
<1>1. TypeOK' /\ Locks' /\ AttemptsLeft' /\ TempWhole' /\ MarkDates' /\ Compared'
  BY TypeStep, LocksStep, AttemptsStep, TempStep, MarkStep DEF IInv
<1>2. CacheWhole'
  BY CacheStep DEF IInv, Kept, CacheWhole
<1>3. QED BY <1>1, <1>2 DEF IInv

LEMMA Always == Spec => []IInv
  BY Initially, Inductive, PTL DEF Spec

(***************************************************************************)
(* Type correctness.                                                       *)
(***************************************************************************)
THEOREM TypeCorrect == Spec => []TypeOK
<1>1. IInv => TypeOK
  BY DEF IInv
<1>2. QED BY Always, <1>1, PTL

(***************************************************************************)
(* However many runs share the directory, one at most collects.            *)
(***************************************************************************)
THEOREM OneAtATime == Spec => []OneCollector
<1>1. IInv => OneCollector
  BY DEF IInv, Locks
<1>2. QED BY Always, <1>1, PTL

(***************************************************************************)
(* Only a crash leaves a lock behind: every other way out removes it.      *)
(***************************************************************************)
THEOREM NoOrphanWithoutCrash == Spec => []OrphanNeedsCrash
<1>1. IInv => OrphanNeedsCrash
  BY DEF IInv, Locks
<1>2. QED BY Always, <1>1, PTL

(***************************************************************************)
(* Collections begin RateLimit apart.                                      *)
(***************************************************************************)
THEOREM BeginningsSpaced == Spec => CollectionsSpaced
<1> DEFINE Spaced == \A p \in Runs : pc[p] = "stamping" /\ pc'[p] = "sending"
                                       => began >= RateLimit
<1>1. ASSUME IInv, [Next]_vars PROVE Spaced
  BY <1>1, CollectorAssumption DEF IInv, TypeOK, Upto, MarkDates, Compared
<1>2. QED BY Always, <1>1, PTL DEF Spec, CollectionsSpaced

(***************************************************************************)
(* A whole cache is never lost nor replaced by a part of one.              *)
(***************************************************************************)
THEOREM CacheNeverLost == Spec => CacheKept
<1>1. IInv /\ [Next]_vars => Kept
  BY CacheStep DEF IInv
<1>2. QED BY Always, <1>1, PTL DEF Spec, CacheKept, Kept

=============================================================================
