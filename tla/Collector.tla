------------------------------ MODULE Collector ------------------------------
(***************************************************************************)
(* The runs of import:osm that share one cache directory: the daily cache, *)
(* the lock file, the stamp of the last request and the retries against    *)
(* Overpass, up to the moment a run has its payload (the import of that    *)
(* payload is module Import).                                              *)
(*                                                                         *)
(* Each process is one command line.  Dates are ages: how many units of    *)
(* time ago a thing happened, counted up to the largest threshold the code *)
(* compares it with.  A stamp as old as RateLimit behaves as no stamp.     *)
(***************************************************************************)
EXTENDS Naturals

CONSTANTS
    Runs,        \* command lines that share the directory
    Areas,       \* AREA_NAMES
    RateLimit,   \* 60 s between two stamps
    Timeout,     \* 45 s for an answer and its body
    Backoff,     \* 10 s, multiplied by the attempts made
    MaxWait,     \* 60 s: a longer delay ends the run
    CacheLife,   \* 24 h
    RetryAfters, \* what the server may ask for, 0 when it asks nothing
    Absent, Part \* no file; a file whose writing was interrupted

Attempts == 3

ASSUME CollectorAssumption ==
    /\ {RateLimit, Timeout, Backoff, MaxWait, CacheLife} \subseteq Nat \ {0}
    /\ RetryAfters \subseteq Nat
    /\ Absent \notin Nat /\ Part \notin Nat /\ Absent # Part

VARIABLES
    lock,      \* .collector.lock exists
    mark,      \* age of the date in .last-request
    cache,     \* per area: age of <area>.json, Absent or Part
    temp,      \* per area: <area>.json.tmp: Absent, Part or 0, whole
    pc,        \* per run: where it stands
    area,      \* per run: --area
    offline,   \* per run: --offline
    attempts,  \* per run: requests sent
    timer,     \* per run: what is left of the timeout or of the pause
    (* history *)
    crashed,   \* a run died with the lock since an operator last cleaned up
    began      \* age of the last collection

files == <<lock, mark, cache, temp>>
local == <<area, offline, attempts, timer>>
history == <<crashed, began>>
vars == <<files, pc, local, history>>

Upto(n) == 0..n
Older(age, limit) == IF age < limit THEN age + 1 ELSE age
Largest(m, n) == IF m < n THEN n ELSE m

Holding == {"checking", "stamping", "sending", "waiting", "body", "pausing", "storing",
            "renaming", "leaving"}
Places == {"idle", "reading", "locking"} \cup Holding
Contents == Upto(CacheLife) \cup {Absent, Part}
Delays == UNION {Upto(d) : d \in {Timeout, MaxWait}}

TypeOK ==
    /\ lock \in BOOLEAN
    /\ mark \in Upto(RateLimit)
    /\ cache \in [Areas -> Contents]
    /\ temp \in [Areas -> {Absent, Part, 0}]
    /\ pc \in [Runs -> Places]
    /\ area \in [Runs -> Areas]
    /\ offline \in [Runs -> BOOLEAN]
    /\ attempts \in [Runs -> Upto(Attempts)]
    /\ timer \in [Runs -> Delays]
    /\ crashed \in BOOLEAN
    /\ began \in Upto(RateLimit)

Init ==
    /\ lock = FALSE
    /\ mark = RateLimit
    /\ cache = [a \in Areas |-> Absent]
    /\ temp = [a \in Areas |-> Absent]
    /\ pc = [p \in Runs |-> "idle"]
    /\ area \in [Runs -> Areas]
    /\ offline = [p \in Runs |-> FALSE]
    /\ attempts = [p \in Runs |-> 0]
    /\ timer = [p \in Runs |-> 0]
    /\ crashed = FALSE
    /\ began = RateLimit

Goto(p, from, to) == pc[p] = from /\ pc' = [pc EXCEPT ![p] = to]

(* The process ends and its variables with it.                             *)
Exit(p) ==
    /\ pc' = [pc EXCEPT ![p] = "idle"]
    /\ offline' = [offline EXCEPT ![p] = FALSE]
    /\ attempts' = [attempts EXCEPT ![p] = 0]
    /\ timer' = [timer EXCEPT ![p] = 0]
    /\ UNCHANGED area

End(p, from) == pc[p] = from /\ Exit(p)

-----------------------------------------------------------------------------
(* Before the lock: the cache decides.                                     *)

Start(p, a, off) ==
    /\ Goto(p, "idle", "reading")
    /\ area' = [area EXCEPT ![p] = a]
    /\ offline' = [offline EXCEPT ![p] = off]
    /\ UNCHANGED <<files, attempts, timer, history>>

Readable(a) == cache[a] \in Nat
Fresh(a) == Readable(a) /\ cache[a] < CacheLife

(* The run has its payload from the cache and goes on to the import.       *)
UseCache(p) ==
    /\ End(p, "reading")
    /\ IF offline[p] THEN Readable(area[p]) ELSE Fresh(area[p])
    /\ UNCHANGED <<files, history>>

RefuseOffline(p) ==
    /\ End(p, "reading")
    /\ offline[p] /\ ~Readable(area[p])
    /\ UNCHANGED <<files, history>>

DecideToCollect(p) ==
    /\ Goto(p, "reading", "locking")
    /\ ~offline[p] /\ ~Fresh(area[p])
    /\ UNCHANGED <<files, local, history>>

-----------------------------------------------------------------------------
(* The lock and the stamp.                                                 *)

(* Variant: the lock file opened without wx. *)
TakeLockAnyway(p) ==
    /\ Goto(p, "locking", "checking")
    /\ lock' = TRUE
    /\ UNCHANGED <<mark, cache, temp, local, history>>

TakeLock(p) ==
    /\ Goto(p, "locking", "checking")
    /\ ~lock
    /\ lock' = TRUE
    /\ UNCHANGED <<mark, cache, temp, local, history>>

RefuseLock(p) ==
    /\ End(p, "locking")
    /\ lock
    /\ UNCHANGED <<files, history>>

RefuseRate(p) ==
    /\ Goto(p, "checking", "leaving")
    /\ mark < RateLimit
    /\ UNCHANGED <<files, local, history>>

RateRespected(p) ==
    /\ Goto(p, "checking", "stamping")
    /\ mark >= RateLimit
    /\ UNCHANGED <<files, local, history>>

(* The collection begins.                                                  *)
Stamp(p) ==
    /\ Goto(p, "stamping", "sending")
    /\ mark' = 0
    /\ attempts' = [attempts EXCEPT ![p] = 0]
    /\ began' = 0
    /\ UNCHANGED <<lock, cache, temp, area, offline, timer, crashed>>

(* A file cut short reads as a date long past, which the one it replaces   *)
(* was too.                                                                *)
StampInterrupted == mark' \in {mark, 0}

StampFails(p) ==
    /\ Goto(p, "stamping", "leaving")
    /\ StampInterrupted
    /\ UNCHANGED <<lock, cache, temp, local, history>>

-----------------------------------------------------------------------------
(* The requests to Overpass.                                               *)

Send(p) ==
    /\ Goto(p, "sending", "waiting")
    /\ attempts' = [attempts EXCEPT ![p] = @ + 1]
    /\ timer' = [timer EXCEPT ![p] = Timeout]
    /\ UNCHANGED <<files, area, offline, crashed, began>>

(* After a failure: a pause, or the end of the collection.                 *)
RetryAfter(p, delay) ==
    /\ IF attempts[p] >= Attempts \/ delay > MaxWait
       THEN Goto(p, "waiting", "leaving") /\ UNCHANGED timer
       ELSE Goto(p, "waiting", "pausing")
            /\ timer' = [timer EXCEPT ![p] = delay]
    /\ UNCHANGED <<files, area, offline, attempts, history>>

NetworkFails(p) == RetryAfter(p, attempts[p] * Backoff)

AnswerTimesOut(p) == timer[p] = 0 /\ NetworkFails(p)

(* 429 or 5xx.                                                             *)
Unavailable(p, asks) == RetryAfter(p, Largest(attempts[p] * Backoff, asks))

Resume(p) ==
    /\ Goto(p, "pausing", "sending")
    /\ timer[p] = 0
    /\ UNCHANGED <<files, local, history>>

(* Another status: no retry.                                               *)
Rejected(p) ==
    /\ Goto(p, "waiting", "leaving")
    /\ UNCHANGED <<files, local, history>>

Answered(p) ==
    /\ Goto(p, "waiting", "body")
    /\ UNCHANGED <<files, local, history>>

(* Cut, too large, no JSON, partial, ambiguous or undated: no retry.       *)
BodyRefused(p) ==
    /\ Goto(p, "body", "leaving")
    /\ UNCHANGED <<files, local, history>>

(* Variant: a timeout on the headers only. *)
BodyNeverTimesOut(p) == FALSE /\ BodyRefused(p)

BodyTimesOut(p) == timer[p] = 0 /\ BodyRefused(p)

BodyAccepted(p) ==
    /\ Goto(p, "body", "storing")
    /\ UNCHANGED <<files, local, history>>

-----------------------------------------------------------------------------
(* The new cache, dated as it takes its place, and the way out.            *)

Store(p) ==
    /\ Goto(p, "storing", "renaming")
    /\ temp' = [temp EXCEPT ![area[p]] = 0]
    /\ UNCHANGED <<lock, mark, cache, local, history>>

(* Variant: the cache written in place. *)
StoreInPlaceFails(p) ==
    /\ Goto(p, "storing", "leaving")
    /\ cache' = [cache EXCEPT ![area[p]] = Part]
    /\ UNCHANGED <<lock, mark, temp, local, history>>

StoreFails(p) ==
    /\ Goto(p, "storing", "leaving")
    /\ temp' = [temp EXCEPT ![area[p]] = Part]
    /\ UNCHANGED <<lock, mark, cache, local, history>>

Rename(p) ==
    /\ Goto(p, "renaming", "leaving")
    /\ cache' = [cache EXCEPT ![area[p]] = temp[area[p]]]
    /\ temp' = [temp EXCEPT ![area[p]] = Absent]
    /\ UNCHANGED <<lock, mark, local, history>>

RenameFails(p) ==
    /\ Goto(p, "renaming", "leaving")
    /\ UNCHANGED <<files, local, history>>

Leave(p) ==
    /\ End(p, "leaving")
    /\ lock' = FALSE
    /\ UNCHANGED <<mark, cache, temp, history>>

-----------------------------------------------------------------------------
(* What the program does not decide.                                       *)

(* A process dies; one that was writing leaves the file unfinished.        *)
Crash(p) ==
    /\ pc[p] # "idle"
    /\ Exit(p)
    /\ temp' = IF pc[p] = "storing" THEN [temp EXCEPT ![area[p]] = Part] ELSE temp
    /\ IF pc[p] = "stamping" THEN StampInterrupted ELSE mark' = mark
    /\ crashed' = (crashed \/ pc[p] \in Holding)
    /\ UNCHANGED <<lock, cache, began>>

(* The operator removes an orphan once no collector runs.                  *)
RemoveOrphan ==
    /\ lock
    /\ \A p \in Runs : pc[p] = "idle"
    /\ lock' = FALSE
    /\ crashed' = FALSE
    /\ UNCHANGED <<mark, cache, temp, pc, local, began>>

Aged(contents) ==
    [a \in Areas |-> IF contents[a] \in Nat THEN Older(contents[a], CacheLife)
                                            ELSE contents[a]]

Tick ==
    /\ mark' = Older(mark, RateLimit)
    /\ began' = Older(began, RateLimit)
    /\ cache' = Aged(cache)
    /\ timer' = [p \in Runs |-> IF timer[p] > 0 THEN timer[p] - 1 ELSE 0]
    /\ UNCHANGED <<lock, temp, pc, area, offline, attempts, crashed>>

-----------------------------------------------------------------------------
(* What a run does by itself, and what it is told.                         *)
Step(p) ==
    \/ UseCache(p) \/ RefuseOffline(p) \/ DecideToCollect(p)
    \/ TakeLock(p) \/ RefuseLock(p) \/ RefuseRate(p) \/ RateRespected(p)
    \/ Stamp(p) \/ Send(p) \/ AnswerTimesOut(p) \/ Resume(p) \/ BodyTimesOut(p)
    \/ Store(p) \/ Rename(p) \/ Leave(p)

Told(p) ==
    \/ NetworkFails(p)
    \/ \E asks \in RetryAfters : Unavailable(p, asks)
    \/ Rejected(p) \/ Answered(p) \/ BodyRefused(p) \/ BodyAccepted(p)
    \/ StampFails(p) \/ StoreFails(p) \/ RenameFails(p) \/ Crash(p)

Next ==
    \/ \E p \in Runs, a \in Areas, off \in BOOLEAN : Start(p, a, off)
    \/ \E p \in Runs : Step(p) \/ Told(p)
    \/ RemoveOrphan
    \/ Tick

Spec == Init /\ [][Next]_vars

(* Time passes and a live process goes on; no answer is ever promised.     *)
FairSpec == Spec /\ WF_vars(Tick) /\ \A p \in Runs : WF_vars(Step(p))
-----------------------------------------------------------------------------
(***************************************************************************)
(* One run at most is between its lock and its release, so that one        *)
(* request is active per cache (open with flag wx, unlink in the finally). *)
(***************************************************************************)
OneCollector ==
    \A p, q \in Runs : pc[p] \in Holding /\ pc[q] \in Holding => p = q

(***************************************************************************)
(* However a collection ends, refused by the rate, without network,        *)
(* rejected, with a full disk, its lock goes with it: a lock nobody holds  *)
(* is what a crash left, and the operator alone may have to act.           *)
(***************************************************************************)
OrphanNeedsCrash ==
    lock /\ ~crashed => \E p \in Runs : pc[p] \in Holding

(***************************************************************************)
(* A collection begins RateLimit after the one before it at the earliest,  *)
(* whichever area and run that was and however it ended, across crashes    *)
(* and removed locks.  A run compares the stamp some time before it writes *)
(* its own: the lock keeps what it compared true until then.               *)
(***************************************************************************)
CollectionsSpaced ==
    [][\A p \in Runs : pc[p] = "stamping" /\ pc'[p] = "sending"
                           => began >= RateLimit]_vars

(***************************************************************************)
(* The cache of an area is once and for all a whole collection: no crash,  *)
(* failed write or rejected answer takes it away or leaves a part of a     *)
(* file in its place, so that --offline never stops working.               *)
(***************************************************************************)
CacheKept ==
    [][\A a \in Areas : /\ cache'[a] # Part
                        /\ Readable(a) => cache'[a] # Absent]_vars

(***************************************************************************)
(* Every run ends, though no answer is promised: the 45 s cover the body   *)
(* as well as the headers, the pauses are bounded and the attempts too.    *)
(***************************************************************************)
EveryRunEnds == \A p \in Runs : pc[p] # "idle" ~> pc[p] = "idle"
=============================================================================
