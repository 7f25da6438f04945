----------------------------- MODULE AdminGuard -----------------------------
(***************************************************************************)
(* The limit on requests to the back office (src/admin/admin.guard.ts): at *)
(* most Limit in any Window of time, counted in an array of the process.   *)
(* canActivate is synchronous, so a request passes or not in one step.  A  *)
(* wrong key is refused before anything is counted: no step here.          *)
(***************************************************************************)
EXTENDS Integers, Sequences, FiniteSets

CONSTANTS
  Limit,    \* 100 requests
  Window,   \* 60000 ms, in ticks of the clock
  MaxTime   \* bound: the clock

ASSUME GuardAssumption == Limit \in Nat \ {0} /\ Window \in Nat \ {0}

VARIABLES
  now,       \* Date.now()
  at,        \* when each request was accepted, since the process started
  requests   \* the array: the numbers of the requests whose time it still holds

guard == <<now, at, requests>>

RecentOfFixedWindow == {n \in requests : at[n] \div Window = now \div Window}

\* requests.filter((t) => now - t < 60000)
Recent == {n \in requests : now - at[n] < Window}

GuardInit == now = 0 /\ at = <<>> /\ requests = {}

Accept ==
  /\ Cardinality(Recent) < Limit
  /\ at' = Append(at, now)
  /\ requests' = Recent \cup {Len(at) + 1}
  /\ UNCHANGED now

\* 429: the refused request is not counted, the array is filtered all the same.
Refuse ==
  /\ Cardinality(Recent) >= Limit
  /\ requests' = Recent
  /\ UNCHANGED <<now, at>>

\* The array is not shared nor kept: the limit is one process's.
RestartServer ==
  /\ at' = <<>> /\ requests' = {}
  /\ UNCHANGED now

Tick ==
  /\ now < MaxTime
  /\ now' = now + 1
  /\ UNCHANGED <<at, requests>>

-----------------------------------------------------------------------------
\* Times are those of accepted requests, in order; the array holds their numbers.
GuardTypeOK ==
  /\ now \in Nat /\ at \in Seq(Nat)
  /\ requests \subseteq 1..Len(at)
  /\ \A m, n \in 1..Len(at) : m <= n => at[m] <= at[n] /\ at[n] <= now

\* No span of Window ticks, wherever it begins, sees more than Limit accepted
\* requests (canActivate; docs/collection/USAGE.md: 100 a minute per process).
WindowHeld ==
  \A s \in 0..now :
     Cardinality({n \in 1..Len(at) : s <= at[n] /\ at[n] < s + Window}) <= Limit

\* A refusal is fair: what the array still counts is exactly the requests that
\* were accepted less than Window ago, whatever refusals filtered it meanwhile.
CountIsExact ==
  Recent = {n \in 1..Len(at) : now - at[n] < Window}
=============================================================================
