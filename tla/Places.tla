------------------------------- MODULE Places -------------------------------
(***************************************************************************)
(* One request of the Google Places adapter                                *)
(* (src/google-places/infrastructure/google-places.client.ts): validation, *)
(* one call of the transport, a body read chunk by chunk under a size      *)
(* limit, the mapping of domain/google-place.ts, and one deadline over all *)
(* of it.  The deadline, the network and the server act at any await.      *)
(* The transport is fetch: once aborted, headers and body reads reject; a  *)
(* cancellation may still resolve, and its coded error is then thrown      *)
(* with the signal aborted.                                                *)
(***************************************************************************)
EXTENDS Naturals

CONSTANTS
  MaxBytes,   \* 256 KiB, in blocks
  MaxPlaces,  \* the places a page may hold (20)
  Answers,    \* what the server may send: see Answer
  Null

ASSUME PlacesAssumption ==
  /\ MaxBytes \in Nat /\ MaxPlaces \in Nat
  /\ \A a \in Answers :
       /\ a.status \in {200, 204, 400, 401, 403, 404, 429, 500}
       /\ a.size \in Nat /\ a.json \in BOOLEAN /\ a.places \in Nat /\ a.bad \in 0..a.places

VARIABLES
  input,    \* what the caller passes: [operation, enabled, timeoutValid, valid]
  pc,       \* the await the request stands at
  timer,    \* "off", "armed", or "fired": the deadline aborted the controller
  answer,   \* the answer being received
  bytes,    \* read so far
  locked,   \* a reader holds the body
  calls,    \* calls of the transport
  thrown,   \* the error on its way to the catch
  result    \* what the caller gets

vars == <<input, pc, timer, answer, bytes, locked, calls, thrown, result>>

Operations == {"text_search", "nearby_search", "details"}
Input == [operation : Operations, enabled : BOOLEAN, timeoutValid : BOOLEAN, valid : BOOLEAN]
Codes == {"GOOGLE_DISABLED", "GOOGLE_INVALID_INPUT", "GOOGLE_ACCESS_DENIED",
          "GOOGLE_QUOTA_EXCEEDED", "GOOGLE_NOT_FOUND", "GOOGLE_UNAVAILABLE",
          "GOOGLE_TIMEOUT", "GOOGLE_INVALID_RESPONSE"}
Awaits == {"transport", "discard", "read", "cancel"}

\* An answer: its status, the size of its body, and what the body says: JSON or
\* not, the places it lists, and how many of them the mapper refuses.
Answer == [status : Nat, size : Nat, json : BOOLEAN, places : Nat, bad : Nat]

ASSUME NullAssumption ==
  /\ Null \notin Answers /\ Null \notin Codes
  /\ Null \notin [code : Codes] \cup [data : Nat]

Failed(code) == [code |-> code]
Page(places) == [data |-> places]

CodeOf(status) ==
  CASE status = 429 -> "GOOGLE_QUOTA_EXCEEDED"
    [] status \in {401, 403} -> "GOOGLE_ACCESS_DENIED"
    [] status = 404 -> "GOOGLE_NOT_FOUND"
    [] status = 400 -> "GOOGLE_INVALID_INPUT"
    [] OTHER -> "GOOGLE_UNAVAILABLE"

\* JSON.parse, then mapGooglePage or mapGooglePlace: all of it or nothing.
Maps(operation, a) ==
  /\ a.json /\ a.bad = 0
  /\ IF operation = "details" THEN a.places = 1 ELSE a.places <= MaxPlaces

Init ==
  /\ input \in Input
  /\ pc = "called" /\ timer = "off" /\ answer = Null /\ bytes = 0 /\ locked = FALSE
  /\ calls = 0 /\ thrown = Null /\ result = Null

\* searchText, nearby, details: the arguments are checked, then the options; a
\* refusal calls nobody.  Else the deadline is set and the transport called.
Start ==
  /\ pc = "called"
  /\ IF input.valid /\ input.enabled /\ input.timeoutValid
       THEN /\ pc' = "transport" /\ timer' = "armed" /\ calls' = calls + 1
            /\ UNCHANGED result
       ELSE /\ pc' = "done"
            /\ result' = Failed(IF input.valid THEN "GOOGLE_DISABLED"
                                               ELSE "GOOGLE_INVALID_INPUT")
            /\ UNCHANGED <<timer, calls>>
  /\ UNCHANGED <<input, answer, bytes, locked, thrown>>

\* The error that the code at an await throws, kept until the catch.
Throw(code) == thrown' = code /\ pc' = "catch"

HeadersEndTimeout(a) ==
  /\ pc = "transport" /\ timer # "fired" /\ a.status = 200
  /\ answer' = a /\ timer' = "off"
  /\ pc' = "read" /\ locked' = TRUE
  /\ UNCHANGED <<input, bytes, calls, thrown, result>>

\* The headers: a refusal is discarded unread, a body is read if there is one.
Headers(a) ==
  /\ pc = "transport" /\ timer # "fired"
  /\ answer' = a
  /\ locked' = (a.status = 200)
  /\ CASE a.status = 200 -> pc' = "read" /\ UNCHANGED thrown
       [] a.status = 204 -> Throw("GOOGLE_INVALID_RESPONSE")
       [] OTHER          -> pc' = "discard" /\ UNCHANGED thrown
  /\ UNCHANGED <<input, timer, bytes, calls, result>>

\* response.body.cancel() resolves, before or after the deadline.
Discarded ==
  /\ pc = "discard"
  /\ Throw(CodeOf(answer.status))
  /\ UNCHANGED <<input, timer, answer, bytes, locked, calls, result>>

\* A chunk: over the limit, the rest is cancelled.
Chunk(n) ==
  /\ pc = "read" /\ timer # "fired" /\ bytes + n <= answer.size
  /\ bytes' = bytes + n
  /\ pc' = IF bytes' > MaxBytes THEN "cancel" ELSE "read"
  /\ UNCHANGED <<input, timer, answer, locked, calls, thrown, result>>

\* reader.cancel() resolves, before or after the deadline.
Cancelled ==
  /\ pc = "cancel"
  /\ locked' = FALSE                                  \* finally: releaseLock
  /\ Throw("GOOGLE_INVALID_RESPONSE")
  /\ UNCHANGED <<input, timer, answer, bytes, calls, result>>

\* The end of the body: parsed, mapped and returned without another await.
End ==
  /\ pc = "read" /\ timer # "fired" /\ bytes = answer.size
  /\ locked' = FALSE
  /\ IF Maps(input.operation, answer)
       THEN /\ result' = Page(answer.places) /\ pc' = "done" /\ timer' = "off"
            /\ UNCHANGED thrown
       ELSE /\ Throw("GOOGLE_INVALID_RESPONSE") /\ UNCHANGED <<timer, result>>
  /\ UNCHANGED <<input, answer, bytes, calls>>

\* The network fails, or the abort reaches the await: no error of the adapter.
Reject ==
  /\ pc \in Awaits
  /\ locked' = FALSE
  /\ Throw(Null)
  /\ UNCHANGED <<input, timer, answer, bytes, calls, result>>

\* The deadline, which passes only while the request waits.
Deadline ==
  /\ timer = "armed" /\ pc \in Awaits
  /\ timer' = "fired"
  /\ UNCHANGED <<input, pc, answer, bytes, locked, calls, thrown, result>>

\* Variant: an error of the adapter is told before the abort is looked at.
CatchByError ==
  /\ pc = "catch"
  /\ result' = Failed(IF thrown # Null THEN thrown
                      ELSE IF timer = "fired" THEN "GOOGLE_TIMEOUT" ELSE "GOOGLE_UNAVAILABLE")
  /\ pc' = "done"
  /\ timer' = IF timer = "fired" THEN "fired" ELSE "off"
  /\ UNCHANGED <<input, answer, bytes, locked, calls, thrown>>

\* Variant: no clearTimeout on this way out.
CatchKeepingTimer ==
  /\ pc = "catch"
  /\ result' = Failed(IF timer = "fired" THEN "GOOGLE_TIMEOUT"
                      ELSE IF thrown = Null THEN "GOOGLE_UNAVAILABLE" ELSE thrown)
  /\ pc' = "done"
  /\ UNCHANGED <<input, timer, answer, bytes, locked, calls, thrown>>

\* An aborted request is a time-out, whatever was thrown; a foreign error is an
\* unavailable provider.  finally: clearTimeout.
Catch ==
  /\ pc = "catch"
  /\ result' = Failed(IF timer = "fired" THEN "GOOGLE_TIMEOUT"
                      ELSE IF thrown = Null THEN "GOOGLE_UNAVAILABLE" ELSE thrown)
  /\ pc' = "done"
  /\ timer' = IF timer = "fired" THEN "fired" ELSE "off"
  /\ UNCHANGED <<input, answer, bytes, locked, calls, thrown>>

Next ==
  \/ Start
  \/ \E a \in Answers : Headers(a)
  \/ Discarded
  \/ \E n \in 1..MaxBytes : Chunk(n)
  \/ Cancelled \/ End \/ Reject \/ Deadline \/ Catch

\* The adapter's own steps are taken, the deadline passes, and after an abort
\* what is awaited settles: a fetch and a body read reject, a cancellation
\* rejects or resolves.  The server and the network promise nothing.
Spec ==
  /\ Init /\ [][Next]_vars
  /\ WF_vars(Start) /\ WF_vars(Catch)
  /\ WF_vars(Deadline)
  /\ WF_vars(timer = "fired" /\ (Reject \/ Discarded \/ Cancelled))

-----------------------------------------------------------------------------
\* The state's shape.
TypeOK ==
  /\ input \in Input /\ pc \in Awaits \cup {"called", "catch", "done"}
  /\ timer \in {"off", "armed", "fired"}
  /\ answer \in Answers \cup {Null} /\ bytes \in Nat /\ locked \in BOOLEAN
  /\ calls \in 0..1 /\ thrown \in Codes \cup {Null}
  /\ result \in [code : Codes] \cup [data : Nat] \cup {Null}
  /\ pc = "done" <=> result # Null

\* The caller is told of a time-out exactly when the deadline passed before the
\* request ended, even while a refusal was being discarded or an oversized body
\* cancelled, where another error was already decided (request).
TimeoutIsTheDeadline ==
  pc = "done" => (result = Failed("GOOGLE_TIMEOUT") <=> timer = "fired")

\* A page is the whole of what the server sent: a body that the limit, the
\* network or the deadline cut short never becomes a shorter page, and neither
\* does one with a place the mapper refuses (request, mapGooglePage).
PageIsWhole ==
  result \in [data : Nat] =>
    /\ answer.status = 200 /\ bytes = answer.size /\ bytes <= MaxBytes
    /\ result.data = answer.places /\ answer.bad = 0

\* Whichever way a request ends, it leaves no deadline that could abort later,
\* no locked body, and nothing read of a refusal (request).
NothingLeftBehind ==
  pc = "done" =>
    /\ timer # "armed" /\ ~locked
    /\ answer # Null /\ answer.status # 200 => bytes = 0

\* A refusal of the provider reaches the caller under the code the documents
\* give it, and a code is never made up, unless the deadline passed or the
\* connection broke first (request; docs/google-places/api.md:46-56).
RefusalIsTold ==
  pc = "done" /\ answer # Null /\ timer # "fired" /\ thrown # Null =>
    /\ result = Failed("GOOGLE_QUOTA_EXCEEDED") <=> answer.status = 429
    /\ result = Failed("GOOGLE_ACCESS_DENIED") <=> answer.status \in {401, 403}
    /\ result = Failed("GOOGLE_NOT_FOUND") <=> answer.status = 404

\* Every request ends, even if the server never answers or stalls in its body:
\* the deadline covers every await (request).
EveryRequestEnds == <>(pc = "done")
=============================================================================
