---------------------------- MODULE PlacesProofs ----------------------------
(***************************************************************************)
(* What holds of a request to the provider for every size limit, page      *)
(* limit and set of answers.  That every request ends is left to TLC.      *)
(***************************************************************************)
EXTENDS Places, TLAPS

(***************************************************************************)
(* What each await knows: the deadline runs, the body is that of a success *)
(* and is read under the limit, a refusal is not read.                     *)
(***************************************************************************)
Standing ==
  /\ pc = "called" => timer = "off" /\ answer = Null /\ ~locked /\ calls = 0 /\ thrown = Null
  /\ pc \in Awaits \cup {"catch"} => timer # "off"
  /\ pc = "transport" => answer = Null /\ ~locked
  /\ pc = "discard" => answer # Null /\ answer.status \notin {200, 204} /\ ~locked
  /\ pc \in {"read", "cancel"} => answer # Null /\ answer.status = 200
  /\ pc = "read" => bytes <= MaxBytes
  /\ pc \in {"catch", "done"} => ~locked
  /\ pc = "done" => timer # "armed"

(***************************************************************************)
(* Bytes are those of the body of a success.                               *)
(***************************************************************************)
BytesOfSuccess == bytes # 0 => answer # Null /\ answer.status = 200

(***************************************************************************)
(* An error of the adapter is thrown for the answer, and is never the one  *)
(* that tells of a time-out.                                               *)
(***************************************************************************)
CodeFor(status) == IF status \in {200, 204} THEN "GOOGLE_INVALID_RESPONSE" ELSE CodeOf(status)

ThrownForAnswer ==
  thrown # Null => /\ answer # Null /\ thrown = CodeFor(answer.status)
                   /\ pc \in {"catch", "done"}

(***************************************************************************)
(* What a request that caught an error returns.                            *)
(***************************************************************************)
Caught == IF timer = "fired" THEN "GOOGLE_TIMEOUT"
          ELSE IF thrown = Null THEN "GOOGLE_UNAVAILABLE" ELSE thrown

Returned ==
  pc = "done" =>
     \/ /\ answer = Null /\ timer = "off" /\ thrown = Null
        /\ result \in {Failed("GOOGLE_DISABLED"), Failed("GOOGLE_INVALID_INPUT")}
     \/ result = Failed(Caught)
     \/ /\ answer # Null /\ Maps(input.operation, answer) /\ result = Page(answer.places)
        /\ answer.status = 200 /\ bytes = answer.size /\ bytes <= MaxBytes
        /\ timer = "off" /\ thrown = Null

IInv == TypeOK /\ Standing /\ BytesOfSuccess /\ ThrownForAnswer /\ Returned

-----------------------------------------------------------------------------
LEMMA AnswerType ==
  ASSUME NEW a \in Answers
  PROVE  /\ a.status \in {200, 204, 400, 401, 403, 404, 429, 500} /\ a.size \in Nat
         /\ a.json \in BOOLEAN /\ a.places \in Nat /\ a # Null
  BY PlacesAssumption, NullAssumption

LEMMA Results ==
  /\ \A c \in Codes : Failed(c) \in [code : Codes] /\ Failed(c) # Null
                      /\ Failed(c) \notin [data : Nat]
  /\ \A c, d \in Codes : Failed(c) = Failed(d) => c = d
  /\ \A n \in Nat : Page(n) \in [data : Nat] /\ Page(n) # Null /\ Page(n).data = n
                    /\ \A c \in Codes : Page(n) # Failed(c)
  <1>1. \A c : DOMAIN Failed(c) = {"code"} /\ Failed(c).code = c
    BY DEF Failed
  <1>2. \A n : DOMAIN Page(n) = {"data"} /\ Page(n).data = n
    BY DEF Page
  <1>3. {"code"} # {"data"}
    OBVIOUS
  <1>4. \A c \in Codes : Failed(c) \in [code : Codes]
    BY DEF Failed
  <1>5. \A n \in Nat : Page(n) \in [data : Nat]
    BY DEF Page
  <1>6. \A r \in [data : Nat] : DOMAIN r = {"data"}
    OBVIOUS
  <1> QED BY <1>1, <1>2, <1>3, <1>4, <1>5, <1>6, NullAssumption

LEMMA CodeTypes ==
  /\ \A status : CodeFor(status) \in Codes \ {"GOOGLE_TIMEOUT"}
  /\ thrown \in Codes \cup {Null} => Caught \in Codes
  BY DEF CodeFor, CodeOf, Codes, Caught

LEMMA Initially == Init => IInv
  <1> SUFFICES ASSUME Init PROVE IInv
    OBVIOUS
  <1>1. TypeOK
    <2>1. /\ input \in Input /\ pc \in Awaits \cup {"called", "catch", "done"}
          /\ timer \in {"off", "armed", "fired"} /\ answer \in Answers \cup {Null}
          /\ thrown \in Codes \cup {Null}
          /\ result \in [code : Codes] \cup [data : Nat] \cup {Null}
      BY Zenon DEF Init
    <2>2. bytes \in Nat /\ calls \in 0..1
      BY DEF Init
    <2>3. locked \in BOOLEAN /\ (pc = "done" <=> result # Null)
      BY DEF Init
    <2> QED BY <2>1, <2>2, <2>3 DEF TypeOK
  <1>2. Standing /\ BytesOfSuccess /\ ThrownForAnswer /\ Returned
    BY DEF Init, Standing, BytesOfSuccess, ThrownForAnswer, Returned, Awaits
  <1> QED BY <1>1, <1>2 DEF IInv

LEMMA StartStep == IInv /\ Start => IInv'
  <1> SUFFICES ASSUME IInv, Start PROVE IInv'
    OBVIOUS
  <1>1. /\ Failed("GOOGLE_DISABLED") \in [code : Codes] /\ Failed("GOOGLE_DISABLED") # Null
        /\ Failed("GOOGLE_INVALID_INPUT") \in [code : Codes]
        /\ Failed("GOOGLE_INVALID_INPUT") # Null
    BY Results DEF Codes
  <1>2. TypeOK'
    BY <1>1 DEF Start, IInv, TypeOK, Standing, Awaits, Input
  <1>3. Standing' /\ BytesOfSuccess' /\ ThrownForAnswer'
    BY PlacesAssumption DEF Start, IInv, TypeOK, Standing, BytesOfSuccess, ThrownForAnswer, Awaits
  <1>4. Returned'
    BY DEF Start, IInv, Standing, Returned, Awaits
  <1> QED BY <1>2, <1>3, <1>4 DEF IInv

LEMMA HeadersStep == ASSUME IInv, NEW a \in Answers, Headers(a) PROVE IInv'
  <1>1. /\ a.status \in {200, 204, 400, 401, 403, 404, 429, 500} /\ a # Null
        /\ answer' = a /\ pc' \in {"read", "discard", "catch"} /\ result' = result
        /\ timer' = timer /\ bytes' = bytes /\ calls' = calls /\ input' = input
        /\ pc = "transport" /\ locked' = (a.status = 200)
        /\ pc' = "read" <=> a.status = 200
        /\ pc' = "catch" <=> a.status = 204
        /\ thrown' = IF a.status = 204 THEN "GOOGLE_INVALID_RESPONSE" ELSE thrown
    BY AnswerType DEF Headers, Throw
  <1>2. /\ thrown = Null /\ bytes = 0 /\ timer # "off" /\ result = Null
        /\ "GOOGLE_INVALID_RESPONSE" \in Codes
    BY <1>1 DEF IInv, Standing, BytesOfSuccess, ThrownForAnswer, TypeOK, Awaits, Codes
  <1>3. TypeOK'
    BY <1>1, <1>2 DEF IInv, TypeOK, Awaits
  <1>4. Standing' /\ BytesOfSuccess'
    <2>1. locked' <=> pc' = "read"
      <3>1. locked' = (a.status = 200) /\ (pc' = "read" <=> a.status = 200)
        BY <1>1
      <3> QED BY <3>1
    <2>2. bytes' <= MaxBytes /\ bytes' = 0
      BY <1>1, <1>2, PlacesAssumption
    <2>3. timer' # "off" /\ answer' # Null
          /\ (pc' = "discard" => answer'.status \notin {200, 204})
          /\ (pc' = "read" => answer'.status = 200)
      BY <1>1, <1>2
    <2> QED BY <1>1, <2>1, <2>2, <2>3 DEF Standing, BytesOfSuccess, Awaits
  <1>5. ThrownForAnswer' /\ Returned'
    BY <1>1, <1>2 DEF ThrownForAnswer, CodeFor, Returned
  <1> QED BY <1>3, <1>4, <1>5 DEF IInv

(***************************************************************************)
(* The steps that throw, an error of the adapter or a foreign one.         *)
(***************************************************************************)
LEMMA ThrowStep ==
  ASSUME IInv, pc \in Awaits, NEW code, Throw(code),
         code # Null => answer # Null /\ code = CodeFor(answer.status),
         locked' = FALSE, UNCHANGED <<input, timer, answer, bytes, calls, result>>
  PROVE  IInv'
  <1>1. code \in Codes \cup {Null}
    BY CodeTypes
  <1>2. TypeOK'
    BY <1>1 DEF IInv, TypeOK, Throw, Awaits
  <1>3. Standing' /\ BytesOfSuccess' /\ ThrownForAnswer' /\ Returned'
    BY DEF IInv, Standing, BytesOfSuccess, ThrownForAnswer, Returned, Throw, Awaits
  <1> QED BY <1>2, <1>3 DEF IInv

LEMMA DiscardedStep == IInv /\ Discarded => IInv'
  <1> SUFFICES ASSUME IInv, Discarded PROVE IInv'
    OBVIOUS
  <1>1. /\ pc \in Awaits /\ answer # Null /\ CodeOf(answer.status) = CodeFor(answer.status)
        /\ locked' = FALSE
    BY DEF IInv, TypeOK, Standing, Discarded, Awaits, CodeFor
  <1> QED BY <1>1, ThrowStep DEF Discarded

LEMMA CancelledStep == IInv /\ Cancelled => IInv'
  <1> SUFFICES ASSUME IInv, Cancelled PROVE IInv'
    OBVIOUS
  <1>1. pc \in Awaits /\ answer # Null /\ CodeFor(answer.status) = "GOOGLE_INVALID_RESPONSE"
    BY DEF IInv, Standing, Cancelled, Awaits, CodeFor
  <1> QED BY <1>1, ThrowStep DEF Cancelled

LEMMA RejectStep == IInv /\ Reject => IInv'
  BY ThrowStep DEF Reject

LEMMA ChunkStep == ASSUME IInv, NEW n \in 1..MaxBytes, Chunk(n) PROVE IInv'
  <1>1. /\ pc = "read" /\ bytes' = bytes + n /\ bytes \in Nat /\ n \in Nat
        /\ pc' \in {"read", "cancel"} /\ (pc' = "read" => bytes' <= MaxBytes)
        /\ UNCHANGED <<input, timer, answer, locked, calls, thrown, result>>
    BY PlacesAssumption DEF Chunk, IInv, TypeOK
  <1>2. answer # Null /\ answer.status = 200 /\ timer # "off" /\ thrown = Null
    BY <1>1 DEF IInv, Standing, ThrownForAnswer, Awaits
  <1>3. TypeOK'
    BY <1>1 DEF IInv, TypeOK, Awaits
  <1>4. Standing' /\ BytesOfSuccess' /\ ThrownForAnswer' /\ Returned'
    BY <1>1, <1>2 DEF Standing, BytesOfSuccess, ThrownForAnswer, Returned, Awaits
  <1> QED BY <1>3, <1>4 DEF IInv

LEMMA EndStep == IInv /\ End => IInv'
  <1> SUFFICES ASSUME IInv, End PROVE IInv'
    OBVIOUS
  <1>1. /\ pc = "read" /\ answer # Null /\ answer \in Answers /\ answer.status = 200
        /\ timer # "off" /\ thrown = Null /\ bytes <= MaxBytes /\ bytes = answer.size
    BY DEF End, IInv, TypeOK, Standing, ThrownForAnswer, Awaits
  <1>2. CASE ~Maps(input.operation, answer)
    <2>1. CodeFor(answer.status) = "GOOGLE_INVALID_RESPONSE"
      BY <1>1 DEF CodeFor
    <2> QED BY <1>1, <1>2, <2>1, ThrowStep DEF End, Awaits
  <1>3. CASE Maps(input.operation, answer)
    <2>1. /\ result' = Page(answer.places) /\ pc' = "done" /\ timer' = "off"
          /\ locked' = FALSE /\ UNCHANGED <<input, answer, bytes, calls, thrown>>
      BY <1>3 DEF End
    <2>2. Page(answer.places) \in [data : Nat] /\ Page(answer.places) # Null
      BY <1>1, AnswerType, Results
    <2>3. TypeOK'
      BY <2>1, <2>2 DEF IInv, TypeOK, Awaits
    <2>4. Standing' /\ BytesOfSuccess' /\ ThrownForAnswer'
      BY <1>1, <2>1 DEF Standing, BytesOfSuccess, ThrownForAnswer, Awaits
    <2>5. Returned'
      BY <1>1, <1>3, <2>1 DEF Returned, Maps
    <2> QED BY <2>3, <2>4, <2>5 DEF IInv
  <1> QED BY <1>2, <1>3

LEMMA DeadlineStep == IInv /\ Deadline => IInv'
  BY DEF Deadline, IInv, TypeOK, Standing, BytesOfSuccess, ThrownForAnswer, Returned, Awaits

LEMMA CatchStep == IInv /\ Catch => IInv'
  <1> SUFFICES ASSUME IInv, Catch PROVE IInv'
    OBVIOUS
  <1>1. /\ pc = "catch" /\ pc' = "done" /\ result' = Failed(Caught)
        /\ timer' = IF timer = "fired" THEN "fired" ELSE "off"
        /\ UNCHANGED <<input, answer, bytes, locked, calls, thrown>>
    BY DEF Catch, Caught
  <1>2. Failed(Caught) \in [code : Codes] /\ Failed(Caught) # Null
    BY CodeTypes, Results DEF IInv, TypeOK
  <1>3. TypeOK'
    BY <1>1, <1>2 DEF IInv, TypeOK, Awaits
  <1>4. Standing' /\ BytesOfSuccess' /\ ThrownForAnswer'
    BY <1>1 DEF IInv, Standing, BytesOfSuccess, ThrownForAnswer, Awaits
  <1>5. Caught' = Caught
    BY <1>1 DEF Caught
  <1>6. Returned'
    BY <1>1, <1>5 DEF Returned
  <1> QED BY <1>3, <1>4, <1>6 DEF IInv

LEMMA Inductive == IInv /\ [Next]_vars => IInv'
  <1>1. IInv /\ UNCHANGED vars => IInv'
    BY DEF vars, IInv, TypeOK, Standing, BytesOfSuccess, ThrownForAnswer, Returned, Caught
  <1> QED BY <1>1, StartStep, HeadersStep, DiscardedStep, ChunkStep, CancelledStep, EndStep,
             RejectStep, DeadlineStep, CatchStep DEF Next

LEMMA Always == Spec => []IInv
  BY Initially, Inductive, PTL DEF Spec

-----------------------------------------------------------------------------
THEOREM TypeCorrect == Spec => []TypeOK
  <1>1. IInv => TypeOK
    BY DEF IInv
  <1> QED BY <1>1, Always, PTL

(***************************************************************************)
(* A time-out is told exactly when the deadline passed, whatever error was *)
(* already decided.                                                        *)
(***************************************************************************)
THEOREM TimeoutsAreDeadlines == Spec => []TimeoutIsTheDeadline
  <1>1. IInv => TimeoutIsTheDeadline
    <2> SUFFICES ASSUME IInv, pc = "done"
                 PROVE  result = Failed("GOOGLE_TIMEOUT") <=> timer = "fired"
      BY DEF TimeoutIsTheDeadline
    <2>1. thrown # "GOOGLE_TIMEOUT" /\ Caught \in Codes
      BY CodeTypes, NullAssumption DEF IInv, TypeOK, ThrownForAnswer, Codes
    <2>2. Caught = "GOOGLE_TIMEOUT" <=> timer = "fired"
      BY <2>1 DEF Caught
    <2>3. {"GOOGLE_TIMEOUT", "GOOGLE_DISABLED", "GOOGLE_INVALID_INPUT"} \subseteq Codes
      BY DEF Codes
    <2>4. /\ Failed("GOOGLE_DISABLED") # Failed("GOOGLE_TIMEOUT")
          /\ Failed("GOOGLE_INVALID_INPUT") # Failed("GOOGLE_TIMEOUT")
          /\ Failed(Caught) = Failed("GOOGLE_TIMEOUT") <=> timer = "fired"
      BY <2>1, <2>2, <2>3, Results
    <2>5. answer # Null => Page(answer.places) # Failed("GOOGLE_TIMEOUT")
      BY <2>3, AnswerType, Results DEF IInv, TypeOK
    <2> QED BY <2>4, <2>5 DEF IInv, Returned
  <1> QED BY <1>1, Always, PTL

(***************************************************************************)
(* A page is the whole of a body within the limit, every place of which    *)
(* the mapper took.                                                        *)
(***************************************************************************)
THEOREM PagesAreWhole == Spec => []PageIsWhole
  <1>1. IInv => PageIsWhole
    <2> SUFFICES ASSUME IInv, result \in [data : Nat] PROVE PageIsWhole
      BY DEF PageIsWhole
    <2>1. pc = "done"
      BY NullAssumption DEF IInv, TypeOK
    <2>2. Caught \in Codes /\ {"GOOGLE_DISABLED", "GOOGLE_INVALID_INPUT"} \subseteq Codes
      BY CodeTypes DEF IInv, TypeOK, Codes
    <2>3. /\ answer # Null /\ Maps(input.operation, answer) /\ result = Page(answer.places)
          /\ answer.status = 200 /\ bytes = answer.size /\ bytes <= MaxBytes
      BY <2>1, <2>2, Results DEF IInv, Returned
    <2>4. result.data = answer.places
      BY <2>3 DEF Page
    <2> QED BY <2>3, <2>4 DEF PageIsWhole, Maps
  <1> QED BY <1>1, Always, PTL

(***************************************************************************)
(* No way out of a request leaves its deadline armed, its body locked or a *)
(* refusal read.                                                           *)
(***************************************************************************)
THEOREM NothingLeft == Spec => []NothingLeftBehind
  <1>1. IInv => NothingLeftBehind
    BY DEF IInv, Standing, BytesOfSuccess, NothingLeftBehind
  <1> QED BY <1>1, Always, PTL

(***************************************************************************)
(* A refusal is told under its own code, and no code is made up, unless    *)
(* the deadline or the network came first.                                 *)
(***************************************************************************)
THEOREM RefusalsAreTold == Spec => []RefusalIsTold
  <1>1. IInv => RefusalIsTold
    <2> SUFFICES ASSUME IInv, pc = "done", answer # Null, timer # "fired", thrown # Null
                 PROVE  /\ result = Failed("GOOGLE_QUOTA_EXCEEDED") <=> answer.status = 429
                        /\ result = Failed("GOOGLE_ACCESS_DENIED")
                              <=> answer.status \in {401, 403}
                        /\ result = Failed("GOOGLE_NOT_FOUND") <=> answer.status = 404
      BY DEF RefusalIsTold
    <2> DEFINE code == CodeFor(answer.status)
    <2>1. result = Failed(code) /\ code \in Codes
      BY CodeTypes DEF IInv, Returned, ThrownForAnswer, Caught
    <2>2. {"GOOGLE_QUOTA_EXCEEDED", "GOOGLE_ACCESS_DENIED", "GOOGLE_NOT_FOUND"} \subseteq Codes
      BY DEF Codes
    <2>3. /\ code = "GOOGLE_QUOTA_EXCEEDED" <=> answer.status = 429
          /\ code = "GOOGLE_ACCESS_DENIED" <=> answer.status \in {401, 403}
          /\ code = "GOOGLE_NOT_FOUND" <=> answer.status = 404
      BY DEF CodeFor, CodeOf
    <2> HIDE DEF code
    <2> QED BY <2>1, <2>2, <2>3, Results
  <1> QED BY <1>1, Always, PTL
=============================================================================
