----------------------------- MODULE MCCollector -----------------------------
(***************************************************************************)
(* Instance of Collector for TLC.  It shrinks the durations and keeps what *)
(* the code compares: the timeout (1) is shorter than the rate limit (2),  *)
(* the cache (3) outlives it, and the waits after three failures (1, 2, 3) *)
(* are within the longest one (3), so that the number of attempts ends a   *)
(* collection and not their delays.                                        *)
(***************************************************************************)
EXTENDS Collector

(* No request to wait, the longest wait that is accepted, one too long.    *)
MCRetryAfters == {0, MaxWait, MaxWait + 1}
=============================================================================
