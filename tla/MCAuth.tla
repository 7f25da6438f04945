------------------------------- MODULE MCAuth -------------------------------
(***************************************************************************)
(* Instance of Auth for TLC: a second is two ticks, so that issue and      *)
(* expiry fall inside one; the access token (4 ticks) and the refresh      *)
(* token (3) both end within the clock's range; four tokens are two logins *)
(* of two accounts, or one session exchanged three times.                  *)
(***************************************************************************)
EXTENDS Auth, TLC

Twins == Permutations(Passwords)
=============================================================================
