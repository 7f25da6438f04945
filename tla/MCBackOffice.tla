----------------------------- MODULE MCBackOffice -----------------------------
(***************************************************************************)
(* Instance of BackOffice for TLC: up to three rows and pages of one or    *)
(* two.  A walk reads two pages, two rows are written between or around    *)
(* them, and a page announced past MaxOffset is refused.  Two requests in  *)
(* any two ticks of a clock that shows three, so that walks meet the limit *)
(* and the window slides past an accepted request.                         *)
(***************************************************************************)
EXTENDS BackOffice
=============================================================================
