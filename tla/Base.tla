-------------------------------- MODULE Base --------------------------------
(***************************************************************************)
(* What the component modules share: the value for "no row", "no thread",  *)
(* "no owner".                                                             *)
(***************************************************************************)
CONSTANT None
=============================================================================
