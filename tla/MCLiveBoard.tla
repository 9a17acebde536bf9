--------------------------- MODULE MCLiveBoard ----------------------------
(***************************************************************************)
(* A bucket of one token that takes two steps of the clock to refill.      *)
(***************************************************************************)
EXTENDS LiveBoard
============================================================================
