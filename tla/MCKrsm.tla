------------------------------- MODULE MCKrsm -------------------------------
(* One slot more than reasons: the table gets crowded, and a caller filters it. *)
EXTENDS Krsm
=============================================================================
