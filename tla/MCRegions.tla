------------------------------ MODULE MCRegions ------------------------------
(***************************************************************************)
(* Regions for TLC: three tracer threads, two process numbers (so that at  *)
(* least two threads trace the same number one after the other) and two    *)
(* regions (so that the pool runs dry).                                    *)
(***************************************************************************)
EXTENDS Regions
=============================================================================
