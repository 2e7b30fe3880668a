----------------------------- MODULE MCMetadata -----------------------------
(* Two tracers, one of them enough for every sequential case. *)
EXTENDS Metadata
=============================================================================
