----------------------------- MODULE MCTraceeMem -----------------------------
(* A word of two bytes and a read buffer of four. *)
EXTENDS TraceeMem

Appended == {<<>>, <<1, 2>>, <<0, 1, 0>>}
=============================================================================
