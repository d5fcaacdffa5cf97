--------------------------- MODULE MCSpscRingbuf ---------------------------
(* The ring buffer for TLC: few slots, two distinguishable elements. *)
EXTENDS SpscRingbuf
=============================================================================
