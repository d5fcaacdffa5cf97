---------------------------- MODULE MCShamonLoop ----------------------------
(* The monitor's main loop for TLC, with one stream. *)
EXTENDS ShamonLoop
=============================================================================
