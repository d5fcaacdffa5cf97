---------------------------- MODULE MCSubStreams ----------------------------
(* SubStreams with up to three threads besides main.                       *)
EXTENDS SubStreams
=============================================================================
