---------------------------- MODULE MCAuxBuffers ----------------------------
(* The auxiliary buffers for TLC. *)
EXTENDS AuxBuffers
=============================================================================
