-------------------------- MODULE MCMonitorBuffer --------------------------
(* The monitor buffer for TLC. *)
EXTENDS MonitorBuffer
=============================================================================
