-------------------------- MODULE MCDropOlderThan --------------------------
(* drop_older_than for TLC: a queue of up to four events at every place of *)
(* the ring, and more ids than events.                                     *)
EXTENDS DropOlderThan
=============================================================================
