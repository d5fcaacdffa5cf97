--------------------------- MODULE MCStreamFetch ---------------------------
(* One stream for TLC: the smallest arbiter buffer the code allows, and as *)
(* many events as make it drop, recover and drop again.                    *)
EXTENDS StreamFetch
=============================================================================
