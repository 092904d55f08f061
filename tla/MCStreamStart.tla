--------------------------- MODULE MCStreamStart ---------------------------
(* Two sessions that compete for one thread of the pool; one retry,        *)
(* where the code has three.                                               *)
EXTENDS StreamStart
=============================================================================
