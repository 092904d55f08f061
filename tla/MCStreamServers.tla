--------------------------- MODULE MCStreamServers ---------------------------
(* A small instance of StreamServers for TLC.                              *)
EXTENDS StreamServers

CONSTANTS c1, c2

TwoConns == {c1, c2}
=============================================================================
