--------------------------- MODULE MCSessionRaces ---------------------------
(* A small instance of SessionRaces for TLC. *)
EXTENDS SessionRaces
=============================================================================
