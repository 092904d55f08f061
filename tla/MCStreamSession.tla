-------------------------- MODULE MCStreamSession --------------------------
(* A small instance of StreamSession for TLC. *)
EXTENDS StreamSession
=============================================================================
