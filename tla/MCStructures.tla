---------------------------- MODULE MCStructures ----------------------------
(* Small instances in which every size is met, missed and passed: a buffer *)
(* of two bytes that grows by half; three blocks of memory, of which the   *)
(* free list keeps two; vectors of up to 5 elements, on both sides of 4,   *)
(* where a quarter more begins to be more; three jobs, with the idle time  *)
(* longer than the starvation time, as in tp_init.                         *)
EXTENDS Structures

=============================================================================
