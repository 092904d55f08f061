---------------------------- MODULE QueryService ----------------------------
(***************************************************************************)
(* What the session counts on when it asks for its stream URL: a query is  *)
(* under way or was dropped at once; one that is under way is answered at  *)
(* most once, with a usable URL or with a failure, and a dropped one is    *)
(* never answered.                                                         *)
(***************************************************************************)
CONSTANT Queries

VARIABLE outcome   (* "none", "pending", "lost", then "ok" or "failed"       *)

Init == outcome = [q \in Queries |-> "none"]

Begin(q) ==
  /\ outcome[q] = "none"
  /\ \E o \in {"pending", "lost"} : outcome' = [outcome EXCEPT ![q] = o]

Answer(q) ==
  /\ outcome[q] = "pending"
  /\ \E o \in {"ok", "failed"} : outcome' = [outcome EXCEPT ![q] = o]

Next == \E q \in Queries : Begin(q) \/ Answer(q)

Spec == Init /\ [][Next]_outcome
=============================================================================
