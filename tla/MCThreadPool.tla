---------------------------- MODULE MCThreadPool ----------------------------
(* Small instances of ThreadPool for TLC.  Two clients that both add       *)
(* persistent jobs may overwrite the slot; in the run on progress one does *)
(* and the other adds jobs to the low queue.                               *)
EXTENDS ThreadPool, TLC

CONSTANTS c1, c2

OpsOnePersistent == (c1 :> {"persistent", "low"}) @@ (c2 :> {"low"})
OpsPersistent == [c \in Clients |-> {"persistent"}]
=============================================================================
