----------------------------- MODULE Structures -----------------------------
(***************************************************************************)
(* The data structures the servers and the pool are built on: the buffer   *)
(* of a session, the list with its free list, the vector of the node       *)
(* registry and the three job queues.  They share no memory, and each of   *)
(* them is used under its owner's mutex, so a behaviour that interleaves   *)
(* two of them shows nothing that each alone does not: a behaviour here    *)
(* exercises one, with every order of its calls, and leaves the others as  *)
(* they were created.                                                      *)
(***************************************************************************)
EXTENDS TimaBuffer, LinkedList, VmpVector, JobPriorities

VARIABLE exercised   (* the structure this behaviour is about *)

structVars == <<exercised, bufVars, nodeVars, vecVars, prioVars>>

StructInit ==
  /\ exercised \in {"buffer", "list", "vector", "queues"}
  /\ BufInit /\ ListInit /\ VecInit /\ PrioInit

(* A step of one structure; the rest of the state stays.                   *)
InBuffer(A) ==
  exercised = "buffer" /\ A /\ UNCHANGED <<exercised, nodeVars, vecVars, prioVars>>
InList(A) ==
  exercised = "list" /\ A /\ UNCHANGED <<exercised, bufVars, vecVars, prioVars>>
InVector(A) ==
  exercised = "vector" /\ A /\ UNCHANGED <<exercised, bufVars, nodeVars, prioVars>>
InQueues(A) ==
  exercised = "queues" /\ A /\ UNCHANGED <<exercised, bufVars, nodeVars, vecVars>>

StructNext ==
  \/ InBuffer(BufNext) \/ InList(ListStep)
  \/ InVector(VecNext) \/ InQueues(PrioNext)

StructSpec == StructInit /\ [][StructNext]_structVars

=============================================================================
