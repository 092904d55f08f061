-------------------------- MODULE MCThreadPoolLife --------------------------
(* Three workers of which two may run at a time, two callers, and the      *)
(* thread that shuts the pool down.                                        *)
EXTENDS ThreadPoolLife

OpsBoth == [c \in Clients |-> {"persistent", "med"}]
=============================================================================
