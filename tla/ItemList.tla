------------------------------ MODULE ItemList ------------------------------
(***************************************************************************)
(* What a list of common/threadpool/LinkedList.h promises its callers: a   *)
(* sequence of items into which one may insert anywhere, from which one    *)
(* may delete anywhere, and whose length is known.                         *)
(***************************************************************************)
EXTENDS Integers, Sequences

CONSTANT Items

VARIABLES items, size

vars == <<items, size>>

(* s with x as its k-th element; s without its k-th element.               *)
With(s, k, x) ==
  [j \in 1..(Len(s) + 1) |->
     IF j < k THEN s[j] ELSE IF j = k THEN x ELSE s[j - 1]]
Dropped(s, k) == [j \in 1..(Len(s) - 1) |-> IF j < k THEN s[j] ELSE s[j + 1]]

Init == items = <<>> /\ size = 0

Insert(k, x) == items' = With(items, k, x) /\ size' = size + 1

Delete(k) == items' = Dropped(items, k) /\ size' = size - 1

Next ==
  \/ \E k \in 1..(Len(items) + 1), x \in Items : Insert(k, x)
  \/ \E k \in 1..Len(items) : Delete(k)

Spec == Init /\ [][Next]_vars

=============================================================================
