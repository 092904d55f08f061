--------------------------- MODULE GenericVector ---------------------------
(***************************************************************************)
(* What a growable vector promises: a sequence of elements, changed at its *)
(* end, at an index, by removing one element or by cutting it short, until *)
(* a call writes outside its array (fault): an addition only to a vector   *)
(* of one to three elements, a change of the size at any time.             *)
(***************************************************************************)
EXTENDS Integers, Sequences

CONSTANT Values

VARIABLES elements, fault

vars == <<elements, fault>>

Init == elements = <<>> /\ fault = "none"

(* Element i is set to a value.  When it lies beyond the end, those in     *)
(* between may be anything.                                                *)
Put(i, x) ==
  /\ Len(elements') = IF i > Len(elements) THEN i ELSE Len(elements)
  /\ elements'[i] = x
  /\ \A j \in 1..Len(elements) : j # i => elements'[j] = elements[j]

RemoveAt(i) ==
  /\ i \in 1..Len(elements)
  /\ elements' = SubSeq(elements, 1, i - 1) \o SubSeq(elements, i + 1, Len(elements))

Cut(n) == elements' = SubSeq(elements, 1, n)

AddOverruns == Len(elements) \in 1..3 /\ fault' = "add" /\ UNCHANGED elements

ResizeOverruns == fault' = "resize" /\ UNCHANGED elements

Next ==
  /\ fault = "none"
  /\ \/ AddOverruns \/ ResizeOverruns
     \/ /\ UNCHANGED fault
        /\ \/ \E i \in 1..Len(elements'), x \in Values : Put(i, x)
           \/ \E i \in 1..Len(elements) : RemoveAt(i)
           \/ \E n \in 0..Len(elements) : Cut(n)

Spec == Init /\ [][Next]_vars
=============================================================================
