----------------------------- MODULE VmpVector -----------------------------
(***************************************************************************)
(* The generic vector of vmp/src/vmp_vector.c and the registry of node     *)
(* classes that vmp_node.c keeps in one.                                   *)
(*                                                                         *)
(* A call that returns an error changes nothing and is no step; malloc may *)
(* fail at any call.  A call that writes outside the array sets fault and  *)
(* ends the behaviour.  block changes whenever the elements are moved to   *)
(* another block of memory.                                                *)
(***************************************************************************)
EXTENDS Integers, Sequences

CONSTANTS
  Values,            (* elements; class numbers for the registry             *)
  Garbage,           (* what malloc returns                                  *)
  DefaultCapacity,   (* of tmVectorCreate for capacity 0: 10                 *)
  Slack,             (* of tmVectorSetElement: 128                           *)
  MaxCapacity        (* bound: the largest block malloc gives                *)

ASSUME VecAssumption ==
  /\ DefaultCapacity \in Nat \ {0} /\ Slack \in Nat \ {0} /\ MaxCapacity \in Nat
  /\ Garbage \notin Values

VARIABLES
  alive,             (* whether *vectorhandle is a vector                    *)
  array, size, capacity,
  noRelocation, noResize,   (* flags                                         *)
  block,             (* history: which block array is in, alternating        *)
  leaked,            (* a block was dropped without free                     *)
  fault              (* "none", or the call that wrote outside the array     *)

flagVars == <<noRelocation, noResize>>
storeVars == <<array, capacity, block, leaked>>
vecVars == <<alive, array, size, capacity, noRelocation, noResize, block, leaked, fault>>

Larger(a, b) == IF a > b THEN a ELSE b

(* The size never exceeds the allocation: what every index test rests on.  *)
VecTypeOK ==
  /\ alive \in BOOLEAN /\ noRelocation \in BOOLEAN /\ noResize \in BOOLEAN
  /\ capacity \in Nat /\ size \in 0..capacity
  /\ array \in [0..capacity - 1 -> Values \cup {Garbage}]
  /\ block \in {0, 1} /\ leaked \in BOOLEAN
  /\ fault \in {"none", "add", "resize"}

VecInit ==
  /\ alive = FALSE /\ array = [i \in 0..-1 |-> Garbage] /\ size = 0 /\ capacity = 0
  /\ noRelocation = FALSE /\ noResize = FALSE
  /\ block = 0 /\ leaked = FALSE /\ fault = "none"

Usable == alive /\ fault = "none"

-----------------------------------------------------------------------------
(* tmVectorCreate.                                                         *)
Create(cap) ==
  /\ ~alive /\ fault = "none"
  /\ capacity' = IF cap = 0 THEN DefaultCapacity ELSE cap
  /\ array' = [i \in 0..capacity' - 1 |-> Garbage]
  /\ alive' = TRUE /\ size' = 0 /\ block' = 1 - block
  /\ noRelocation' = FALSE /\ noResize' = FALSE
  /\ UNCHANGED <<leaked, fault>>

(* tmVectorSetCapacity as seen by its callers: it may refuse or run out of *)
(* memory, it may have nothing to do, or the elements move.                *)
Refuses(cap) ==
  \/ cap < size
  \/ cap # capacity /\ (noRelocation \/ cap # 0)
NothingToDo(cap) == cap >= size /\ cap = capacity

(* Mutant of Moves: the elements move although a pointer is out.           *)
MovesPinned(cap) == cap >= size /\ cap # capacity /\ cap <= MaxCapacity

Moves(cap) ==
  cap >= size /\ cap # capacity /\ ~noRelocation /\ cap <= MaxCapacity

(* The block with the elements moved into it.  A new capacity of 0 drops   *)
(* the old block instead of freeing it.                                    *)
Reallocated(cap) ==
  [i \in 0..cap - 1 |-> IF i < size THEN array[i] ELSE Garbage]

MoveTo(cap) ==
  /\ capacity' = cap
  /\ block' = 1 - block
  /\ leaked' = (leaked \/ (cap = 0 /\ capacity > 0))

SetCapacity(cap) ==
  /\ Usable /\ Moves(cap)
  /\ array' = Reallocated(cap)
  /\ MoveTo(cap)
  /\ UNCHANGED <<alive, size, flagVars, fault>>

-----------------------------------------------------------------------------
(* tmVectorAddElement: twice the capacity, or a quarter more.              *)
Twice == Larger(2 * capacity, 1)
Quarter == Larger(capacity + capacity \div 4, 1)

Fits == size < capacity

AddElement(x) ==
  /\ Usable /\ ~noResize /\ Fits
  /\ array' = [array EXCEPT ![size] = x]
  /\ size' = size + 1
  /\ UNCHANGED <<alive, capacity, block, leaked, flagVars, fault>>

AddGrows(x) ==
  /\ Usable /\ ~noResize /\ ~Fits
  /\ \E cap \in {Twice, Quarter} :
       /\ cap = Quarter /\ cap # Twice => Refuses(Twice)
       /\ Moves(cap)
       /\ array' = [Reallocated(cap) EXCEPT ![size] = x]
       /\ MoveTo(cap)
  /\ size' = size + 1
  /\ UNCHANGED <<alive, flagVars, fault>>

(* The second attempt asks for the capacity there is and succeeds.         *)
AddOverruns ==
  /\ Usable /\ ~noResize /\ ~Fits
  /\ Refuses(Twice) /\ NothingToDo(Quarter)
  /\ fault' = "add"
  /\ UNCHANGED <<alive, size, storeVars, flagVars>>

(* tmVectorGetElementptr pins the elements.                                *)
GetElementptr(i) ==
  /\ Usable /\ i < size
  /\ noRelocation' = TRUE
  /\ UNCHANGED <<alive, size, storeVars, noResize, fault>>

(* tmVectorSetElement, at any index.                                       *)
SetElement(x, i) ==
  /\ Usable /\ i < capacity
  /\ array' = [array EXCEPT ![i] = x]
  /\ size' = Larger(size, i + 1)
  /\ UNCHANGED <<alive, capacity, block, leaked, flagVars, fault>>

SetElementGrows(x, i) ==
  /\ Usable /\ i >= capacity
  /\ LET first == i + capacity + 1
         second == Larger(i + i \div 5, i + Slack)
     IN \E cap \in {first, second} :
          /\ cap = second /\ cap # first => Refuses(first)
          /\ Moves(cap)
          /\ array' = [Reallocated(cap) EXCEPT ![i] = x]
          /\ MoveTo(cap)
  /\ size' = i + 1
  /\ UNCHANGED <<alive, flagVars, fault>>

(* Mutant of RemoveElement: the last element is moved into the gap.        *)
RemoveElementSwaps(i) ==
  /\ Usable /\ ~noRelocation /\ i < size
  /\ array' = [array EXCEPT ![i] = array[size - 1]]
  /\ size' = size - 1
  /\ UNCHANGED <<alive, capacity, block, leaked, flagVars, fault>>

RemoveElement(i) ==
  /\ Usable /\ ~noRelocation /\ i < size
  /\ array' = [j \in 0..capacity - 1 |->
                 IF i <= j /\ j < size - 1 THEN array[j + 1] ELSE array[j]]
  /\ size' = size - 1
  /\ UNCHANGED <<alive, capacity, block, leaked, flagVars, fault>>

Clear ==
  /\ Usable /\ ~noResize
  /\ size' = 0
  /\ UNCHANGED <<alive, storeVars, flagVars, fault>>

(* tmVectorSetSize to a smaller size.                                      *)
SetSize(n) ==
  /\ Usable /\ ~noResize /\ n < size
  /\ size' = n
  /\ UNCHANGED <<alive, storeVars, flagVars, fault>>

(* To a larger one: the length given to memset is negative, whether the    *)
(* capacity was enough or had to grow.                                     *)
SetSizeGrows(n) ==
  /\ Usable /\ ~noResize /\ n > size
  /\ n <= capacity \/ Moves(n)
  /\ fault' = "resize"
  /\ UNCHANGED <<alive, size, storeVars, flagVars>>

SetFlags(relocation, resize) ==
  /\ Usable
  /\ noRelocation' = relocation /\ noResize' = resize
  /\ UNCHANGED <<alive, size, storeVars, fault>>

(* tmVectorFree.                                                           *)
Free ==
  /\ Usable /\ ~noResize /\ ~noRelocation
  /\ alive' = FALSE /\ size' = 0 /\ capacity' = 0
  /\ array' = [i \in 0..-1 |-> Garbage]
  /\ UNCHANGED <<flagVars, block, leaked, fault>>

-----------------------------------------------------------------------------
(* The registry.  node_register_class is Add, node_find_class the first    *)
(* match.                                                                  *)
FirstOf(c) ==
  {i \in 0..size - 1 : array[i] = c /\ \A j \in 0..i - 1 : array[j] # c}

UnregisterClass(c) == \E i \in FirstOf(c) : RemoveElement(i)

VecNext ==
  \/ \E cap \in 0..MaxCapacity : Create(cap) \/ SetCapacity(cap)
  \/ \E x \in Values : AddElement(x) \/ AddGrows(x) \/ UnregisterClass(x)
  \/ \E x \in Values, i \in 0..MaxCapacity - 1 : SetElement(x, i) \/ SetElementGrows(x, i)
  \/ \E i \in 0..MaxCapacity - 1 : GetElementptr(i) \/ RemoveElement(i)
  \/ \E n \in 0..MaxCapacity : SetSize(n) \/ SetSizeGrows(n)
  \/ \E relocation, resize \in BOOLEAN : SetFlags(relocation, resize)
  \/ AddOverruns \/ Clear \/ Free

VecSpec == VecInit /\ [][VecNext]_vecVars

-----------------------------------------------------------------------------
(* tmVectorAddElement writes outside the array only when it is full and    *)
(* has 1 to 3 elements, where a quarter more is no more; from 4 elements   *)
(* on, and so for the registry's 100, a vector that cannot grow says so.   *)
AddOverrunsOnlyTiny == fault = "add" => size = capacity /\ capacity \in 1..3

(* While a pointer is out (tmVectorGetElementptr), no call moves the       *)
(* elements to another block or frees them, whatever calls are made in     *)
(* between; only tmVectorSetFlags takes the pin back.                      *)
PinnedStays == [][noRelocation => UNCHANGED block /\ alive']_vecVars

(* As long as no call has written outside the array, the vector is the     *)
(* sequence of its first size elements, and every step puts one element,   *)
(* removes one, cuts the sequence short or leaves it alone; which call     *)
(* made the step is not part of the abstract state.  tmVectorAddElement    *)
(* writes outside only behind one to three elements.                       *)
AbstractVector == INSTANCE GenericVector
                  WITH elements <- [i \in 1..size |-> array[i - 1]]
VectorSpec == AbstractVector!Spec
=============================================================================
