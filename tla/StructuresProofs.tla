-------------------------- MODULE StructuresProofs --------------------------
(***************************************************************************)
(* The data structures for every size, value and order of calls: the       *)
(* buffer, the vector, the list with its free list, and the job queues;    *)
(* then all of them in the composition that the run checks.                *)
(***************************************************************************)
EXTENDS Structures, SequenceTheorems, TLAPS

-----------------------------------------------------------------------------
(* The buffer: WriteInBlock and UsedInside.                                *)

(* The block is never smaller than the recorded total.                     *)
BlockHoldsTotal == bufPc # "clean" => total <= blockSize

(* At the copy the data fits the recorded total; it fills the total only   *)
(* right after a growth to exactly that size.                              *)
RoomMade ==
  bufPc = "write" => /\ used + len <= total
                     /\ used + len = total => total = need /\ blockSize = need

BufInv == BufTypeOK /\ UsedInside /\ BlockHoldsTotal /\ RoomMade

(* Growing by half stays within the naturals and never shrinks.            *)
LEMMA HalfNat == \A n \in Nat : Half(n) \in Nat /\ n <= Half(n)
  BY DEF Half

(* tima_buffer_init establishes the inductive invariant.                   *)
LEMMA BufInitInv == BufInit => BufInv
  BY BufAssumption DEF BufInit, BufInv, BufTypeOK, UsedInside, BlockHoldsTotal, RoomMade

(* Every operation of tima_buffer.c preserves it.                          *)
LEMMA BufStepInv == BufInv /\ [BufNext]_bufVars => BufInv'
<1> SUFFICES ASSUME BufInv, [BufNext]_bufVars PROVE BufInv'
  OBVIOUS
<1> USE BufAssumption DEF BufInv, BufTypeOK, UsedInside, BlockHoldsTotal, RoomMade, argVars
<1>1. ASSUME NEW n \in 0..MaxLen, NEW a \in {0, 1}, bufPc = "idle", Start(n, a)
      PROVE  BufInv'
  BY <1>1, HalfNat DEF Start
<1>2. ASSUME NEW n \in 0..MaxLen, NEW a \in {0, 1}, Strdup(n, a) PROVE BufInv'
  BY <1>1, <1>2 DEF Strdup
<1>3. ASSUME NEW n \in 0..MaxLen, StrdupEx(n) PROVE BufInv'
  BY <1>1, <1>3 DEF StrdupEx
<1>4. CASE Grow
  BY <1>4, HalfNat DEF Grow
<1>5. CASE Realloc
  BY <1>5 DEF Realloc
<1>6. CASE ReallocFails
  BY <1>6 DEF ReallocFails
<1>7. CASE Write
  BY <1>7 DEF Write
<1>8. ASSUME NEW offset \in 0..used, Align(offset) PROVE BufInv'
  BY <1>8 DEF Align
<1>9. CASE Reset
  BY <1>9 DEF Reset
<1>10. CASE Clean
  BY <1>10 DEF Clean
<1>11. CASE UNCHANGED bufVars
  BY <1>11 DEF bufVars
<1> QED
  BY <1>2, <1>3, <1>4, <1>5, <1>6, <1>7, <1>8, <1>9, <1>10, <1>11 DEF BufNext

(* Every copy of tima_buffer_strdup stays in its block up to one exact     *)
(* size, for every first size, length and order of operations.             *)
THEOREM WriteCorrect == BufSpec => []WriteInBlock
<1>1. BufInv => WriteInBlock
  BY DEF BufInv, BufTypeOK, BlockHoldsTotal, RoomMade, WriteInBlock
<1> QED
  BY <1>1, BufInitInv, BufStepInv, PTL DEF BufSpec

(* buffer_used stays inside the recorded total but for one byte.           *)
THEOREM UsedCorrect == BufSpec => []UsedInside
<1>1. BufInv => UsedInside
  BY DEF BufInv
<1> QED
  BY <1>1, BufInitInv, BufStepInv, PTL DEF BufSpec

-----------------------------------------------------------------------------
(* The vector: its invariants and the pinning of its elements.             *)

VecInv == VecTypeOK /\ AddOverrunsOnlyTiny

(* A vector not yet created satisfies the invariant.                       *)
LEMMA VecInitInv == VecInit => VecInv
  <1> SUFFICES ASSUME VecInit PROVE VecInv
    OBVIOUS
  <1>1. array \in [0..capacity - 1 -> Values \cup {Garbage}]
    <2>1. array = [i \in 0..capacity - 1 |-> Garbage]
      BY DEF VecInit
    <2> QED BY <2>1
  <1>2. capacity \in Nat /\ size \in 0..capacity /\ block \in {0, 1} /\ fault = "none"
    BY DEF VecInit
  <1>3. /\ alive \in BOOLEAN /\ noRelocation \in BOOLEAN /\ noResize \in BOOLEAN
        /\ leaked \in BOOLEAN
    BY DEF VecInit
  <1> QED BY <1>1, <1>2, <1>3 DEF VecInv, VecTypeOK, AddOverrunsOnlyTiny

(* A step that keeps within the array: what it must leave in place.        *)
LEMMA Stays ==
  ASSUME alive' \in BOOLEAN, noRelocation' \in BOOLEAN, noResize' \in BOOLEAN,
         capacity' \in Nat, size' \in 0..capacity',
         array' \in [0..capacity' - 1 -> Values \cup {Garbage}],
         block' \in {0, 1}, leaked' \in BOOLEAN, fault' = "none"
  PROVE  VecInv'
  BY DEF VecInv, VecTypeOK, AddOverrunsOnlyTiny

(* A new block has its type, and room for an element set within it.        *)
LEMMA MoveToTyped ==
  ASSUME VecTypeOK, NEW cap \in Nat, cap >= size, MoveTo(cap)
  PROVE  /\ capacity' = cap /\ block' \in {0, 1} /\ leaked' \in BOOLEAN
         /\ Reallocated(cap) \in [0..cap - 1 -> Values \cup {Garbage}]
  <1>1. capacity' = cap /\ block' \in {0, 1}
    BY DEF VecTypeOK, MoveTo
  <1>2. leaked' \in BOOLEAN
    BY DEF MoveTo
  <1>3. \A i \in 0..cap - 1 : i < size => array[i] \in Values \cup {Garbage}
    BY DEF VecTypeOK
  <1>4. Reallocated(cap) \in [0..cap - 1 -> Values \cup {Garbage}]
    BY <1>3 DEF Reallocated
  <1> QED BY <1>1, <1>2, <1>4

(* The sizes tmVectorAddElement and its kin ask for are larger.            *)
LEMMA SizesTyped ==
  ASSUME VecTypeOK
  PROVE  /\ Twice \in Nat /\ Quarter \in Nat /\ Twice > capacity /\ Twice > 0 /\ Quarter > 0
         /\ \A i \in Nat : Larger(i + i \div 5, i + Slack) \in Nat
                           /\ Larger(i + i \div 5, i + Slack) > i
  BY VecAssumption DEF VecTypeOK, Twice, Quarter, Larger

(* Every call of the vector keeps the invariant.                           *)
LEMMA VecStepInv == VecInv /\ [VecNext]_vecVars => VecInv'
  <1> SUFFICES ASSUME VecInv, [VecNext]_vecVars PROVE VecInv'
    OBVIOUS
  <1> USE VecAssumption
  <1>0. VecTypeOK
    BY DEF VecInv
  <1>1. ASSUME NEW cap \in 0..MaxCapacity, Create(cap) PROVE VecInv'
    <2>1. capacity' \in Nat /\ size' = 0 /\ block' \in {0, 1} /\ fault' = "none"
      BY <1>0, <1>1 DEF Create, VecTypeOK
    <2>2. array' \in [0..capacity' - 1 -> Values \cup {Garbage}]
      BY <1>1 DEF Create
    <2>3. alive' \in BOOLEAN /\ noRelocation' \in BOOLEAN /\ noResize' \in BOOLEAN
          /\ leaked' \in BOOLEAN
      BY <1>0, <1>1 DEF Create, VecTypeOK
    <2>4. size' \in 0..capacity' BY <2>1
    <2> QED BY <2>1, <2>2, <2>3, <2>4, Stays
  <1>2. ASSUME NEW cap \in 0..MaxCapacity, SetCapacity(cap) PROVE VecInv'
    <2>1. /\ cap \in Nat /\ cap >= size /\ MoveTo(cap) /\ array' = Reallocated(cap)
          /\ UNCHANGED <<alive, size, noRelocation, noResize, fault>> /\ fault = "none"
      BY <1>2 DEF SetCapacity, Moves, Usable, flagVars
    <2> QED BY <1>0, <2>1, MoveToTyped, Stays DEF VecTypeOK
  <1>3. ASSUME NEW x \in Values, AddElement(x) PROVE VecInv'
    BY <1>0, <1>3, Stays DEF AddElement, Fits, VecTypeOK, Usable, flagVars
  <1>4. ASSUME NEW x \in Values, AddGrows(x) PROVE VecInv'
    <2>1. PICK cap \in {Twice, Quarter} :
            Moves(cap) /\ array' = [Reallocated(cap) EXCEPT ![size] = x] /\ MoveTo(cap)
      BY <1>4 DEF AddGrows
    <2>2. cap \in Nat /\ cap > size
      <3>1. cap \in Nat BY <1>0, <2>1, SizesTyped
      <3>2. size = capacity /\ cap >= size /\ cap # capacity
        BY <1>0, <1>4, <2>1 DEF AddGrows, Fits, Moves, VecTypeOK
      <3> QED BY <1>0, <3>1, <3>2 DEF VecTypeOK
    <2>3. /\ size' = size + 1 /\ fault' = "none"
          /\ UNCHANGED <<alive, noRelocation, noResize>>
      BY <1>4 DEF AddGrows, Usable, flagVars
    <2>4. array' \in [0..cap - 1 -> Values \cup {Garbage}]
      <3>1. Reallocated(cap) \in [0..cap - 1 -> Values \cup {Garbage}]
        BY <1>0, <2>1, <2>2, MoveToTyped DEF VecTypeOK
      <3> QED BY <2>1, <3>1
    <2> QED BY <1>0, <2>1, <2>2, <2>3, <2>4, MoveToTyped, Stays DEF VecTypeOK
  <1>5. ASSUME NEW x \in Values, NEW i \in 0..MaxCapacity - 1, SetElement(x, i) PROVE VecInv'
    BY <1>0, <1>5, Stays DEF SetElement, VecTypeOK, Usable, flagVars, Larger
  <1>6. ASSUME NEW x \in Values, NEW i \in 0..MaxCapacity - 1, SetElementGrows(x, i)
        PROVE VecInv'
    <2> DEFINE first == i + capacity + 1
               second == Larger(i + i \div 5, i + Slack)
    <2>1. PICK cap \in {first, second} :
            Moves(cap) /\ array' = [Reallocated(cap) EXCEPT ![i] = x] /\ MoveTo(cap)
      BY <1>6 DEF SetElementGrows
    <2>2. cap \in Nat /\ cap > i
      <3>1. CASE cap = first BY <1>0, <3>1 DEF VecTypeOK
      <3>2. CASE cap = second
        <4>1. i \in Nat OBVIOUS
        <4>2. second \in Nat /\ second > i BY <1>0, <4>1, SizesTyped
        <4> QED BY <3>2, <4>2
      <3> QED BY <2>1, <3>1, <3>2
    <2>3. /\ size' = i + 1 /\ fault' = "none" /\ cap >= size
          /\ UNCHANGED <<alive, noRelocation, noResize>>
      BY <1>6, <2>1 DEF SetElementGrows, Usable, flagVars, Moves
    <2>4. array' \in [0..cap - 1 -> Values \cup {Garbage}]
      <3>1. Reallocated(cap) \in [0..cap - 1 -> Values \cup {Garbage}]
        BY <1>0, <2>1, <2>2, <2>3, MoveToTyped
      <3> QED BY <2>1, <3>1
    <2> QED BY <1>0, <2>1, <2>2, <2>3, <2>4, MoveToTyped, Stays DEF VecTypeOK
  <1>7. ASSUME NEW i \in Int, i >= 0, RemoveElement(i) PROVE VecInv'
    <2>1. array' \in [0..capacity - 1 -> Values \cup {Garbage}]
      BY <1>0, <1>7 DEF RemoveElement, VecTypeOK
    <2> QED BY <1>0, <1>7, <2>1, Stays DEF RemoveElement, VecTypeOK, Usable, flagVars
  <1>8. ASSUME NEW x \in Values, UnregisterClass(x) PROVE VecInv'
    <2>1. PICK i \in 0..size - 1 : RemoveElement(i)
      BY <1>8 DEF UnregisterClass, FirstOf
    <2> QED BY <1>7, <2>1
  <1>9. ASSUME NEW i \in 0..MaxCapacity - 1, GetElementptr(i) PROVE VecInv'
    BY <1>0, <1>9, Stays DEF GetElementptr, VecTypeOK, Usable, storeVars
  <1>10. ASSUME NEW n \in 0..MaxCapacity, SetSize(n) \/ Clear PROVE VecInv'
    BY <1>0, <1>10, Stays DEF SetSize, Clear, VecTypeOK, Usable, storeVars, flagVars
  <1>11. ASSUME NEW n \in 0..MaxCapacity, SetSizeGrows(n) PROVE VecInv'
    BY <1>0, <1>11 DEF SetSizeGrows, VecInv, VecTypeOK, AddOverrunsOnlyTiny, storeVars, flagVars
  <1>12. ASSUME NEW rl \in BOOLEAN, NEW rs \in BOOLEAN, SetFlags(rl, rs) PROVE VecInv'
    BY <1>0, <1>12, Stays DEF SetFlags, VecTypeOK, Usable, storeVars
  <1>13. CASE AddOverruns
    <2>1. Larger(capacity + capacity \div 4, 1) = capacity /\ size = capacity
      BY <1>0, <1>13 DEF AddOverruns, Fits, NothingToDo, Quarter, VecTypeOK
    <2>2. capacity \in Nat /\ capacity >= 1 /\ capacity \div 4 <= 0
      BY <1>0, <2>1 DEF Larger, VecTypeOK
    <2>3. capacity \in 1..3
      BY <2>2
    <2> QED BY <1>0, <1>13, <2>1, <2>3
            DEF AddOverruns, VecInv, VecTypeOK, AddOverrunsOnlyTiny, storeVars, flagVars
  <1>14. CASE Free
    <2>1. array' \in [0..capacity' - 1 -> Values \cup {Garbage}]
      <3>1. capacity' - 1 = -1 BY <1>14 DEF Free
      <3> QED BY <1>14, <3>1 DEF Free
    <2>2. capacity' = 0 /\ size' = 0 /\ block' \in {0, 1} /\ fault' = "none"
      BY <1>0, <1>14 DEF Free, VecTypeOK, Usable
    <2>3. alive' \in BOOLEAN /\ noRelocation' \in BOOLEAN /\ noResize' \in BOOLEAN
          /\ leaked' \in BOOLEAN
      BY <1>0, <1>14 DEF Free, VecTypeOK, flagVars
    <2> QED BY <2>1, <2>2, <2>3, Stays
  <1>15. CASE UNCHANGED vecVars
    BY <1>15 DEF vecVars, VecInv, VecTypeOK, AddOverrunsOnlyTiny
  <1>16. CASE Clear
    BY <1>0, <1>16, Stays DEF Clear, VecTypeOK, Usable, storeVars, flagVars
  <1> QED
    BY <1>1, <1>2, <1>3, <1>4, <1>5, <1>6, <1>7, <1>8, <1>9, <1>10, <1>11, <1>12, <1>13,
       <1>14, <1>15, <1>16 DEF VecNext

(* The vector keeps its inductive invariant, whatever calls are made on it.*)
THEOREM VecInvCorrect == VecSpec => []VecInv
  BY VecInitInv, VecStepInv, PTL DEF VecSpec

(* The size stays within the allocated array whatever is called, and with  *)
(* it every index the calls accept.                                        *)
THEOREM VecTypeCorrect == VecSpec => []VecTypeOK
  BY VecInvCorrect, PTL DEF VecInv

(* tmVectorAddElement overruns full vectors of 1 to 3 elements only: those *)
(* of 4 and more are safe, for any element size and any failure of malloc. *)
THEOREM TinyCorrect == VecSpec => []AddOverrunsOnlyTiny
  BY VecInvCorrect, PTL DEF VecInv

-----------------------------------------------------------------------------
(* Only a vector that exists is pinned: tmVectorFree refuses a pinned one. *)
PinnedAlive == noRelocation => alive

(* Only a live vector is pinned.                                           *)
LEMMA NextPinnedAlive == PinnedAlive /\ [VecNext]_vecVars => PinnedAlive'
  <1> SUFFICES ASSUME PinnedAlive, [VecNext]_vecVars PROVE PinnedAlive'
    OBVIOUS
  <1> USE DEF PinnedAlive, Usable, flagVars, storeVars
  <1>1. CASE UNCHANGED vecVars BY <1>1 DEF vecVars
  <1>2. CASE \E cap \in 0..MaxCapacity : Create(cap) BY <1>2 DEF Create
  <1>3. CASE \E i \in 0..MaxCapacity - 1 : GetElementptr(i) BY <1>3 DEF GetElementptr
  <1>4. CASE \E rl, rs \in BOOLEAN : SetFlags(rl, rs) BY <1>4 DEF SetFlags
  <1>5. CASE Free BY <1>5 DEF Free
  <1>6. CASE \/ \E cap \in 0..MaxCapacity : SetCapacity(cap)
             \/ \E x \in Values : AddElement(x) \/ AddGrows(x) \/ UnregisterClass(x)
             \/ AddOverruns \/ Clear
    BY <1>6 DEF SetCapacity, AddElement, AddGrows, UnregisterClass, RemoveElement, AddOverruns, Clear
  <1>7. CASE \/ \E x \in Values, i \in 0..MaxCapacity - 1 :
                  SetElement(x, i) \/ SetElementGrows(x, i)
             \/ \E i \in 0..MaxCapacity - 1 : RemoveElement(i)
             \/ \E n \in 0..MaxCapacity : SetSize(n) \/ SetSizeGrows(n)
    BY <1>7 DEF SetElement, SetElementGrows, RemoveElement, SetSize, SetSizeGrows
  <1> QED BY <1>1, <1>2, <1>3, <1>4, <1>5, <1>6, <1>7 DEF VecNext

(* No call moves the block of a pinned vector or frees it.                 *)
LEMMA NextPinned ==
  PinnedAlive /\ [VecNext]_vecVars => [noRelocation => UNCHANGED block /\ alive']_vecVars
  <1> SUFFICES ASSUME PinnedAlive, VecNext, noRelocation PROVE UNCHANGED block /\ alive'
    BY DEF vecVars
  <1> USE DEF PinnedAlive, storeVars, Usable
  <1>1. CASE \E cap \in 0..MaxCapacity : Create(cap) BY <1>1 DEF Create
  <1>2. CASE \E i \in 0..MaxCapacity - 1 : GetElementptr(i) BY <1>2 DEF GetElementptr
  <1>3. CASE \E rl, rs \in BOOLEAN : SetFlags(rl, rs) BY <1>3 DEF SetFlags
  <1>4. CASE Free \/ AddOverruns \/ Clear BY <1>4 DEF Free, AddOverruns, Clear
  <1>5. CASE \E cap \in 0..MaxCapacity : SetCapacity(cap) BY <1>5 DEF SetCapacity, Moves
  <1>6. CASE \E x \in Values : AddElement(x) \/ AddGrows(x) \/ UnregisterClass(x)
    BY <1>6 DEF AddElement, AddGrows, Moves, UnregisterClass, RemoveElement
  <1>7. CASE \E x \in Values, i \in 0..MaxCapacity - 1 :
               SetElement(x, i) \/ SetElementGrows(x, i)
    BY <1>7 DEF SetElement, SetElementGrows, Moves
  <1>8. CASE \E i \in 0..MaxCapacity - 1 : RemoveElement(i) BY <1>8 DEF RemoveElement
  <1>9. ASSUME NEW n \in 0..MaxCapacity, SetSize(n) \/ SetSizeGrows(n)
        PROVE  UNCHANGED block /\ alive'
    <2>1. alive /\ UNCHANGED <<alive, block>>
      <3>1. CASE SetSize(n) BY <3>1 DEF SetSize
      <3>2. CASE SetSizeGrows(n) BY <3>2 DEF SetSizeGrows
      <3> QED BY <1>9, <3>1, <3>2
    <2> QED BY <2>1
  <1> QED BY <1>1, <1>2, <1>3, <1>4, <1>5, <1>6, <1>7, <1>8, <1>9 DEF VecNext

(* A pointer from tmVectorGetElementptr stays good until the flags are     *)
(* cleared: no call moves the elements or frees them in between.           *)
THEOREM PinnedCorrect == VecSpec => PinnedStays
  <1>1. VecInit => PinnedAlive
    BY DEF VecInit, PinnedAlive
  <1> QED BY <1>1, NextPinnedAlive, NextPinned, PTL DEF VecSpec, PinnedStays

-----------------------------------------------------------------------------
(* The elements, as GenericVector sees them, and the three things a call   *)
(* does to them.                                                           *)
Elements == [i \in 1..size |-> array[i - 1]]

(* A sequence is the function of its elements.                             *)
LEMMA SeqIsFunction ==
  ASSUME NEW S, NEW t \in Seq(S)
  PROVE  t = [j \in 1..Len(t) |-> t[j]]
OBVIOUS

(* The first elements of a sequence.                                       *)
LEMMA FirstOnes ==
  ASSUME NEW S, NEW s \in Seq(S), NEW n \in 0..Len(s)
  PROVE  SubSeq(s, 1, n) = [j \in 1..n |-> s[j]]
<1> DEFINE t == SubSeq(s, 1, n)
<1>1. t \in Seq(S) /\ Len(t) = n /\ \A j \in 1..n : t[j] = s[j]
  OBVIOUS
<1> HIDE DEF t
<1>2. t = [j \in 1..Len(t) |-> t[j]]
  BY <1>1, SeqIsFunction
<1> QED
  BY <1>1, <1>2 DEF t

(* A C array, counted from 0, as a sequence.                               *)
LEMMA Shifted ==
  ASSUME NEW S, NEW n \in Nat, NEW f, \A i \in 1..n : f[i - 1] \in S
  PROVE  /\ [i \in 1..n |-> f[i - 1]] \in Seq(S)
         /\ Len([i \in 1..n |-> f[i - 1]]) = n
         /\ \A i \in 1..n : [j \in 1..n |-> f[j - 1]][i] = f[i - 1]
OBVIOUS

(* The vector's elements before a call,                                    *)
LEMMA ElementsAreSeq ==
  VecTypeOK => /\ Elements \in Seq(Values \cup {Garbage}) /\ Len(Elements) = size
               /\ \A i \in 1..size : Elements[i] = array[i - 1]
<1> SUFFICES ASSUME VecTypeOK
             PROVE  /\ Elements \in Seq(Values \cup {Garbage}) /\ Len(Elements) = size
                    /\ \A i \in 1..size : Elements[i] = array[i - 1]
  OBVIOUS
<1>1. size \in Nat /\ \A i \in 1..size : array[i - 1] \in Values \cup {Garbage}
  BY DEF VecTypeOK
<1> QED
  BY <1>1, Shifted DEF Elements

(* and after it.                                                           *)
LEMMA NewElementsAreSeq ==
  VecTypeOK' => /\ Len(Elements') = size'
                /\ \A i \in 1..size' : Elements'[i] = array'[i - 1]
<1> SUFFICES ASSUME VecTypeOK'
             PROVE  /\ Len(Elements') = size'
                    /\ \A i \in 1..size' : Elements'[i] = array'[i - 1]
  OBVIOUS
<1>1. /\ capacity' \in Nat /\ size' \in 0..capacity'
      /\ array' \in [0..capacity' - 1 -> Values \cup {Garbage}]
  BY DEF VecTypeOK
<1>2. size' \in Nat /\ \A i \in 1..size' : i - 1 \in 0..capacity' - 1
  <2>1. \A n, c : c \in Nat /\ n \in 0..c => n \in Nat /\ \A i \in 1..n : i - 1 \in 0..c - 1
    OBVIOUS
  <2> QED
    BY <1>1, <2>1, Zenon
<1>3. \A i \in 1..size' : array'[i - 1] \in Values \cup {Garbage}
  BY <1>1, <1>2
<1> QED
  BY <1>2, <1>3, Shifted DEF Elements

(* Writing one element is the abstract Put.                                *)
LEMMA IsPut ==
  ASSUME VecTypeOK, VecTypeOK', NEW x \in Values, NEW i \in Nat,
         size' = Larger(size, i + 1), array'[i] = x,
         \A j \in 0..size - 1 : j # i => array'[j] = array[j],
         fault = "none", fault' = "none"
  PROVE  AbstractVector!Next
<1>1. size \in Nat /\ size' \in Nat /\ i + 1 \in 1..size' /\ size' >= size
  BY DEF VecTypeOK, Larger
<1>2. /\ Len(Elements) = size /\ Len(Elements') = size'
      /\ \A j \in 1..size : Elements[j] = array[j - 1]
      /\ \A j \in 1..size' : Elements'[j] = array'[j - 1]
  BY ElementsAreSeq, NewElementsAreSeq
<1>3. Len(Elements') = IF i + 1 > Len(Elements) THEN i + 1 ELSE Len(Elements)
  BY <1>1, <1>2 DEF Larger
<1>4. Elements'[i + 1] = x
  <2>1. (i + 1) - 1 = i /\ Elements'[i + 1] = array'[(i + 1) - 1]
    BY <1>1, <1>2
  <2> QED
    BY <2>1
<1>5. \A j \in 1..Len(Elements) : j # i + 1 => Elements'[j] = Elements[j]
  <2> SUFFICES ASSUME NEW j \in 1..Len(Elements), j # i + 1
               PROVE  Elements'[j] = Elements[j]
    OBVIOUS
  <2>1. j \in 1..size /\ j \in 1..size' /\ j - 1 \in 0..size - 1 /\ j - 1 # i
    BY <1>1, <1>2
  <2> QED
    BY <1>2, <2>1
<1>6. i + 1 \in 1..Len(Elements')
  BY <1>1, <1>2
<1> QED
  BY <1>3, <1>4, <1>5, <1>6 DEF AbstractVector!Next, AbstractVector!Put, Elements

(* Keeping the first elements is the abstract Cut.                         *)
LEMMA IsCut ==
  ASSUME VecTypeOK, VecTypeOK', size' <= size,
         \A j \in 0..size' - 1 : array'[j] = array[j],
         fault = "none", fault' = "none"
  PROVE  AbstractVector!Next
<1>1. size \in Nat /\ size' \in 0..size
  BY DEF VecTypeOK
<1>2. /\ Elements \in Seq(Values \cup {Garbage}) /\ Len(Elements) = size
      /\ \A j \in 1..size : Elements[j] = array[j - 1]
  BY ElementsAreSeq
<1>3. Elements' = [j \in 1..size' |-> Elements[j]]
  <2>1. ASSUME NEW j \in 1..size' PROVE array'[j - 1] = Elements[j]
    <3>1. j \in 1..size /\ j - 1 \in 0..size' - 1
      <4>1. \A n, m : n \in Nat /\ m \in 0..n =>
              \A k \in 1..m : k \in 1..n /\ k - 1 \in 0..m - 1
        OBVIOUS
      <4> QED
        BY <1>1, <4>1, Zenon
    <3>2. array'[j - 1] = array[j - 1]
      BY <3>1
    <3> QED
      BY <1>2, <3>1, <3>2, Zenon
  <2> QED
    BY <2>1 DEF Elements
<1>4. Elements' = SubSeq(Elements, 1, size')
  <2> HIDE DEF Elements
  <2>1. size' \in 0..Len(Elements)
    BY <1>1, <1>2
  <2>2. SubSeq(Elements, 1, size') = [j \in 1..size' |-> Elements[j]]
    BY <1>2, <2>1, FirstOnes
  <2> QED
    BY <1>3, <2>2
<1>5. size' \in 0..Len(Elements)
  BY <1>1, <1>2
<1> QED
  BY <1>4, <1>5 DEF AbstractVector!Next, AbstractVector!Cut, Elements

(* Moving the last elements down is the abstract RemoveAt.                 *)
LEMMA IsRemoveAt ==
  ASSUME VecTypeOK, VecTypeOK', NEW i \in Nat, RemoveElement(i)
  PROVE  AbstractVector!Next
<1>1. /\ size \in Nat /\ i < size /\ size' = size - 1 /\ capacity \in Nat /\ size <= capacity
      /\ \A j \in 0..capacity - 1 :
           array'[j] = IF i <= j /\ j < size - 1 THEN array[j + 1] ELSE array[j]
      /\ fault = "none" /\ fault' = "none"
  BY DEF VecTypeOK, RemoveElement, Usable
<1>2. /\ Elements \in Seq(Values \cup {Garbage}) /\ Len(Elements) = size
      /\ \A j \in 1..size : Elements[j] = array[j - 1]
  BY ElementsAreSeq
<1>3. Elements' = [j \in 1..(size - 1) |-> IF j < i + 1 THEN Elements[j] ELSE Elements[j + 1]]
  <2>1. \A j \in 1..(size - 1) :
          array'[j - 1] = IF j < i + 1 THEN Elements[j] ELSE Elements[j + 1]
    <3> TAKE j \in 1..(size - 1)
    <3>1. /\ j - 1 \in 0..capacity - 1 /\ j \in 1..size /\ j + 1 \in 1..size
          /\ (j - 1) + 1 = j /\ (j + 1) - 1 = j /\ j - 1 < size - 1
          /\ (i <= j - 1) <=> ~(j < i + 1)
      BY <1>1
    <3>2. array'[j - 1] = IF i <= j - 1 THEN array[j] ELSE array[j - 1]
      BY <1>1, <3>1
    <3>3. Elements[j] = array[j - 1] /\ Elements[j + 1] = array[j]
      BY <1>2, <3>1
    <3> HIDE DEF Elements
    <3> QED
      BY <3>1, <3>2, <3>3
  <2> QED
    BY <1>1, <2>1 DEF Elements
<1>4. Elements' = SubSeq(Elements, 1, (i + 1) - 1)
                    \o SubSeq(Elements, (i + 1) + 1, Len(Elements))
  <2> DEFINE a == SubSeq(Elements, 1, (i + 1) - 1)
             b == SubSeq(Elements, (i + 1) + 1, Len(Elements))
  <2> HIDE DEF Elements
  <2>1. /\ a \in Seq(Values \cup {Garbage}) /\ Len(a) = i
        /\ \A j \in 1..i : a[j] = Elements[j]
    BY <1>1, <1>2
  <2>2. /\ b \in Seq(Values \cup {Garbage}) /\ Len(b) = size - (i + 1)
        /\ \A j \in 1..(size - (i + 1)) : b[j] = Elements[j + i + 1]
    BY <1>1, <1>2
  <2> HIDE DEF a, b
  <2>3. a \o b = [j \in 1..(size - 1) |-> IF j < i + 1 THEN Elements[j] ELSE Elements[j + 1]]
    <3>1. Len(a) + Len(b) = size - 1
      BY <1>1, <2>1, <2>2
    <3>2. a \o b = [j \in 1..(Len(a) + Len(b)) |-> IF j <= Len(a) THEN a[j] ELSE b[j - Len(a)]]
      <4> DEFINE t == a \o b
      <4>1. /\ t \in Seq(Values \cup {Garbage}) /\ Len(t) = Len(a) + Len(b)
            /\ \A j \in 1..(Len(a) + Len(b)) :
                 t[j] = IF j <= Len(a) THEN a[j] ELSE b[j - Len(a)]
        BY <2>1, <2>2
      <4> HIDE DEF t
      <4>2. t = [j \in 1..Len(t) |-> t[j]]
        BY <4>1, SeqIsFunction
      <4>3. t = [j \in 1..(Len(a) + Len(b)) |-> IF j <= Len(a) THEN a[j] ELSE b[j - Len(a)]]
        BY <4>1, <4>2
      <4> QED
        BY <4>3 DEF t
    <3>3. \A j \in 1..(size - 1) :
            (IF j <= Len(a) THEN a[j] ELSE b[j - Len(a)])
              = IF j < i + 1 THEN Elements[j] ELSE Elements[j + 1]
      BY <1>1, <2>1, <2>2
    <3> QED
      BY <3>1, <3>2, <3>3
  <2> QED
    BY <1>3, <2>3 DEF a, b
<1>5. i + 1 \in 1..Len(Elements)
  BY <1>1, <1>2
<1> QED
  BY <1>1, <1>4, <1>5 DEF AbstractVector!Next, AbstractVector!RemoveAt, Elements

(* A call that moves the elements to a larger block keeps them.            *)
LEMMA ReallocatedKeeps ==
  ASSUME VecTypeOK, NEW cap \in Nat, cap >= size
  PROVE  \A j \in 0..size - 1 : Reallocated(cap)[j] = array[j]
<1>1. size \in Nat
  BY DEF VecTypeOK
<1>2. \A j \in 0..size - 1 : j \in 0..cap - 1 /\ j < size
  BY <1>1
<1> QED
  BY <1>2 DEF Reallocated

(* Every call is a step of the abstract vector or a stutter.               *)
LEMMA VecStepIsAbstract ==
  ASSUME VecInv, VecNext
  PROVE  AbstractVector!Next \/ UNCHANGED <<Elements, fault>>
<1>0. VecTypeOK /\ VecTypeOK' /\ size \in Nat /\ capacity \in Nat /\ size <= capacity
  BY VecStepInv DEF VecInv, VecTypeOK
<1>1. ASSUME NEW cap \in 0..MaxCapacity, Create(cap) PROVE AbstractVector!Next
  <2>1. size' = 0 /\ fault = "none" /\ fault' = "none" /\ size' <= size
    BY <1>0, <1>1 DEF Create
  <2>2. \A j \in 0..size' - 1 : array'[j] = array[j]
    BY <2>1
  <2> QED
    BY <1>0, <2>1, <2>2, IsCut
<1>2. ASSUME NEW cap \in 0..MaxCapacity, SetCapacity(cap) PROVE AbstractVector!Next
  <2>1. /\ cap \in Nat /\ cap >= size /\ array' = Reallocated(cap)
        /\ size' = size /\ fault = "none" /\ fault' = "none"
    BY <1>2 DEF SetCapacity, Moves, Usable
  <2>2. \A j \in 0..size' - 1 : array'[j] = array[j]
    BY <1>0, <2>1, ReallocatedKeeps
  <2>3. size' <= size
    BY <1>0, <2>1
  <2> QED
    BY <1>0, <2>1, <2>2, <2>3, IsCut
<1>3. ASSUME NEW x \in Values, AddElement(x) PROVE AbstractVector!Next
  <2>1. /\ size' = size + 1 /\ array' = [array EXCEPT ![size] = x] /\ size < capacity
        /\ fault = "none" /\ fault' = "none"
    BY <1>3 DEF AddElement, Fits, Usable
  <2>2. array'[size] = x /\ \A j \in 0..size - 1 : j # size => array'[j] = array[j]
    BY <1>0, <2>1 DEF VecTypeOK
  <2>3. size' = Larger(size, size + 1)
    BY <1>0, <2>1 DEF Larger
  <2> QED
    BY <1>0, <2>1, <2>2, <2>3, IsPut
<1>4. ASSUME NEW x \in Values, AddGrows(x) PROVE AbstractVector!Next
  <2>1. PICK cap \in {Twice, Quarter} :
          Moves(cap) /\ array' = [Reallocated(cap) EXCEPT ![size] = x] /\ MoveTo(cap)
    BY <1>4 DEF AddGrows
  <2>2. cap \in Nat /\ cap > size
    <3>1. cap \in Nat BY <1>0, <2>1, SizesTyped
    <3>2. size = capacity /\ cap >= size /\ cap # capacity
      BY <1>0, <1>4, <2>1 DEF AddGrows, Fits, Moves
    <3> QED BY <1>0, <3>1, <3>2
  <2>3. size' = size + 1 /\ fault = "none" /\ fault' = "none"
    BY <1>4 DEF AddGrows, Usable
  <2>4. size \in 0..cap - 1 /\ DOMAIN Reallocated(cap) = 0..cap - 1 /\ cap >= size
    BY <1>0, <2>2 DEF Reallocated
  <2>5. \A j \in 0..size - 1 : j \in 0..cap - 1 /\ Reallocated(cap)[j] = array[j]
    BY <1>0, <2>2, <2>4, ReallocatedKeeps
  <2>6. array'[size] = x /\ \A j \in 0..size - 1 : j # size => array'[j] = array[j]
    BY <2>1, <2>4, <2>5
  <2>7. size' = Larger(size, size + 1)
    BY <1>0, <2>3 DEF Larger
  <2> QED
    BY <1>0, <2>3, <2>6, <2>7, IsPut
<1>5. ASSUME NEW x \in Values, NEW i \in 0..MaxCapacity - 1, SetElement(x, i)
      PROVE AbstractVector!Next
  <2>1. /\ size' = Larger(size, i + 1) /\ array' = [array EXCEPT ![i] = x]
        /\ i \in 0..capacity - 1 /\ i \in Nat /\ fault = "none" /\ fault' = "none"
    BY <1>0, <1>5 DEF SetElement, Usable
  <2>2. array'[i] = x /\ \A j \in 0..size - 1 : j # i => array'[j] = array[j]
    BY <1>0, <2>1 DEF VecTypeOK
  <2> QED
    BY <1>0, <2>1, <2>2, IsPut
<1>6. ASSUME NEW x \in Values, NEW i \in 0..MaxCapacity - 1, SetElementGrows(x, i)
      PROVE AbstractVector!Next
  <2> DEFINE first == i + capacity + 1
             second == Larger(i + i \div 5, i + Slack)
  <2>1. PICK cap \in {first, second} :
          Moves(cap) /\ array' = [Reallocated(cap) EXCEPT ![i] = x] /\ MoveTo(cap)
    BY <1>6 DEF SetElementGrows
  <2>2. cap \in Nat /\ cap > i /\ i \in Nat
    <3>1. CASE cap = first BY <1>0, <3>1
    <3>2. CASE cap = second
      <4>1. i \in Nat OBVIOUS
      <4>2. second \in Nat /\ second > i BY <1>0, <4>1, SizesTyped
      <4> QED BY <3>2, <4>2
    <3> QED BY <2>1, <3>1, <3>2
  <2>3. size' = i + 1 /\ fault = "none" /\ fault' = "none" /\ cap >= size /\ i >= capacity
    BY <1>6, <2>1 DEF SetElementGrows, Usable, Moves
  <2>4. i \in 0..cap - 1 /\ DOMAIN Reallocated(cap) = 0..cap - 1
    BY <1>0, <2>2 DEF Reallocated
  <2>5. \A j \in 0..size - 1 : j \in 0..cap - 1 /\ Reallocated(cap)[j] = array[j]
    BY <1>0, <2>2, <2>3, ReallocatedKeeps
  <2>6. array'[i] = x /\ \A j \in 0..size - 1 : j # i => array'[j] = array[j]
    BY <2>1, <2>4, <2>5
  <2>7. size' = Larger(size, i + 1)
    BY <1>0, <2>2, <2>3 DEF Larger
  <2> QED
    BY <1>0, <2>2, <2>3, <2>6, <2>7, IsPut
<1>7. ASSUME NEW i \in Int, i >= 0, RemoveElement(i) PROVE AbstractVector!Next
  <2>1. i \in Nat
    BY <1>7
  <2> QED
    BY <1>0, <1>7, <2>1, IsRemoveAt
<1>8. ASSUME NEW x \in Values, UnregisterClass(x) PROVE AbstractVector!Next
  <2>1. PICK i \in 0..size - 1 : RemoveElement(i)
    BY <1>8 DEF UnregisterClass, FirstOf
  <2> QED BY <1>7, <2>1
<1>9. ASSUME UNCHANGED <<array, size, fault>>
      PROVE  UNCHANGED <<Elements, fault>>
  BY <1>9 DEF Elements
<1>10. ASSUME NEW n \in 0..MaxCapacity, SetSize(n) \/ Clear PROVE AbstractVector!Next
  <2>1. size' <= size /\ array' = array /\ fault = "none" /\ fault' = "none"
    BY <1>0, <1>10 DEF SetSize, Clear, Usable, storeVars
  <2> QED
    BY <1>0, <2>1, IsCut
<1>11. ASSUME AddOverruns \/ (\E n \in 0..MaxCapacity : SetSizeGrows(n))
       PROVE  AbstractVector!Next
  <2>1. fault = "none" /\ fault' \in {"add", "resize"} /\ size' = size /\ array' = array
    BY <1>11 DEF SetSizeGrows, AddOverruns, Usable, storeVars
  <2>2. Elements' = Elements
    BY <2>1 DEF Elements
  <2>3. CASE fault' = "resize"
    BY <2>1, <2>2, <2>3 DEF AbstractVector!Next, AbstractVector!ResizeOverruns, Elements
  <2>4. CASE fault' = "add"
    <3>1. size \in 1..3
      BY <1>0, <2>1, <2>4, VecStepInv DEF VecInv, AddOverrunsOnlyTiny
    <3>2. Len(Elements) \in 1..3
      BY <1>0, <3>1, ElementsAreSeq
    <3> QED
      BY <2>1, <2>2, <2>4, <3>2 DEF AbstractVector!Next, AbstractVector!AddOverruns, Elements
  <2> QED
    BY <2>1, <2>3, <2>4
<1>12. CASE Free
  <2>1. size' = 0 /\ size' <= size /\ fault = "none" /\ fault' = "none"
    BY <1>0, <1>12 DEF Free, Usable
  <2>2. \A j \in 0..size' - 1 : array'[j] = array[j]
    BY <2>1
  <2> QED
    BY <1>0, <2>1, <2>2, IsCut
<1>13. ASSUME NEW i \in 0..MaxCapacity - 1, GetElementptr(i)
       PROVE  UNCHANGED <<Elements, fault>>
  BY <1>9, <1>13 DEF GetElementptr, storeVars
<1>14. ASSUME NEW rl \in BOOLEAN, NEW rs \in BOOLEAN, SetFlags(rl, rs)
       PROVE  UNCHANGED <<Elements, fault>>
  BY <1>9, <1>14 DEF SetFlags, storeVars
<1>15. CASE Clear
  <2>1. 0 \in 0..MaxCapacity
    BY VecAssumption
  <2> QED
    BY <1>10, <1>15, <2>1
<1> QED
  BY <1>1, <1>2, <1>3, <1>4, <1>5, <1>6, <1>7, <1>8, <1>10, <1>11, <1>12, <1>13, <1>14,
     <1>15 DEF VecNext

(* The vector of vmp_vector.c, with its growing, its failing malloc and    *)
(* its flags, implements a sequence of elements for every capacity, until  *)
(* a call writes outside the array: each step puts one element, removes    *)
(* one, or cuts the sequence short, and an added element is written        *)
(* outside only behind one to three others.                                *)
THEOREM VectorCorrect == VecSpec => VectorSpec
<1>1. VecInit => AbstractVector!Init
  <2> SUFFICES ASSUME VecInit PROVE AbstractVector!Init
    OBVIOUS
  <2>1. size = 0 /\ fault = "none"
    BY DEF VecInit
  <2>2. Elements = <<>>
    BY <2>1 DEF Elements
  <2> QED
    BY <2>1, <2>2 DEF AbstractVector!Init, Elements
<1>2. VecInv /\ [VecNext]_vecVars => [AbstractVector!Next]_(AbstractVector!vars)
  <2> SUFFICES ASSUME VecInv, [VecNext]_vecVars
               PROVE  AbstractVector!Next \/ UNCHANGED <<Elements, fault>>
    BY DEF AbstractVector!vars, Elements
  <2>1. CASE UNCHANGED vecVars
    BY <2>1 DEF vecVars, Elements
  <2> QED
    BY <2>1, VecStepIsAbstract
<1> QED
  BY <1>1, <1>2, VecInvCorrect, PTL DEF VecSpec, VectorSpec, AbstractVector!Spec

-----------------------------------------------------------------------------
(* The list is linked both ways, shares no block with its free list and    *)
(* implements a sequence of items.  ListConsistent is inductive.  None of  *)
(* its conjuncts ListTypeOK, ChainsAgree and MemoryOnce is inductive       *)
(* alone, for a node taken from the free list keeps the chain intact only  *)
(* if it is not in the chain, and the head of the free list is a node only *)
(* if the links of spare nodes are intact.                                 *)

(* The i-th cell of a list whose nodes are s; the links run through it.    *)
CellOf(s, i) == IF i = 0 THEN HEAD ELSE IF i = Len(s) + 1 THEN TAIL ELSE s[i]

Linked(p, q, s) ==
  \A i \in 0..Len(s) : /\ q[CellOf(s, i)] = CellOf(s, i + 1)
                       /\ p[CellOf(s, i + 1)] = CellOf(s, i)

Injective(s) == \A i, j \in 1..Len(s) : s[i] = s[j] => i = j

-----------------------------------------------------------------------------
(* What With and Dropped return.                                           *)
LEMMA WithIsSeq ==
  ASSUME NEW S, NEW s \in Seq(S), NEW x \in S, NEW k \in 1..(Len(s) + 1)
  PROVE  /\ With(s, k, x) \in Seq(S)
         /\ Len(With(s, k, x)) = Len(s) + 1
         /\ \A j \in 1..(Len(s) + 1) :
              With(s, k, x)[j] = IF j < k THEN s[j]
                                 ELSE IF j = k THEN x ELSE s[j - 1]
<1>1. Len(s) + 1 \in Nat
  OBVIOUS
<1>2. \A j \in 1..(Len(s) + 1) :
        (IF j < k THEN s[j] ELSE IF j = k THEN x ELSE s[j - 1]) \in S
  OBVIOUS
<1>3. With(s, k, x) \in [1..(Len(s) + 1) -> S]
  BY <1>2 DEF With
<1> QED
  BY <1>1, <1>3 DEF With

(* A sequence without its k-th element.                                    *)
LEMMA DroppedIsSeq ==
  ASSUME NEW S, NEW s \in Seq(S), NEW k \in 1..Len(s)
  PROVE  /\ Dropped(s, k) \in Seq(S)
         /\ Len(Dropped(s, k)) = Len(s) - 1
         /\ \A j \in 1..(Len(s) - 1) :
              Dropped(s, k)[j] = IF j < k THEN s[j] ELSE s[j + 1]
<1>1. Len(s) - 1 \in Nat
  OBVIOUS
<1>2. \A j \in 1..(Len(s) - 1) : (IF j < k THEN s[j] ELSE s[j + 1]) \in S
  OBVIOUS
<1>3. Dropped(s, k) \in [1..(Len(s) - 1) -> S]
  BY <1>2 DEF Dropped
<1> QED
  BY <1>1, <1>3 DEF Dropped

(* The cells of an injective chain are pairwise different.                 *)
LEMMA CellsDiffer ==
  ASSUME NEW s \in Seq(Nodes), Injective(s)
  PROVE  /\ \A i \in 0..(Len(s) + 1) : CellOf(s, i) \in Cells
         /\ \A i, j \in 0..(Len(s) + 1) : CellOf(s, i) = CellOf(s, j) => i = j
         /\ \A i \in 0..Len(s) : CellOf(s, i) # TAIL
         /\ \A i \in 1..(Len(s) + 1) : CellOf(s, i) # HEAD
<1>1. \A i \in 1..Len(s) : s[i] \in Nodes
  OBVIOUS
<1> QED
  BY <1>1, NodeAssumption DEF CellOf, Cells, Injective

(* Linking a new node in between the cells k - 1 and k.                    *)
LEMMA InsertLinks ==
  ASSUME NEW s \in Seq(Nodes), Injective(s),
         NEW p, NEW q, Linked(p, q, s),
         NEW n \in Nodes, \A i \in 1..Len(s) : s[i] # n,
         NEW k \in 1..(Len(s) + 1), NEW p1, NEW q1,
         \A c \in Cells : p1[c] = IF c = CellOf(s, k) THEN n
                                  ELSE IF c = n THEN CellOf(s, k - 1)
                                  ELSE p[c],
         \A c \in Cells : q1[c] = IF c = CellOf(s, k - 1) THEN n
                                  ELSE IF c = n THEN CellOf(s, k)
                                  ELSE q[c]
  PROVE  Linked(p1, q1, With(s, k, n))
<1> DEFINE w == With(s, k, n)
<1>1. /\ Len(w) = Len(s) + 1
      /\ \A j \in 1..(Len(s) + 1) :
           w[j] = IF j < k THEN s[j] ELSE IF j = k THEN n ELSE s[j - 1]
  BY WithIsSeq
<1>2. \A j \in 0..(Len(s) + 2) :
        CellOf(w, j) = IF j < k THEN CellOf(s, j)
                       ELSE IF j = k THEN n ELSE CellOf(s, j - 1)
  <2> HIDE DEF w
  <2> QED
    BY <1>1 DEF CellOf
<1>3. \A i \in 0..(Len(s) + 1) : CellOf(s, i) \in Cells /\ CellOf(s, i) # n
  BY CellsDiffer, NodeAssumption DEF CellOf
<1>4. \A i, j \in 0..(Len(s) + 1) : CellOf(s, i) = CellOf(s, j) => i = j
  BY CellsDiffer
<1>5. n \in Cells
  BY DEF Cells
<1>5b. k \in 0..(Len(s) + 1) /\ k - 1 \in 0..(Len(s) + 1)
  OBVIOUS
<1> HIDE DEF w
<1> SUFFICES ASSUME NEW i \in 0..Len(w)
             PROVE  q1[CellOf(w, i)] = CellOf(w, i + 1)
                    /\ p1[CellOf(w, i + 1)] = CellOf(w, i)
  BY DEF Linked, w
<1>6. i \in 0..(Len(s) + 1)
  BY <1>1
<1>7. CASE i < k - 1
  <2>1. CellOf(w, i) = CellOf(s, i) /\ CellOf(w, i + 1) = CellOf(s, i + 1)
    BY <1>2, <1>6, <1>7
  <2>2. q[CellOf(s, i)] = CellOf(s, i + 1) /\ p[CellOf(s, i + 1)] = CellOf(s, i)
    BY <1>6, <1>7 DEF Linked
  <2>3. CellOf(s, i) # CellOf(s, k - 1) /\ CellOf(s, i + 1) # CellOf(s, k)
    BY <1>4, <1>5b, <1>6, <1>7
  <2>4. /\ CellOf(s, i) \in Cells /\ CellOf(s, i) # n
        /\ CellOf(s, i + 1) \in Cells /\ CellOf(s, i + 1) # n
    BY <1>3, <1>6, <1>7
  <2> QED
    BY <2>1, <2>2, <2>3, <2>4
<1>8. CASE i = k - 1
  <2>1. CellOf(w, i) = CellOf(s, k - 1) /\ CellOf(w, i + 1) = n
    BY <1>2, <1>6, <1>8
  <2>2. CellOf(s, k) # n /\ CellOf(s, k - 1) \in Cells
    BY <1>3, <1>5b
  <2> QED
    BY <1>5, <2>1, <2>2
<1>9. CASE i = k
  <2>1. CellOf(w, i) = n /\ CellOf(w, i + 1) = CellOf(s, k)
    BY <1>2, <1>6, <1>9
  <2>2. CellOf(s, k - 1) # n /\ CellOf(s, k) \in Cells
    BY <1>3, <1>5b
  <2> QED
    BY <1>5, <2>1, <2>2
<1>10. CASE i > k
  <2>1. CellOf(w, i) = CellOf(s, i - 1) /\ CellOf(w, i + 1) = CellOf(s, i)
    BY <1>2, <1>6, <1>10
  <2>2. q[CellOf(s, i - 1)] = CellOf(s, i) /\ p[CellOf(s, i)] = CellOf(s, i - 1)
    BY <1>6, <1>10 DEF Linked
  <2>3. CellOf(s, i - 1) # CellOf(s, k - 1) /\ CellOf(s, i) # CellOf(s, k)
    <3>1. i - 1 \in 0..(Len(s) + 1) /\ i - 1 # k - 1 /\ i # k
      BY <1>6, <1>10
    <3> QED
      BY <1>4, <1>5b, <1>6, <3>1
  <2>4. /\ CellOf(s, i) \in Cells /\ CellOf(s, i) # n
        /\ CellOf(s, i - 1) \in Cells /\ CellOf(s, i - 1) # n
    BY <1>3, <1>6, <1>10
  <2> QED
    BY <2>1, <2>2, <2>3, <2>4
<1> QED
  BY <1>7, <1>8, <1>9, <1>10

(* Unlinking the k-th node; its own links no longer matter.                *)
LEMMA DeleteLinks ==
  ASSUME NEW s \in Seq(Nodes), Injective(s),
         NEW p, NEW q, Linked(p, q, s),
         NEW k \in 1..Len(s), NEW p1, NEW q1,
         \A c \in Cells : c # s[k] =>
           p1[c] = IF c = CellOf(s, k + 1) THEN CellOf(s, k - 1) ELSE p[c],
         \A c \in Cells :
           q1[c] = IF c = CellOf(s, k - 1) THEN CellOf(s, k + 1) ELSE q[c]
  PROVE  Linked(p1, q1, Dropped(s, k))
<1> DEFINE w == Dropped(s, k)
<1>1. /\ Len(w) = Len(s) - 1
      /\ \A j \in 1..(Len(s) - 1) : w[j] = IF j < k THEN s[j] ELSE s[j + 1]
  BY DroppedIsSeq
<1>2. \A j \in 0..Len(s) :
        CellOf(w, j) = IF j < k THEN CellOf(s, j) ELSE CellOf(s, j + 1)
  <2> HIDE DEF w
  <2> QED
    BY <1>1 DEF CellOf
<1>3. /\ \A i \in 0..(Len(s) + 1) : CellOf(s, i) \in Cells
      /\ \A i, j \in 0..(Len(s) + 1) : CellOf(s, i) = CellOf(s, j) => i = j
  BY CellsDiffer
<1>4. s[k] = CellOf(s, k)
  BY DEF CellOf
<1> HIDE DEF w
<1> SUFFICES ASSUME NEW i \in 0..Len(w)
             PROVE  q1[CellOf(w, i)] = CellOf(w, i + 1)
                    /\ p1[CellOf(w, i + 1)] = CellOf(w, i)
  BY DEF Linked, w
<1>5. i \in 0..(Len(s) - 1)
  BY <1>1
<1>6. CASE i < k - 1
  <2>1. CellOf(w, i) = CellOf(s, i) /\ CellOf(w, i + 1) = CellOf(s, i + 1)
    BY <1>2, <1>5, <1>6
  <2>2. q[CellOf(s, i)] = CellOf(s, i + 1) /\ p[CellOf(s, i + 1)] = CellOf(s, i)
    BY <1>5 DEF Linked
  <2>3. /\ CellOf(s, i) # CellOf(s, k - 1)
        /\ CellOf(s, i + 1) # CellOf(s, k + 1) /\ CellOf(s, i + 1) # CellOf(s, k)
    BY <1>3, <1>5, <1>6
  <2> QED
    BY <1>3, <1>4, <1>5, <2>1, <2>2, <2>3
<1>7. CASE i = k - 1
  <2>1. CellOf(w, i) = CellOf(s, k - 1) /\ CellOf(w, i + 1) = CellOf(s, k + 1)
    BY <1>2, <1>5, <1>7
  <2>2. CellOf(s, k + 1) # CellOf(s, k)
    BY <1>3
  <2> QED
    BY <1>3, <1>4, <2>1, <2>2
<1>8. CASE i > k - 1
  <2>1. CellOf(w, i) = CellOf(s, i + 1) /\ CellOf(w, i + 1) = CellOf(s, i + 2)
    BY <1>2, <1>5, <1>8
  <2>2. q[CellOf(s, i + 1)] = CellOf(s, i + 2) /\ p[CellOf(s, i + 2)] = CellOf(s, i + 1)
    BY <1>5 DEF Linked
  <2>3. /\ CellOf(s, i + 1) # CellOf(s, k - 1)
        /\ CellOf(s, i + 2) # CellOf(s, k + 1) /\ CellOf(s, i + 2) # CellOf(s, k)
    BY <1>3, <1>5, <1>8
  <2> QED
    BY <1>3, <1>4, <1>5, <2>1, <2>2, <2>3
<1> QED
  BY <1>5, <1>6, <1>7, <1>8

-----------------------------------------------------------------------------
(* The invariant of the list proper, in terms of Linked.                   *)
LEMMA ChainsAreLinked ==
  /\ ChainsAgree <=> /\ Linked(prev, next, chain) /\ listSize = Len(chain)
                     /\ listPc = "delete" => dnode = CellOf(chain, 1)
  /\ ChainsAgree' <=> /\ Linked(prev', next', chain') /\ listSize' = Len(chain')
                      /\ listPc' = "delete" => dnode' = CellOf(chain', 1)
  BY DEF ChainsAgree, Linked, Cell, CellOf

(* A node CreateListNode returns is nowhere else afterwards.               *)
LEMMA CreatedIsNew ==
  ASSUME ListConsistent, listPc # "release", NEW n \in Nodes, NEW x \in Items,
         CreateListNode(n, x)
  PROVE  /\ \A i \in 1..Len(chain) : chain[i] # n
         /\ n \notin os' /\ os' \subseteq os
         /\ spare' \in Seq(Nodes) /\ flen' = Len(spare')
         /\ fhead' = IF spare' = <<>> THEN NULL ELSE spare'[1]
         /\ fhead' \in Nodes \cup {NULL}
         /\ \A j \in 1..Len(spare') :
              /\ spare'[j] # n /\ spare'[j] \notin os'
              /\ prev[spare'[j]] = IF j = Len(spare') THEN NULL ELSE spare'[j + 1]
              /\ \A i \in 1..Len(chain) : chain[i] # spare'[j]
         /\ Injective(spare')
         /\ item' \in [Nodes -> Items \cup {NULL}]
         /\ item'[n] = x /\ \A m \in Nodes : m # n => item'[m] = item[m]
<1> USE DEF ListConsistent, ListTypeOK, MemoryOnce
<1>1. /\ item' \in [Nodes -> Items \cup {NULL}]
      /\ item'[n] = x /\ \A m \in Nodes : m # n => item'[m] = item[m]
  BY DEF CreateListNode
<1>2. CASE fhead # NULL
  <2>1. /\ n = fhead /\ spare # <<>> /\ n = spare[1] /\ fhead' = prev[n]
        /\ flen' = flen - 1 /\ os' = os /\ spare' = Dropped(spare, 1)
    BY <1>2 DEF CreateListNode
  <2>2. /\ Len(spare) \in Nat /\ Len(spare) >= 1 /\ 1 \in 1..Len(spare)
    BY <2>1
  <2>3. /\ spare' \in Seq(Nodes) /\ Len(spare') = Len(spare) - 1
        /\ \A j \in 1..(Len(spare) - 1) : spare'[j] = spare[j + 1]
    BY <2>1, <2>2, DroppedIsSeq
  <2>4. \A j \in 1..Len(spare') :
              /\ spare'[j] # n /\ spare'[j] \notin os'
              /\ prev[spare'[j]] = IF j = Len(spare') THEN NULL ELSE spare'[j + 1]
              /\ \A i \in 1..Len(chain) : chain[i] # spare'[j]
    <3> SUFFICES ASSUME NEW j \in 1..Len(spare')
                 PROVE  /\ spare'[j] # n /\ spare'[j] \notin os'
                        /\ prev[spare'[j]] = IF j = Len(spare') THEN NULL ELSE spare'[j + 1]
                        /\ \A i \in 1..Len(chain) : chain[i] # spare'[j]
      OBVIOUS
    <3>1. j + 1 \in 1..Len(spare) /\ spare'[j] = spare[j + 1] /\ j + 1 # 1
      BY <2>2, <2>3
    <3>2. j # Len(spare') => spare'[j + 1] = spare[j + 2]
      BY <2>2, <2>3
    <3> QED
      BY <2>1, <2>2, <2>3, <3>1, <3>2
  <2>5. Injective(spare')
    BY <2>2, <2>3 DEF Injective
  <2>6. fhead' = IF spare' = <<>> THEN NULL ELSE spare'[1]
    BY <2>1, <2>2, <2>3
  <2>7. fhead' \in Nodes \cup {NULL}
    BY <2>3, <2>6
  <2> QED
    BY <1>1, <2>1, <2>2, <2>3, <2>4, <2>5, <2>6, <2>7
<1>3. CASE fhead = NULL
  <2>1. /\ n \in os /\ os' = os \ {n} /\ UNCHANGED <<fhead, flen, spare>>
    BY <1>3 DEF CreateListNode
  <2> QED
    BY <1>1, <2>1 DEF Injective
<1> QED
  BY <1>2, <1>3

(* The list with a node at position k.                                     *)
LEMMA ChainWith ==
  ASSUME chain \in Seq(Nodes), NEW n \in Nodes, NEW k \in 1..(Len(chain) + 1)
  PROVE  /\ With(chain, k, n) \in Seq(Nodes)
         /\ Len(With(chain, k, n)) = Len(chain) + 1
         /\ \A j \in 1..(Len(chain) + 1) :
              With(chain, k, n)[j] = IF j < k THEN chain[j]
                                     ELSE IF j = k THEN n ELSE chain[j - 1]
<1>1. \A s \in Seq(Nodes) : \A i \in 1..(Len(s) + 1) :
        /\ With(s, i, n) \in Seq(Nodes)
        /\ Len(With(s, i, n)) = Len(s) + 1
        /\ \A j \in 1..(Len(s) + 1) :
             With(s, i, n)[j] = IF j < i THEN s[j]
                                ELSE IF j = i THEN n ELSE s[j - 1]
  BY WithIsSeq
<1> QED
  BY <1>1, Zenon

(* The free list without its head.                                         *)
LEMMA SpareDropped ==
  ASSUME spare \in Seq(Nodes), 1 \in 1..Len(spare)
  PROVE  /\ Dropped(spare, 1) \in Seq(Nodes)
         /\ Len(Dropped(spare, 1)) = Len(spare) - 1
         /\ \A j \in 1..(Len(spare) - 1) : Dropped(spare, 1)[j] = spare[j + 1]
<1>1. \A s \in Seq(Nodes) : \A k \in 1..Len(s) :
        /\ Dropped(s, k) \in Seq(Nodes)
        /\ Len(Dropped(s, k)) = Len(s) - 1
        /\ \A j \in 1..(Len(s) - 1) : Dropped(s, k)[j] = IF j < k THEN s[j] ELSE s[j + 1]
  BY DroppedIsSeq
<1> HIDE DEF Dropped
<1>2. /\ Dropped(spare, 1) \in Seq(Nodes)
      /\ Len(Dropped(spare, 1)) = Len(spare) - 1
      /\ \A j \in 1..(Len(spare) - 1) :
           Dropped(spare, 1)[j] = IF j < 1 THEN spare[j] ELSE spare[j + 1]
  BY <1>1, Zenon
<1>3. \A j \in 1..(Len(spare) - 1) : ~(j < 1)
  OBVIOUS
<1> QED
  BY <1>2, <1>3, Zenon

(* Both ways of adding a node keep the invariant.                          *)
LEMMA AddKeeps ==
  ASSUME ListConsistent, listPc = "idle", UNCHANGED <<listPc, dnode>>,
         NEW n \in Nodes, NEW x \in Items, CreateListNode(n, x),
         NEW k \in 1..(Len(chain) + 1),
         chain' = With(chain, k, n), listSize' = listSize + 1,
         prev' \in [Cells -> Pointers], next' \in [Cells -> Pointers],
         \A c \in Cells : prev'[c] = IF c = CellOf(chain, k) THEN n
                                     ELSE IF c = n THEN CellOf(chain, k - 1)
                                     ELSE prev[c],
         \A c \in Cells : next'[c] = IF c = CellOf(chain, k - 1) THEN n
                                     ELSE IF c = n THEN CellOf(chain, k)
                                     ELSE next[c]
  PROVE  ListConsistent'
<1>1. /\ chain \in Seq(Nodes) /\ Injective(chain) /\ listSize = Len(chain)
      /\ Linked(prev, next, chain)
  BY ChainsAreLinked DEF ListConsistent, ListTypeOK, MemoryOnce, Injective
<1>2. listPc # "release" /\ \A i \in 1..Len(chain) : chain[i] # n
  BY CreatedIsNew
<1>3. /\ chain' \in Seq(Nodes) /\ Len(chain') = Len(chain) + 1
      /\ \A j \in 1..(Len(chain) + 1) :
           chain'[j] = IF j < k THEN chain[j] ELSE IF j = k THEN n ELSE chain[j - 1]
  <2>1. /\ With(chain, k, n) \in Seq(Nodes)
        /\ Len(With(chain, k, n)) = Len(chain) + 1
        /\ \A j \in 1..(Len(chain) + 1) :
             With(chain, k, n)[j] = IF j < k THEN chain[j]
                                    ELSE IF j = k THEN n ELSE chain[j - 1]
    BY <1>1, ChainWith
  <2> QED
    BY <2>1
<1>4. Linked(prev', next', chain')
  <2>1. Linked(prev', next', With(chain, k, n))
    BY <1>1, <1>2, InsertLinks
  <2> QED
    BY <2>1
<1>5. ChainsAgree'
  BY <1>1, <1>3, <1>4, ChainsAreLinked
<1>6. ListTypeOK'
  <2>1. /\ spare' \in Seq(Nodes) /\ fhead' \in Nodes \cup {NULL}
        /\ flen' \in Nat /\ item' \in [Nodes -> Items \cup {NULL}]
        /\ os' \subseteq os
    BY <1>2, CreatedIsNew
  <2> QED
    BY <1>1, <1>3, <2>1 DEF ListConsistent, ListTypeOK
<1>7. MemoryOnce'
  <2>1. /\ n \notin os' /\ os' \subseteq os /\ flen' = Len(spare')
        /\ fhead' = IF spare' = <<>> THEN NULL ELSE spare'[1]
        /\ \A j \in 1..Len(spare') :
              /\ spare'[j] # n /\ spare'[j] \notin os'
              /\ prev[spare'[j]] = IF j = Len(spare') THEN NULL ELSE spare'[j + 1]
              /\ \A i \in 1..Len(chain) : chain[i] # spare'[j]
        /\ Injective(spare') /\ spare' \in Seq(Nodes)
    BY <1>2, CreatedIsNew
  <2>2. \A i, j \in 1..Len(chain') : chain'[i] = chain'[j] => i = j
    BY <1>1, <1>2, <1>3 DEF Injective
  <2>3. \A i \in 1..Len(chain') :
          /\ chain'[i] \notin os'
          /\ \A j \in 1..Len(spare') : chain'[i] # spare'[j]
    <3> TAKE i \in 1..Len(chain')
    <3>1. \A h \in 1..Len(chain) : chain[h] \notin os'
      BY <2>1 DEF ListConsistent, MemoryOnce
    <3>2. chain'[i] = n \/ \E h \in 1..Len(chain) : chain'[i] = chain[h]
      <4>1. CASE i < k
        BY <1>1, <1>3, <4>1
      <4>2. CASE i = k
        BY <1>1, <1>3, <4>2
      <4>3. CASE i > k
        <5>1. i - 1 \in 1..Len(chain) /\ chain'[i] = chain[i - 1]
          BY <1>1, <1>3, <4>3
        <5> QED
          BY <5>1
      <4> QED
        BY <1>1, <1>3, <4>1, <4>2, <4>3
    <3> QED
      BY <2>1, <3>1, <3>2
  <2>4. \A j \in 1..Len(spare') : prev'[spare'[j]] = prev[spare'[j]]
    <3> TAKE j \in 1..Len(spare')
    <3>1. spare'[j] \in Nodes /\ spare'[j] # n /\ spare'[j] \in Cells
      BY <2>1 DEF Cells
    <3>2. spare'[j] # CellOf(chain, k)
      BY <1>1, <2>1, <3>1, NodeAssumption DEF CellOf
    <3> QED
      BY <3>1, <3>2
  <2> QED
    BY <2>1, <2>2, <2>3, <2>4 DEF MemoryOnce, Injective
<1> QED
  BY <1>5, <1>6, <1>7 DEF ListConsistent

(* ListDelNode keeps it, for a caller and for ListDestroy.                 *)
LEMMA DeleteKeeps ==
  ASSUME ListConsistent, NEW k \in 1..Len(chain), ListDelNode(k),
         listPc' = listPc, listPc # "release",
         listPc = "idle" => dnode' = dnode,
         listPc = "delete" => k = 1 /\ dnode' = next[dnode]
  PROVE  ListConsistent'
<1> DEFINE d == chain[k]
<1>1. /\ chain \in Seq(Nodes) /\ Injective(chain) /\ listSize = Len(chain)
      /\ Linked(prev, next, chain) /\ spare \in Seq(Nodes)
      /\ prev \in [Cells -> Pointers] /\ next \in [Cells -> Pointers]
      /\ listPc = "delete" => dnode = CellOf(chain, 1)
  BY ChainsAreLinked DEF ListConsistent, ListTypeOK, MemoryOnce, Injective
<1>2. d \in Nodes /\ d \in Cells /\ d = CellOf(chain, k)
  BY <1>1 DEF CellOf, Cells
<1>3. prev[d] = CellOf(chain, k - 1) /\ next[d] = CellOf(chain, k + 1)
  <2>1. k \in 0..Len(chain) /\ k - 1 \in 0..Len(chain) /\ (k - 1) + 1 = k
    BY <1>1
  <2> QED
    BY <1>1, <1>2, <2>1 DEF Linked
<1>4. /\ k - 1 \in 0..(Len(chain) + 1) /\ k \in 0..(Len(chain) + 1)
      /\ k + 1 \in 0..(Len(chain) + 1)
  BY <1>1
<1>5. /\ CellOf(chain, k - 1) \in Cells /\ CellOf(chain, k - 1) # d
      /\ CellOf(chain, k + 1) \in Cells /\ CellOf(chain, k + 1) # d
  <2>1. k # k - 1 /\ k # k + 1
    BY <1>1
  <2> QED
    BY <1>1, <1>2, <1>4, <2>1, CellsDiffer
<1>6. /\ chain' = Dropped(chain, k) /\ listSize' = listSize - 1 /\ item' = item
      /\ next' = [next EXCEPT ![CellOf(chain, k - 1)] = CellOf(chain, k + 1)]
      /\ prev' = [prev EXCEPT ![CellOf(chain, k + 1)] = CellOf(chain, k - 1),
                              ![d] = IF flen + 1 < MaxFree THEN fhead ELSE @]
      /\ FreeListFree(d)
  BY <1>3 DEF ListDelNode
<1>7. /\ fhead \in Pointers /\ flen \in Nat
      /\ prev' \in [Cells -> Pointers] /\ next' \in [Cells -> Pointers]
  BY <1>1, <1>5, <1>6 DEF ListConsistent, ListTypeOK, Pointers, Cells
<1>8. /\ \A c \in Cells : c # d =>
           prev'[c] = IF c = CellOf(chain, k + 1) THEN CellOf(chain, k - 1) ELSE prev[c]
      /\ \A c \in Cells :
           next'[c] = IF c = CellOf(chain, k - 1) THEN CellOf(chain, k + 1) ELSE next[c]
      /\ prev'[d] = IF flen + 1 < MaxFree THEN fhead ELSE prev[d]
  BY <1>1, <1>2, <1>5, <1>6
<1>9. /\ chain' \in Seq(Nodes) /\ Len(chain') = Len(chain) - 1
      /\ \A j \in 1..(Len(chain) - 1) :
           chain'[j] = IF j < k THEN chain[j] ELSE chain[j + 1]
  <2>1. /\ Dropped(chain, k) \in Seq(Nodes)
        /\ Len(Dropped(chain, k)) = Len(chain) - 1
        /\ \A j \in 1..(Len(chain) - 1) :
             Dropped(chain, k)[j] = IF j < k THEN chain[j] ELSE chain[j + 1]
    BY <1>1, DroppedIsSeq
  <2> QED
    BY <1>6, <2>1
<1>10. Linked(prev', next', chain')
  <2>1. Linked(prev', next', Dropped(chain, k))
    BY <1>1, <1>8, DeleteLinks
  <2> QED
    BY <1>6, <2>1
<1>11. listPc' = "delete" => dnode' = CellOf(chain', 1) /\ dnode' \in Nodes \cup {TAIL, NULL}
  <2> SUFFICES ASSUME listPc = "delete"
               PROVE  dnode' = CellOf(chain', 1) /\ dnode' \in Nodes \cup {TAIL, NULL}
    OBVIOUS
  <2>1. dnode = d /\ k = 1 /\ dnode' = CellOf(chain, 2)
    BY <1>1, <1>2, <1>3
  <2>2. CellOf(chain', 1) = CellOf(chain, 2)
    BY <1>1, <1>9, <2>1 DEF CellOf
  <2>3. CellOf(chain, 2) \in Nodes \cup {TAIL, NULL}
    BY <1>1, <2>1 DEF CellOf
  <2> QED
    BY <2>1, <2>2, <2>3
<1>12. ChainsAgree'
  BY <1>1, <1>6, <1>9, <1>10, <1>11, ChainsAreLinked
<1>13. /\ \A i \in 1..Len(chain') : chain'[i] # d /\ \E h \in 1..Len(chain) : chain'[i] = chain[h]
       /\ Injective(chain')
  <2>1. \A i \in 1..Len(chain') :
          \E h \in 1..Len(chain) : chain'[i] = chain[h] /\ h # k /\ h = (IF i < k THEN i ELSE i + 1)
    <3> TAKE i \in 1..Len(chain')
    <3> DEFINE h == IF i < k THEN i ELSE i + 1
    <3>1. h \in 1..Len(chain) /\ h # k /\ chain'[i] = chain[h]
      BY <1>1, <1>9
    <3> QED
      BY <3>1
  <2>2. \A i \in 1..Len(chain') :
          chain'[i] # d /\ \E h \in 1..Len(chain) : chain'[i] = chain[h]
    BY <1>1, <2>1 DEF Injective
  <2>3. ASSUME NEW i \in 1..Len(chain'), NEW j \in 1..Len(chain'), chain'[i] = chain'[j]
        PROVE  i = j
    <3>1. (IF i < k THEN i ELSE i + 1) = (IF j < k THEN j ELSE j + 1)
      BY <1>1, <2>1, <2>3 DEF Injective
    <3> QED
      BY <1>1, <1>9, <3>1
  <2> QED
    BY <2>2, <2>3 DEF Injective
<1>14. \A j \in 1..Len(spare) : prev'[spare[j]] = prev[spare[j]] /\ spare[j] # d
  <2> TAKE j \in 1..Len(spare)
  <2>1. spare[j] \in Cells /\ \A i \in 1..Len(chain) : spare[j] # chain[i]
    BY <1>1 DEF ListConsistent, MemoryOnce, Cells
  <2>2. spare[j] # CellOf(chain, k + 1)
    BY <1>1, <1>4, <2>1, NodeAssumption DEF CellOf
  <2> QED
    BY <1>8, <2>1, <2>2
<1>15. d \notin os
  BY DEF ListConsistent, MemoryOnce
<1>18. /\ listSize' \in Nat /\ os \subseteq Nodes /\ flen \in Nat
       /\ listPc' \in {"idle", "delete", "release"}
       /\ dnode' \in Nodes \cup {TAIL, NULL}
       /\ item' \in [Nodes -> Items \cup {NULL}]
  BY <1>1, <1>6, <1>11 DEF ListConsistent, ListTypeOK
<1>16. CASE flen + 1 < MaxFree
  <2>1. /\ flen' = flen + 1 /\ fhead' = d /\ os' = os /\ spare' = With(spare, 1, d)
    BY <1>6, <1>16 DEF FreeListFree
  <2>2. /\ spare' \in Seq(Nodes) /\ Len(spare') = Len(spare) + 1
        /\ \A j \in 1..(Len(spare) + 1) :
             spare'[j] = IF j = 1 THEN d ELSE spare[j - 1]
    <3>1. 1 \in 1..(Len(spare) + 1)
      BY <1>1
    <3>2. /\ With(spare, 1, d) \in Seq(Nodes)
          /\ Len(With(spare, 1, d)) = Len(spare) + 1
          /\ \A j \in 1..(Len(spare) + 1) :
               With(spare, 1, d)[j] = IF j < 1 THEN spare[j]
                                      ELSE IF j = 1 THEN d ELSE spare[j - 1]
      BY <1>1, <1>2, <3>1, WithIsSeq
    <3> QED
      BY <2>1, <3>2
  <2>3. prev'[d] = IF spare = <<>> THEN NULL ELSE spare[1]
    BY <1>8, <1>16 DEF ListConsistent, MemoryOnce
  <2>4. \A j \in 1..Len(spare') :
          /\ prev'[spare'[j]] = IF j = Len(spare') THEN NULL ELSE spare'[j + 1]
          /\ spare'[j] \notin os'
          /\ \A i \in 1..Len(chain') : chain'[i] # spare'[j]
    <3> TAKE j \in 1..Len(spare')
    <3>1. CASE j = 1
      <4>1. spare'[j] = d
        BY <1>1, <2>2, <3>1
      <4>2. prev'[d] = IF j = Len(spare') THEN NULL ELSE spare'[j + 1]
        <5>1. CASE spare = <<>>
          BY <1>1, <2>2, <2>3, <3>1, <5>1
        <5>2. CASE spare # <<>>
          <6>1. Len(spare) >= 1 /\ 2 \in 1..(Len(spare) + 1) /\ Len(spare') # 1
            BY <1>1, <2>2, <5>2
          <6>2. spare'[2] = spare[1]
            BY <2>2, <6>1
          <6> QED
            BY <2>3, <3>1, <5>2, <6>1, <6>2
        <5> QED
          BY <5>1, <5>2
      <4> QED
        BY <1>13, <1>15, <2>1, <4>1, <4>2
    <3>2. CASE j # 1
      <4>1. j - 1 \in 1..Len(spare) /\ spare'[j] = spare[j - 1]
        BY <1>1, <2>2, <3>2
      <4>2. j # Len(spare') => spare'[j + 1] = spare[j]
        BY <1>1, <2>2, <3>2
      <4>3. prev[spare[j - 1]] = IF j - 1 = Len(spare) THEN NULL ELSE spare[j]
        BY <4>1 DEF ListConsistent, MemoryOnce
      <4>4. /\ spare[j - 1] \notin os
            /\ \A i \in 1..Len(chain) : chain[i] # spare[j - 1]
        BY <4>1 DEF ListConsistent, MemoryOnce
      <4> QED
        BY <1>1, <1>13, <1>14, <2>1, <2>2, <4>1, <4>2, <4>3, <4>4
    <3> QED
      BY <3>1, <3>2
  <2>5. Injective(spare')
    BY <1>1, <1>14, <2>2 DEF ListConsistent, MemoryOnce, Injective
  <2>6. \A i \in 1..Len(chain') : chain'[i] \notin os'
    BY <1>13, <2>1 DEF ListConsistent, MemoryOnce
  <2>7. flen' = Len(spare')
    BY <2>1, <2>2 DEF ListConsistent, MemoryOnce
  <2>10. spare' # <<>> /\ spare'[1] = d
    BY <1>1, <2>2
  <2>8. MemoryOnce'
    BY <1>1, <1>13, <2>1, <2>10, <2>2, <2>4, <2>5, <2>6, <2>7 DEF MemoryOnce, Injective
  <2>9. ListTypeOK'
    BY <1>2, <1>7, <1>9, <1>18, <2>1, <2>2 DEF ListTypeOK
  <2> QED
    BY <1>12, <2>8, <2>9 DEF ListConsistent
<1>17. CASE ~(flen + 1 < MaxFree)
  <2>1. os' = os \cup {d} /\ UNCHANGED <<flen, fhead, spare>>
    BY <1>6, <1>17 DEF FreeListFree
  <2>2. MemoryOnce'
    <3>1. \A i \in 1..Len(chain') :
            /\ chain'[i] \notin os'
            /\ \A j \in 1..Len(spare) : chain'[i] # spare[j]
      BY <1>13, <2>1 DEF ListConsistent, MemoryOnce
    <3>2. \A j \in 1..Len(spare) :
            /\ spare[j] \notin os'
            /\ prev'[spare[j]] = IF j = Len(spare) THEN NULL ELSE spare[j + 1]
      BY <1>14, <2>1 DEF ListConsistent, MemoryOnce
    <3>3. /\ fhead' = IF spare' = <<>> THEN NULL ELSE spare'[1]
          /\ listPc' # "release" => flen' = Len(spare')
          /\ \A i, j \in 1..Len(spare') : spare'[i] = spare'[j] => i = j
      BY <2>1 DEF ListConsistent, MemoryOnce
    <3>4. \A i, j \in 1..Len(chain') : chain'[i] = chain'[j] => i = j
      BY <1>13 DEF Injective
    <3> QED
      BY <2>1, <3>1, <3>2, <3>3, <3>4 DEF MemoryOnce
  <2>3. ListTypeOK'
    BY <1>1, <1>2, <1>7, <1>9, <1>18, <2>1 DEF ListConsistent, ListTypeOK
  <2> QED
    BY <1>12, <2>2, <2>3 DEF ListConsistent
<1> QED
  BY <1>16, <1>17

(* What the two add operations have in common: the links they write.       *)
Adds(n, x, k) ==
  /\ listPc = "idle" /\ UNCHANGED <<listPc, dnode>>
  /\ CreateListNode(n, x)
  /\ chain' = With(chain, k, n) /\ listSize' = listSize + 1
  /\ prev' \in [Cells -> Pointers] /\ next' \in [Cells -> Pointers]
  /\ \A c \in Cells : prev'[c] = IF c = CellOf(chain, k) THEN n
                                  ELSE IF c = n THEN CellOf(chain, k - 1)
                                  ELSE prev[c]
  /\ \A c \in Cells : next'[c] = IF c = CellOf(chain, k - 1) THEN n
                                  ELSE IF c = n THEN CellOf(chain, k)
                                  ELSE next[c]

(* A node just created is none of the neighbours it goes between.          *)
LEMMA NewNodeApart ==
  ASSUME ListConsistent, listPc = "idle", NEW n \in Nodes, NEW x \in Items,
         CreateListNode(n, x), NEW i \in 0..Len(chain)
  PROVE  /\ next[CellOf(chain, i)] = CellOf(chain, i + 1)
         /\ prev[CellOf(chain, i + 1)] = CellOf(chain, i)
         /\ CellOf(chain, i) # n /\ CellOf(chain, i + 1) # n
         /\ CellOf(chain, i) \in Cells /\ CellOf(chain, i + 1) \in Cells
         /\ CellOf(chain, i) \in Pointers /\ CellOf(chain, i + 1) \in Pointers
         /\ n \in Cells /\ n \in Pointers
         /\ prev \in [Cells -> Pointers] /\ next \in [Cells -> Pointers]
<1>1. /\ chain \in Seq(Nodes) /\ Injective(chain) /\ Linked(prev, next, chain)
      /\ prev \in [Cells -> Pointers] /\ next \in [Cells -> Pointers]
  BY ChainsAreLinked DEF ListConsistent, ListTypeOK, MemoryOnce, Injective
<1>2. \A h \in 1..Len(chain) : chain[h] # n
  BY CreatedIsNew
<1>3. i \in 0..(Len(chain) + 1) /\ i + 1 \in 0..(Len(chain) + 1)
  BY <1>1
<1>4. CellOf(chain, i) \in Cells /\ CellOf(chain, i + 1) \in Cells
  BY <1>1, <1>3, CellsDiffer
<1>5. CellOf(chain, i) # n /\ CellOf(chain, i + 1) # n
  BY <1>1, <1>2, <1>3, NodeAssumption DEF CellOf
<1> QED
  BY <1>1, <1>4, <1>5 DEF Linked, Cells, Pointers

(* ListAddAfter adds a node behind position i.                             *)
LEMMA AddAfterAdds ==
  ASSUME ListConsistent, NEW x \in Items, NEW i \in 0..Len(chain), ListAddAfter(x, i)
  PROVE  \E n \in Nodes : Adds(n, x, i + 1)
<1>1. /\ listPc = "idle" /\ UNCHANGED <<listPc, dnode>> /\ listSize' = listSize + 1
      /\ Cell(i) = CellOf(chain, i)
  BY DEF ListAddAfter, Cell, CellOf
<1>2. PICK n \in Nodes :
        /\ CreateListNode(n, x)
        /\ next' = [next EXCEPT ![CellOf(chain, i)] = n, ![n] = next[CellOf(chain, i)]]
        /\ prev' = [prev EXCEPT ![n] = CellOf(chain, i), ![next[CellOf(chain, i)]] = n]
        /\ chain' = With(chain, i + 1, n)
  BY <1>1 DEF ListAddAfter
<1>3. /\ next[CellOf(chain, i)] = CellOf(chain, i + 1)
      /\ CellOf(chain, i) # n /\ CellOf(chain, i + 1) # n
      /\ CellOf(chain, i) \in Cells /\ CellOf(chain, i + 1) \in Cells
      /\ CellOf(chain, i) \in Pointers /\ CellOf(chain, i + 1) \in Pointers
      /\ n \in Cells /\ n \in Pointers
      /\ prev \in [Cells -> Pointers] /\ next \in [Cells -> Pointers]
  BY <1>1, <1>2, NewNodeApart
<1>4. (i + 1) - 1 = i
  OBVIOUS
<1>5. /\ prev' \in [Cells -> Pointers] /\ next' \in [Cells -> Pointers]
      /\ \A c \in Cells : prev'[c] = IF c = CellOf(chain, i + 1) THEN n
                                      ELSE IF c = n THEN CellOf(chain, i)
                                      ELSE prev[c]
      /\ \A c \in Cells : next'[c] = IF c = CellOf(chain, i) THEN n
                                      ELSE IF c = n THEN CellOf(chain, i + 1)
                                      ELSE next[c]
  BY <1>2, <1>3
<1> QED
  BY <1>1, <1>2, <1>4, <1>5 DEF Adds

(* ListAddBefore adds a node at position k.                                *)
LEMMA AddBeforeAdds ==
  ASSUME ListConsistent, NEW x \in Items, NEW k \in 1..(Len(chain) + 1), ListAddBefore(x, k)
  PROVE  \E n \in Nodes : Adds(n, x, k)
<1>1. /\ listPc = "idle" /\ UNCHANGED <<listPc, dnode>> /\ listSize' = listSize + 1
      /\ Cell(k) = CellOf(chain, k)
  BY DEF ListAddBefore, Cell, CellOf
<1>2. PICK n \in Nodes :
        /\ CreateListNode(n, x)
        /\ prev' = [prev EXCEPT ![CellOf(chain, k)] = n, ![n] = prev[CellOf(chain, k)]]
        /\ next' = [next EXCEPT ![n] = CellOf(chain, k), ![prev[CellOf(chain, k)]] = n]
        /\ chain' = With(chain, k, n)
  BY <1>1 DEF ListAddBefore
<1>3. chain \in Seq(Nodes)
  BY DEF ListConsistent, ListTypeOK
<1>4. k - 1 \in 0..Len(chain) /\ (k - 1) + 1 = k
  BY <1>3
<1>5. /\ prev[CellOf(chain, k)] = CellOf(chain, k - 1)
      /\ CellOf(chain, k - 1) # n /\ CellOf(chain, k) # n
      /\ CellOf(chain, k - 1) \in Cells /\ CellOf(chain, k) \in Cells
      /\ CellOf(chain, k - 1) \in Pointers /\ CellOf(chain, k) \in Pointers
      /\ n \in Cells /\ n \in Pointers
      /\ prev \in [Cells -> Pointers] /\ next \in [Cells -> Pointers]
  BY <1>1, <1>2, <1>4, NewNodeApart
<1>6. /\ prev' \in [Cells -> Pointers] /\ next' \in [Cells -> Pointers]
      /\ \A c \in Cells : prev'[c] = IF c = CellOf(chain, k) THEN n
                                      ELSE IF c = n THEN CellOf(chain, k - 1)
                                      ELSE prev[c]
      /\ \A c \in Cells : next'[c] = IF c = CellOf(chain, k - 1) THEN n
                                      ELSE IF c = n THEN CellOf(chain, k)
                                      ELSE next[c]
  BY <1>2, <1>5
<1> QED
  BY <1>1, <1>2, <1>6 DEF Adds

-----------------------------------------------------------------------------
(* An empty list with an empty free list is consistent.                    *)
LEMMA InitInv == ListInit => ListConsistent
<1> SUFFICES ASSUME ListInit PROVE ListConsistent
  OBVIOUS
<1> USE DEF ListInit
<1>1. chain = <<>> /\ spare = <<>> /\ Len(chain) = 0 /\ Len(spare) = 0
  OBVIOUS
<1>2. ListTypeOK
  BY <1>1, NodeAssumption DEF ListTypeOK, Cells, Pointers
<1>3. ChainsAgree
  BY <1>1, NodeAssumption DEF ChainsAgree, Cell, Cells
<1>4. MemoryOnce
  BY <1>1 DEF MemoryOnce
<1> QED
  BY <1>2, <1>3, <1>4 DEF ListConsistent

(* The node ListDestroy deletes is the first.                              *)
LEMMA DestroysFirst ==
  ASSUME ListConsistent, DestroyNode
  PROVE  1 \in 1..Len(chain) /\ ListDelNode(1) /\ dnode' = next[dnode]
<1>1. chain \in Seq(Nodes) /\ Injective(chain) /\ dnode = CellOf(chain, 1)
  BY ChainsAreLinked DEF ListConsistent, ListTypeOK, MemoryOnce, Injective, DestroyNode
<1>2. PICK k \in 1..Len(chain) : chain[k] = dnode /\ ListDelNode(k)
  BY DEF DestroyNode
<1>3. 1 \in 1..Len(chain) /\ dnode = chain[1]
  BY <1>1, <1>2 DEF CellOf
<1>4. k = 1
  BY <1>1, <1>2, <1>3 DEF Injective
<1> QED
  BY <1>2, <1>3, <1>4 DEF DestroyNode

(* Every call of the list keeps pointers and memory consistent.            *)
LEMMA StepInv == ListConsistent /\ [ListStep]_nodeVars => ListConsistent'
<1> SUFFICES ASSUME ListConsistent, [ListStep]_nodeVars PROVE ListConsistent'
  OBVIOUS
<1>1. ASSUME NEW n \in Nodes, NEW x \in Items, NEW k \in 1..(Len(chain) + 1),
             Adds(n, x, k)
      PROVE  ListConsistent'
  BY <1>1, AddKeeps DEF Adds
<1>2. ASSUME NEW x \in Items, NEW i \in 0..Len(chain), ListAddAfter(x, i)
      PROVE  ListConsistent'
  <2>1. PICK n \in Nodes : Adds(n, x, i + 1)
    BY <1>2, AddAfterAdds
  <2>2. i + 1 \in 1..(Len(chain) + 1)
    BY DEF ListConsistent, ListTypeOK
  <2> QED
    BY <1>1, <2>1, <2>2
<1>3. ASSUME NEW x \in Items, NEW k \in 1..(Len(chain) + 1), ListAddBefore(x, k)
      PROVE  ListConsistent'
  <2>1. PICK n \in Nodes : Adds(n, x, k)
    BY <1>3, AddBeforeAdds
  <2> QED
    BY <1>1, <2>1
<1>4. ASSUME NEW k \in 1..Len(chain), Delete(k)
      PROVE  ListConsistent'
  BY <1>4, DeleteKeeps DEF Delete
<1>5. CASE ListDestroy
  <2>1. chain \in Seq(Nodes) /\ next[HEAD] = CellOf(chain, 1)
    <3>1. chain \in Seq(Nodes) /\ Linked(prev, next, chain) /\ 0 \in 0..Len(chain)
      BY ChainsAreLinked DEF ListConsistent, ListTypeOK
    <3> QED
      BY <3>1 DEF Linked, CellOf
  <2>2. CellOf(chain, 1) \in Nodes \cup {TAIL, NULL}
    BY <2>1 DEF CellOf
  <2>3. ListTypeOK'
    BY <1>5, <2>1, <2>2 DEF ListDestroy, ListConsistent, ListTypeOK, listVars
  <2>4. ChainsAgree'
    BY <1>5, <2>1, ChainsAreLinked DEF ListDestroy, ListConsistent, listVars
  <2>5. MemoryOnce'
    BY <1>5 DEF ListDestroy, ListConsistent, MemoryOnce, listVars
  <2> QED
    BY <2>3, <2>4, <2>5 DEF ListConsistent
<1>6. CASE DestroyNode
  <2>1. /\ 1 \in 1..Len(chain) /\ ListDelNode(1) /\ dnode' = next[dnode]
        /\ listPc' = listPc /\ listPc = "delete"
    BY <1>6, DestroysFirst DEF DestroyNode
  <2> QED
    BY <2>1, DeleteKeeps
<1>7. CASE DestroyEnd
  <2>1. chain \in Seq(Nodes) /\ dnode = CellOf(chain, 1) /\ dnode = TAIL
    BY <1>7, ChainsAreLinked DEF DestroyEnd, ListConsistent, ListTypeOK
  <2>2. Len(chain) = 0
    BY <2>1, NodeAssumption DEF CellOf
  <2>3. ListTypeOK'
    BY <1>7 DEF DestroyEnd, ListConsistent, ListTypeOK
  <2>4. ChainsAgree'
    BY <1>7, <2>2, ChainsAreLinked DEF DestroyEnd, ListConsistent
  <2>5. MemoryOnce'
    BY <1>7 DEF DestroyEnd, ListConsistent, MemoryOnce
  <2> QED
    BY <2>3, <2>4, <2>5 DEF ListConsistent
<1>8. CASE FreeListDestroy
  <2>1. UNCHANGED <<prev, next, item, listSize, dnode, chain>> /\ listPc = "release"
    BY <1>8 DEF FreeListDestroy, listVars
  <2>2. ChainsAgree'
    <3>1. listPc' # "delete"
      BY <1>8 DEF FreeListDestroy
    <3> QED
      BY <2>1, <3>1, ChainsAreLinked DEF ListConsistent
  <2>3. CASE fhead # NULL
    <3>1. /\ os' = os \cup {fhead} /\ fhead' = prev[fhead]
          /\ spare' = Dropped(spare, 1) /\ UNCHANGED <<flen, listPc>>
          /\ spare # <<>> /\ fhead = spare[1] /\ spare \in Seq(Nodes)
      BY <1>8, <2>3 DEF FreeListDestroy, ListConsistent, ListTypeOK, MemoryOnce
    <3>2. 1 \in 1..Len(spare) /\ Len(spare) >= 1
      BY <3>1
    <3>3. /\ spare' \in Seq(Nodes) /\ Len(spare') = Len(spare) - 1
          /\ \A j \in 1..(Len(spare) - 1) : spare'[j] = spare[j + 1]
      <4>1. /\ Dropped(spare, 1) \in Seq(Nodes)
            /\ Len(Dropped(spare, 1)) = Len(spare) - 1
            /\ \A j \in 1..(Len(spare) - 1) : Dropped(spare, 1)[j] = spare[j + 1]
        BY <3>1, <3>2, SpareDropped
      <4> QED
        BY <3>1, <4>1
    <3>4. ASSUME NEW j \in 1..Len(spare')
          PROVE  /\ j + 1 \in 1..Len(spare) /\ spare'[j] = spare[j + 1]
                 /\ spare'[j] # fhead
                 /\ prev[spare'[j]] = IF j = Len(spare') THEN NULL ELSE spare'[j + 1]
      <4>1. j + 1 \in 1..Len(spare) /\ spare'[j] = spare[j + 1] /\ j + 1 # 1
        BY <3>2, <3>3
      <4>2. j # Len(spare') => spare'[j + 1] = spare[j + 2]
        BY <3>2, <3>3
      <4> QED
        BY <3>1, <3>2, <3>3, <4>1, <4>2 DEF ListConsistent, MemoryOnce
    <3>5. fhead' = IF spare' = <<>> THEN NULL ELSE spare'[1]
      BY <3>1, <3>2, <3>3 DEF ListConsistent, MemoryOnce
    <3>6. \A i, j \in 1..Len(spare') : spare'[i] = spare'[j] => i = j
      BY <3>2, <3>3 DEF ListConsistent, MemoryOnce
    <3>7. \A i \in 1..Len(chain) :
            /\ chain[i] \notin os'
            /\ \A j \in 1..Len(spare') : chain[i] # spare'[j]
      BY <3>1, <3>2, <3>4 DEF ListConsistent, MemoryOnce
    <3>8. \A j \in 1..Len(spare') : spare'[j] \notin os'
      BY <3>1, <3>4 DEF ListConsistent, MemoryOnce
    <3>9. MemoryOnce'
      BY <2>1, <3>1, <3>4, <3>5, <3>6, <3>7, <3>8 DEF ListConsistent, MemoryOnce
    <3>10. ListTypeOK'
      <4>1. fhead' \in Nodes \cup {NULL}
        BY <3>3, <3>5
      <4> QED
        BY <2>1, <3>1, <3>3, <4>1 DEF ListConsistent, ListTypeOK
    <3> QED
      BY <2>2, <3>9, <3>10 DEF ListConsistent
  <2>4. CASE fhead = NULL
    <3>1. flen' = 0 /\ listPc' = "idle" /\ UNCHANGED <<os, fhead, spare>>
      BY <1>8, <2>4 DEF FreeListDestroy
    <3>2. spare = <<>>
      <4>1. spare \in Seq(Nodes) /\ (spare # <<>> => fhead = spare[1])
        BY DEF ListConsistent, ListTypeOK, MemoryOnce
      <4>2. spare # <<>> => spare[1] \in Nodes
        BY <4>1
      <4> QED
        BY <2>4, <4>1, <4>2, NodeAssumption
    <3>3. ListTypeOK'
      BY <2>1, <3>1 DEF ListConsistent, ListTypeOK
    <3>4. MemoryOnce'
      BY <2>1, <3>1, <3>2 DEF ListConsistent, MemoryOnce
    <3> QED
      BY <2>2, <3>3, <3>4 DEF ListConsistent
  <2> QED
    BY <2>3, <2>4
<1>9. CASE UNCHANGED nodeVars
  <2>1. ListTypeOK'
    BY <1>9 DEF nodeVars, ListConsistent, ListTypeOK
  <2>2. ChainsAgree'
    BY <1>9, ChainsAreLinked DEF nodeVars, ListConsistent
  <2>3. MemoryOnce'
    BY <1>9 DEF nodeVars, ListConsistent, MemoryOnce
  <2> QED
    BY <2>1, <2>2, <2>3 DEF ListConsistent
<1> QED
  BY <1>2, <1>3, <1>4, <1>5, <1>6, <1>7, <1>8, <1>9 DEF ListStep, Destroying

(* Whatever is added, deleted and destroyed, the list of LinkedList.c can  *)
(* be walked both ways and has the size it says, and no block is ever in   *)
(* the list and on the free list of FreeList.c, or in one of them twice,   *)
(* or in one of them and freed.                                            *)
THEOREM ConsistentCorrect == ListSpec => []ListConsistent
  BY InitInv, StepInv, PTL DEF ListSpec

-----------------------------------------------------------------------------
(* The items of the list, as ItemList sees them.                           *)
ItemsOf == [i \in 1..Len(chain) |-> item[chain[i]]]

(* Adding a node is the abstract insertion.                                *)
LEMMA AddIsInsert ==
  ASSUME ListConsistent, NEW n \in Nodes, NEW x \in Items, NEW k \in 1..(Len(chain) + 1),
         Adds(n, x, k)
  PROVE  AbstractList!Next
<1>1. chain \in Seq(Nodes) /\ item \in [Nodes -> Items \cup {NULL}]
  BY DEF ListConsistent, ListTypeOK
<1>2. /\ item'[n] = x /\ \A m \in Nodes : m # n => item'[m] = item[m]
      /\ \A i \in 1..Len(chain) : chain[i] # n
  BY CreatedIsNew DEF Adds
<1>3. /\ Len(chain') = Len(chain) + 1
      /\ \A j \in 1..(Len(chain) + 1) :
           chain'[j] = IF j < k THEN chain[j] ELSE IF j = k THEN n ELSE chain[j - 1]
  BY <1>1, ChainWith DEF Adds
<1>4. Len(ItemsOf) = Len(chain) /\ Len(chain) \in Nat
  BY <1>1 DEF ItemsOf
<1>5. \A j \in 1..(Len(chain) + 1) :
        item'[chain'[j]] = IF j < k THEN ItemsOf[j]
                           ELSE IF j = k THEN x ELSE ItemsOf[j - 1]
  <2> TAKE j \in 1..(Len(chain) + 1)
  <2>1. CASE j < k
    <3>1. j \in 1..Len(chain) /\ chain[j] \in Nodes /\ chain'[j] = chain[j]
      BY <1>1, <1>3, <2>1
    <3> QED
      BY <1>2, <2>1, <3>1 DEF ItemsOf
  <2>2. CASE j = k
    BY <1>2, <1>3, <2>2
  <2>3. CASE j > k
    <3>1. j - 1 \in 1..Len(chain) /\ chain[j - 1] \in Nodes /\ chain'[j] = chain[j - 1]
      BY <1>1, <1>3, <2>3
    <3> QED
      BY <1>2, <2>3, <3>1 DEF ItemsOf
  <2> QED
    BY <2>1, <2>2, <2>3
<1>6. ItemsOf' = [j \in 1..(Len(ItemsOf) + 1) |->
                   IF j < k THEN ItemsOf[j] ELSE IF j = k THEN x ELSE ItemsOf[j - 1]]
  BY <1>3, <1>4, <1>5 DEF ItemsOf
<1>7. listSize' = listSize + 1
  BY DEF Adds
<1> QED
  BY <1>4, <1>6, <1>7 DEF AbstractList!Next, AbstractList!Insert, AbstractList!With, ItemsOf

(* ListDelNode is the abstract deletion.                                   *)
LEMMA DelIsDelete ==
  ASSUME ListConsistent, NEW k \in 1..Len(chain), ListDelNode(k)
  PROVE  AbstractList!Next
<1>1. chain \in Seq(Nodes) /\ item' = item /\ listSize' = listSize - 1
  BY DEF ListConsistent, ListTypeOK, ListDelNode
<1>2. /\ Len(chain') = Len(chain) - 1
      /\ \A j \in 1..(Len(chain) - 1) :
           chain'[j] = IF j < k THEN chain[j] ELSE chain[j + 1]
  <2>1. /\ Len(Dropped(chain, k)) = Len(chain) - 1
        /\ \A j \in 1..(Len(chain) - 1) :
             Dropped(chain, k)[j] = IF j < k THEN chain[j] ELSE chain[j + 1]
    BY <1>1, DroppedIsSeq
  <2>2. chain' = Dropped(chain, k)
    BY DEF ListDelNode
  <2> QED
    BY <2>1, <2>2
<1>3. Len(ItemsOf) = Len(chain) /\ Len(chain) \in Nat
  BY <1>1 DEF ItemsOf
<1>4. \A j \in 1..(Len(chain) - 1) :
        item'[chain'[j]] = IF j < k THEN ItemsOf[j] ELSE ItemsOf[j + 1]
  BY <1>1, <1>2 DEF ItemsOf
<1>5. ItemsOf' = [j \in 1..(Len(ItemsOf) - 1) |->
                   IF j < k THEN ItemsOf[j] ELSE ItemsOf[j + 1]]
  BY <1>2, <1>3, <1>4 DEF ItemsOf
<1> QED
  BY <1>1, <1>3, <1>5 DEF AbstractList!Next, AbstractList!Delete, AbstractList!Dropped, ItemsOf

(* The list of LinkedList.c, its free list and its pointers, implements a  *)
(* sequence of items with a size: every operation of it inserts one item,  *)
(* deletes one or changes nothing.                                         *)
THEOREM ListCorrect == ListSpec => ItemListSpec
<1>1. ListInit => AbstractList!Init
  BY DEF ListInit, AbstractList!Init
<1>2. ListConsistent /\ [ListStep]_nodeVars => [AbstractList!Next]_(AbstractList!vars)
  <2> SUFFICES ASSUME ListConsistent, [ListStep]_nodeVars
               PROVE  AbstractList!Next \/ UNCHANGED <<ItemsOf, listSize>>
    BY DEF AbstractList!vars, ItemsOf
  <2>1. ASSUME NEW x \in Items, NEW i \in 0..Len(chain), ListAddAfter(x, i)
        PROVE  AbstractList!Next
    <3>1. PICK n \in Nodes : Adds(n, x, i + 1)
      BY <2>1, AddAfterAdds
    <3>2. i + 1 \in 1..(Len(chain) + 1)
      BY DEF ListConsistent, ListTypeOK
    <3> QED
      BY <3>1, <3>2, AddIsInsert
  <2>2. ASSUME NEW x \in Items, NEW k \in 1..(Len(chain) + 1), ListAddBefore(x, k)
        PROVE  AbstractList!Next
    BY <2>2, AddBeforeAdds, AddIsInsert
  <2>3. ASSUME NEW k \in 1..Len(chain), Delete(k)
        PROVE  AbstractList!Next
    BY <2>3, DelIsDelete DEF Delete
  <2>4. CASE ListDestroy
    BY <2>4 DEF ListDestroy, listVars, ItemsOf
  <2>5. CASE DestroyNode
    BY <2>5, DestroysFirst, DelIsDelete
  <2>6. CASE DestroyEnd
    <3>1. chain \in Seq(Nodes) /\ dnode = CellOf(chain, 1) /\ dnode = TAIL
          /\ listSize = Len(chain)
      BY <2>6, ChainsAreLinked DEF DestroyEnd, ListConsistent, ListTypeOK
    <3>2. listSize = 0
      BY <3>1, NodeAssumption DEF CellOf
    <3> QED
      BY <2>6, <3>2 DEF DestroyEnd, ItemsOf
  <2>7. CASE FreeListDestroy
    BY <2>7 DEF FreeListDestroy, listVars, ItemsOf
  <2>8. CASE UNCHANGED nodeVars
    BY <2>8 DEF nodeVars, ItemsOf
  <2> QED
    BY <2>1, <2>2, <2>3, <2>4, <2>5, <2>6, <2>7, <2>8 DEF ListStep, Destroying
<1> QED
  BY <1>1, <1>2, ConsistentCorrect, PTL DEF ListSpec, ItemListSpec, AbstractList!Spec

-----------------------------------------------------------------------------
(* The job queues: BumpPriority never changes the order of the line of     *)
(* jobs, and a new job enters the line behind every job of its priority.   *)

(* A sequence of jobs in which those of one priority keep their order.     *)
InOrder(line, f) ==
  \A i, j \in 1..Len(line) :
    i < j /\ f[line[i]] = f[line[j]] => line[i] < line[j]

(* Every job in the pool has a number and a priority.                      *)
JobsKnown ==
  /\ prio \in Seq(Queues)
  /\ picked \in Seq(Nat) /\ queue \in [Queues -> Seq(Nat)]
  /\ \A i \in 1..Len(picked) : picked[i] \in 1..Len(prio)
  /\ \A p \in Queues : \A i \in 1..Len(queue[p]) : queue[p][i] \in 1..Len(prio)

(* Jobs only move up: a queue holds no job of a higher priority.           *)
OnlyMovedUp ==
  /\ \A i \in 1..Len(queue["med"]) : prio[queue["med"][i]] # "high"
  /\ \A i \in 1..Len(queue["low"]) : prio[queue["low"][i]] = "low"

PrioInv == JobsKnown /\ OnlyMovedUp /\ SamePriorityInOrder

(* The elements of a queue that loses its head or gains a last one.        *)
LEMMA HeadAndTail ==
  ASSUME NEW s \in Seq(Nat), s # <<>>
  PROVE  /\ Head(s) \in Nat /\ Head(s) = s[1] /\ 1 \in 1..Len(s)
         /\ Tail(s) \in Seq(Nat)
         /\ \A i \in 1..Len(Tail(s)) : i + 1 \in 1..Len(s) /\ Tail(s)[i] = s[i + 1]
OBVIOUS

(* The elements of a queue that gains a job.                               *)
LEMMA Appended ==
  ASSUME NEW s \in Seq(Nat), NEW n \in Nat
  PROVE  /\ Append(s, n) \in Seq(Nat)
         /\ \A i \in 1..Len(Append(s, n)) :
              Append(s, n)[i] = n \/ (i \in 1..Len(s) /\ Append(s, n)[i] = s[i])
OBVIOUS

(* The elements of two queues in a row.                                    *)
LEMMA Concatenated ==
  ASSUME NEW s \in Seq(Nat), NEW t \in Seq(Nat)
  PROVE  /\ s \o t \in Seq(Nat)
         /\ \A i \in 1..Len(s \o t) :
              \/ i \in 1..Len(s) /\ (s \o t)[i] = s[i]
              \/ \E k \in 1..Len(t) : (s \o t)[i] = t[k]
OBVIOUS

(* Three queues in a row.                                                  *)
LEMMA Associative ==
  \A s, t, u \in Seq(Nat) : (s \o t) \o u = s \o (t \o u)
OBVIOUS

(* ListDelNode of the head and ListAddTail to the queue before it.         *)
LEMMA MoveHead ==
  ASSUME NEW a \in Seq(Nat), NEW b \in Seq(Nat), b # <<>>
  PROVE  Append(a, Head(b)) \o Tail(b) = a \o b
OBVIOUS

(* A job appended to the second of two queues.                             *)
LEMMA AppendLast ==
  ASSUME NEW a \in Seq(Nat), NEW b \in Seq(Nat), NEW n \in Nat
  PROVE  a \o Append(b, n) = Append(a \o b, n)
OBVIOUS

(* A new largest number keeps the order if nothing behind it has its       *)
(* priority.                                                               *)
LEMMA EntersLast ==
  ASSUME NEW a \in Seq(Nat), NEW n \in Nat, NEW f, NEW g,
         \A i \in 1..Len(a) : a[i] < n /\ g[a[i]] = f[a[i]],
         InOrder(a, f)
  PROVE  InOrder(Append(a, n), g)
<1>1. /\ Len(Append(a, n)) = Len(a) + 1 /\ Append(a, n)[Len(a) + 1] = n
      /\ \A i \in 1..Len(a) : Append(a, n)[i] = a[i]
  OBVIOUS
<1> DEFINE t == Append(a, n)
<1>2. \A i, j \in 1..Len(t) : i < j => i \in 1..Len(a) /\ (j \in 1..Len(a) \/ j = Len(a) + 1)
  BY <1>1
<1> HIDE DEF t
<1>3. Len(t) = Len(a) + 1 /\ t[Len(a) + 1] = n /\ \A i \in 1..Len(a) : t[i] = a[i]
  BY <1>1 DEF t
<1>4. \A i, j \in 1..Len(t) : i < j /\ g[t[i]] = g[t[j]] => t[i] < t[j]
  BY <1>2, <1>3 DEF InOrder
<1> QED
  BY <1>4 DEF InOrder, t

(* The newest job may enter in front of jobs of other priorities.          *)
LEMMA EntersInOrder ==
  ASSUME NEW a \in Seq(Nat), NEW b \in Seq(Nat), NEW n \in Nat, NEW f, NEW g,
         \A i \in 1..Len(a) : a[i] < n /\ g[a[i]] = f[a[i]],
         \A i \in 1..Len(b) : b[i] < n /\ g[b[i]] = f[b[i]] /\ f[b[i]] # g[n],
         InOrder(a \o b, f)
  PROVE  InOrder(Append(a, n) \o b, g)
<1> DEFINE s == a \o b
           t == Append(a, n) \o b
<1>1. /\ Len(s) = Len(a) + Len(b) /\ Len(t) = Len(a) + 1 + Len(b)
      /\ \A i \in 1..Len(a) : s[i] = a[i] /\ t[i] = a[i]
      /\ t[Len(a) + 1] = n
      /\ \A i \in 1..Len(b) : s[Len(a) + i] = b[i] /\ t[Len(a) + 1 + i] = b[i]
  OBVIOUS
<1>2. Len(a) \in Nat /\ Len(b) \in Nat
  OBVIOUS
<1>2a. \A x, y \in 1..Len(s) : x < y /\ f[s[x]] = f[s[y]] => s[x] < s[y]
  BY DEF InOrder
<1> HIDE DEF s, t
<1> SUFFICES ASSUME NEW i \in 1..Len(t), NEW j \in 1..Len(t),
                    i < j, g[t[i]] = g[t[j]]
             PROVE  t[i] < t[j]
  BY DEF InOrder, t
<1>3. \A k \in 1..Len(t) :
        k > Len(a) + 1 => k - 1 - Len(a) \in 1..Len(b) /\ t[k] = b[k - 1 - Len(a)]
                          /\ t[k] = s[k - 1]
  <2> SUFFICES ASSUME NEW k \in 1..Len(t), k > Len(a) + 1
               PROVE  k - 1 - Len(a) \in 1..Len(b) /\ t[k] = b[k - 1 - Len(a)]
                      /\ t[k] = s[k - 1]
    OBVIOUS
  <2>1. k - 1 - Len(a) \in 1..Len(b)
    BY <1>1, <1>2
  <2>2. /\ t[Len(a) + 1 + (k - 1 - Len(a))] = b[k - 1 - Len(a)]
        /\ s[Len(a) + (k - 1 - Len(a))] = b[k - 1 - Len(a)]
    BY <1>1, <2>1
  <2>3. Len(a) + 1 + (k - 1 - Len(a)) = k /\ Len(a) + (k - 1 - Len(a)) = k - 1
    BY <1>1, <1>2
  <2> QED
    BY <2>1, <2>2, <2>3
<1>4. CASE i = Len(a) + 1
  <2>1. j > Len(a) + 1 /\ t[i] = n
    BY <1>1, <1>2, <1>4
  <2>2. j - 1 - Len(a) \in 1..Len(b) /\ t[j] = b[j - 1 - Len(a)]
    BY <1>3, <2>1
  <2>3. g[t[j]] # g[n]
    BY <2>2
  <2> QED
    BY <2>1, <2>3
<1>5. CASE j = Len(a) + 1
  <2>1. i \in 1..Len(a)
    BY <1>1, <1>2, <1>5
  <2> QED
    BY <1>1, <1>5, <2>1
<1>6. CASE j < Len(a) + 1
  <2>1. i \in 1..Len(a) /\ j \in 1..Len(a) /\ i \in 1..Len(s) /\ j \in 1..Len(s)
    BY <1>1, <1>2, <1>6
  <2>2. s[i] = t[i] /\ s[j] = t[j] /\ f[s[i]] = f[s[j]]
    BY <1>1, <2>1
  <2> QED
    BY <1>2a, <2>1, <2>2
<1>7. CASE i < Len(a) + 1 /\ j > Len(a) + 1
  <2>1. i \in 1..Len(a) /\ i \in 1..Len(s) /\ j - 1 \in 1..Len(s) /\ i < j - 1
    BY <1>1, <1>2, <1>7
  <2>2. s[i] = t[i] /\ t[i] = a[i] /\ s[j - 1] = t[j]
    BY <1>1, <1>3, <1>7, <2>1
  <2>3. g[t[i]] = f[t[i]] /\ g[t[j]] = f[t[j]]
    BY <1>3, <1>7, <2>1, <2>2
  <2>4. f[s[i]] = f[s[j - 1]]
    BY <2>2, <2>3
  <2>5. s[i] < s[j - 1]
    BY <1>2a, <2>1, <2>4
  <2> QED
    BY <2>2, <2>5
<1>8. CASE i > Len(a) + 1
  <2>1. i - 1 \in 1..Len(s) /\ j - 1 \in 1..Len(s) /\ i - 1 < j - 1
    BY <1>1, <1>2, <1>8
  <2>2. j > Len(a) + 1 /\ s[i - 1] = t[i] /\ s[j - 1] = t[j]
    BY <1>2, <1>3, <1>1, <1>8
  <2>3. g[t[i]] = f[t[i]] /\ g[t[j]] = f[t[j]]
    BY <1>3, <1>8, <2>2
  <2>4. f[s[i - 1]] = f[s[j - 1]]
    BY <2>2, <2>3
  <2>5. s[i - 1] < s[j - 1]
    BY <1>2a, <2>1, <2>4
  <2> QED
    BY <2>2, <2>5
<1>9. \/ i = Len(a) + 1 \/ j = Len(a) + 1 \/ j < Len(a) + 1
      \/ (i < Len(a) + 1 /\ j > Len(a) + 1) \/ i > Len(a) + 1
  <2>1. i \in Int /\ j \in Int /\ Len(a) \in Int
    BY <1>2
  <2> QED
    BY <2>1
<1> QED
  BY <1>4, <1>5, <1>6, <1>7, <1>8, <1>9

(* A step that leaves the line as it is keeps the order of the jobs.       *)
LEMMA SameLine ==
  ASSUME SamePriorityInOrder, Line' = Line, prio' = prio
  PROVE  SamePriorityInOrder'
  BY DEF SamePriorityInOrder

(* BumpPriority moves the head of a queue to the tail of the one before.   *)
LEMMA BumpKeeps ==
  ASSUME PrioInv, BumpMed \/ BumpLow
  PROVE  PrioInv'
<1>1. /\ picked \in Seq(Nat) /\ queue["high"] \in Seq(Nat) /\ queue["med"] \in Seq(Nat)
      /\ queue["low"] \in Seq(Nat)
      /\ picked \o queue["high"] \in Seq(Nat)
      /\ (picked \o queue["high"]) \o queue["med"] \in Seq(Nat)
  BY DEF PrioInv, JobsKnown, Queues
<1>2. CASE BumpMed
  <2> DEFINE h == Head(queue["med"])
             a == picked
  <2>1. /\ queue["med"] # <<>> /\ prio' = prio /\ picked' = picked
        /\ queue' = [queue EXCEPT !["med"] = Tail(@), !["high"] = Append(@, h)]
    BY <1>2 DEF BumpMed, MedStarved, Move
  <2>2. /\ h \in Nat /\ h = queue["med"][1] /\ 1 \in 1..Len(queue["med"])
        /\ Tail(queue["med"]) \in Seq(Nat)
        /\ \A i \in 1..Len(Tail(queue["med"])) :
             /\ i + 1 \in 1..Len(queue["med"])
             /\ Tail(queue["med"])[i] = queue["med"][i + 1]
    BY <1>1, <2>1, HeadAndTail
  <2>3. Append(a \o queue["high"], h) \o Tail(queue["med"])
          = (a \o queue["high"]) \o queue["med"]
    BY <1>1, <2>1, MoveHead
  <2> HIDE DEF h
  <2>4. /\ Append(queue["high"], h) \in Seq(Nat)
        /\ \A i \in 1..Len(Append(queue["high"], h)) :
             \/ Append(queue["high"], h)[i] = h
             \/ /\ i \in 1..Len(queue["high"])
                /\ Append(queue["high"], h)[i] = queue["high"][i]
    BY <1>1, <2>2, Appended
  <2>5. /\ queue' \in [Queues -> Seq(Nat)]
        /\ \A r \in Queues : queue'[r] = IF r = "med" THEN Tail(queue["med"])
                                         ELSE IF r = "high" THEN Append(queue["high"], h)
                                         ELSE queue[r]
    BY <2>1, <2>2, <2>4 DEF PrioInv, JobsKnown, Queues
  <2>6. a \o Append(queue["high"], h) = Append(a \o queue["high"], h)
    BY <1>1, <2>2, AppendLast
  <2>7. Line' = Line
    BY <2>1, <2>3, <2>5, <2>6 DEF Line, Queues
  <2>8. JobsKnown'
    BY <2>1, <2>2, <2>4, <2>5 DEF PrioInv, JobsKnown, Queues
  <2>9. OnlyMovedUp'
    <3>1. queue'["med"] = Tail(queue["med"]) /\ queue'["low"] = queue["low"]
      BY <2>5 DEF Queues
    <3>2. /\ \A i \in 1..Len(Tail(queue["med"])) : prio[Tail(queue["med"])[i]] # "high"
          /\ \A i \in 1..Len(queue["low"]) : prio[queue["low"][i]] = "low"
      BY <2>2, <2>4 DEF PrioInv, OnlyMovedUp
    <3> QED
      BY <2>1, <3>1, <3>2 DEF OnlyMovedUp
  <2> QED
    BY <2>1, <2>7, <2>8, <2>9, SameLine DEF PrioInv
<1>3. CASE BumpLow
  <2> DEFINE h == Head(queue["low"])
             a == picked \o queue["high"]
  <2>1. /\ queue["low"] # <<>> /\ prio' = prio /\ picked' = picked
        /\ queue' = [queue EXCEPT !["low"] = Tail(@), !["med"] = Append(@, h)]
    BY <1>3 DEF BumpLow, LowStarved, Move
  <2>2. /\ h \in Nat /\ h = queue["low"][1] /\ 1 \in 1..Len(queue["low"])
        /\ Tail(queue["low"]) \in Seq(Nat)
        /\ \A i \in 1..Len(Tail(queue["low"])) :
             /\ i + 1 \in 1..Len(queue["low"])
             /\ Tail(queue["low"])[i] = queue["low"][i + 1]
    BY <1>1, <2>1, HeadAndTail
  <2>3. Append(a \o queue["med"], h) \o Tail(queue["low"])
          = (a \o queue["med"]) \o queue["low"]
    BY <1>1, <2>1, MoveHead
  <2> HIDE DEF h
  <2>4. /\ Append(queue["med"], h) \in Seq(Nat)
        /\ \A i \in 1..Len(Append(queue["med"], h)) :
             \/ Append(queue["med"], h)[i] = h
             \/ /\ i \in 1..Len(queue["med"])
                /\ Append(queue["med"], h)[i] = queue["med"][i]
    BY <1>1, <2>2, Appended
  <2>5. /\ queue' \in [Queues -> Seq(Nat)]
        /\ \A r \in Queues : queue'[r] = IF r = "low" THEN Tail(queue["low"])
                                         ELSE IF r = "med" THEN Append(queue["med"], h)
                                         ELSE queue[r]
    BY <2>1, <2>2, <2>4 DEF PrioInv, JobsKnown, Queues
  <2>6. a \o Append(queue["med"], h) = Append(a \o queue["med"], h)
    BY <1>1, <2>2, AppendLast
  <2>7. Line' = Line
    BY <2>1, <2>3, <2>5, <2>6 DEF Line, Queues
  <2>8. JobsKnown'
    BY <2>1, <2>2, <2>4, <2>5 DEF PrioInv, JobsKnown, Queues
  <2>9. OnlyMovedUp'
    <3>1. queue'["med"] = Append(queue["med"], h) /\ queue'["low"] = Tail(queue["low"])
      BY <2>5 DEF Queues
    <3>2. /\ \A i \in 1..Len(Append(queue["med"], h)) : prio[Append(queue["med"], h)[i]] # "high"
          /\ \A i \in 1..Len(Tail(queue["low"])) : prio[Tail(queue["low"])[i]] = "low"
      BY <2>2, <2>4 DEF PrioInv, OnlyMovedUp
    <3> QED
      BY <2>1, <3>1, <3>2 DEF OnlyMovedUp
  <2> QED
    BY <2>1, <2>7, <2>8, <2>9, SameLine DEF PrioInv
<1> QED
  BY <1>2, <1>3

(* The head of the line is picked up.                                      *)
LEMMA PickKeeps ==
  ASSUME PrioInv, NEW p \in Queues, Pick(p)
  PROVE  PrioInv'
<1>1. /\ picked \in Seq(Nat) /\ queue["high"] \in Seq(Nat) /\ queue["med"] \in Seq(Nat)
      /\ queue["low"] \in Seq(Nat) /\ queue[p] \in Seq(Nat)
  BY DEF PrioInv, JobsKnown, Queues
<1> DEFINE h == Head(queue[p])
<1>2. /\ queue[p] # <<>> /\ prio' = prio /\ picked' = Append(picked, h)
      /\ queue' = [queue EXCEPT ![p] = Tail(@)]
  BY DEF Pick
<1>3. /\ h \in Nat /\ h = queue[p][1] /\ 1 \in 1..Len(queue[p])
      /\ Tail(queue[p]) \in Seq(Nat)
      /\ \A i \in 1..Len(Tail(queue[p])) :
           i + 1 \in 1..Len(queue[p]) /\ Tail(queue[p])[i] = queue[p][i + 1]
  BY <1>1, <1>2, HeadAndTail
<1>4. /\ queue' \in [Queues -> Seq(Nat)]
      /\ \A r \in Queues : queue'[r] = IF r = p THEN Tail(queue[p]) ELSE queue[r]
  BY <1>2, <1>3 DEF PrioInv, JobsKnown
<1>5. Append(picked, h) \o Tail(queue[p]) = picked \o queue[p]
  BY <1>1, <1>2, MoveHead
<1>6. Line' = Line
  <2>1. CASE p = "high"
    BY <1>2, <1>4, <1>5, <2>1 DEF Line, Queues
  <2>2. CASE p = "med"
    <3>1. queue["high"] = <<>>
      BY <2>2 DEF Pick
    <3>2. picked \o <<>> = picked /\ Append(picked, h) \o <<>> = Append(picked, h)
      BY <1>1, <1>3
    <3> QED
      BY <1>2, <1>4, <1>5, <2>2, <3>1, <3>2 DEF Line, Queues
  <2>3. CASE p = "low"
    <3>1. queue["high"] = <<>> /\ queue["med"] = <<>>
      BY <2>3 DEF Pick
    <3>2. picked \o <<>> = picked /\ Append(picked, h) \o <<>> = Append(picked, h)
      BY <1>1, <1>3
    <3> QED
      BY <1>2, <1>4, <1>5, <2>3, <3>1, <3>2 DEF Line, Queues
  <2> QED
    BY <2>1, <2>2, <2>3 DEF Queues
<1> HIDE DEF h
<1>7. /\ Append(picked, h) \in Seq(Nat)
      /\ \A i \in 1..Len(Append(picked, h)) :
           Append(picked, h)[i] = h \/ (i \in 1..Len(picked) /\ Append(picked, h)[i] = picked[i])
  BY <1>1, <1>3, Appended
<1>8. JobsKnown'
  BY <1>2, <1>3, <1>4, <1>7 DEF PrioInv, JobsKnown, Queues
<1>9. OnlyMovedUp'
  <2>1. \A r \in Queues : \A i \in 1..Len(queue'[r]) :
          \E k \in 1..Len(queue[r]) : queue'[r][i] = queue[r][k]
    BY <1>3, <1>4
  <2> QED
    BY <1>2, <2>1 DEF PrioInv, OnlyMovedUp, Queues
<1> QED
  BY <1>2, <1>6, <1>8, <1>9, SameLine DEF PrioInv

(* ThreadPoolAdd puts a job behind its own queue: every job that is behind *)
(* it in the line then has a lower priority.                               *)
LEMMA AddKeepsOrder ==
  ASSUME PrioInv, NEW p \in Queues, AddJob(p)
  PROVE  PrioInv'
<1> DEFINE n == Len(prio) + 1
           h == queue["high"]
           m == queue["med"]
           l == queue["low"]
<1>1. /\ prio \in Seq(Queues) /\ picked \in Seq(Nat)
      /\ h \in Seq(Nat) /\ m \in Seq(Nat) /\ l \in Seq(Nat) /\ queue[p] \in Seq(Nat)
  BY DEF PrioInv, JobsKnown, Queues
<1>2. /\ prio' = Append(prio, p) /\ queue' = [queue EXCEPT ![p] = Append(@, n)]
      /\ picked' = picked /\ n \in Nat
  BY <1>1 DEF AddJob
<1>3. /\ prio' \in Seq(Queues) /\ Len(prio') = n /\ prio'[n] = p
      /\ \A k \in 1..Len(prio) : k < n /\ k \in 1..n /\ prio'[k] = prio[k]
  BY <1>1, <1>2
<1> HIDE DEF n
<1>4. /\ Append(queue[p], n) \in Seq(Nat)
      /\ \A i \in 1..Len(Append(queue[p], n)) :
           \/ Append(queue[p], n)[i] = n
           \/ i \in 1..Len(queue[p]) /\ Append(queue[p], n)[i] = queue[p][i]
  BY <1>1, <1>2, Appended
<1>5. /\ queue' \in [Queues -> Seq(Nat)]
      /\ \A r \in Queues : queue'[r] = IF r = p THEN Append(queue[p], n) ELSE queue[r]
  BY <1>2, <1>4 DEF PrioInv, JobsKnown
<1>6. JobsKnown'
  <2>1. n \in 1..n
    BY <1>2, <1>3, <1>1 DEF n
  <2>2. \A i \in 1..Len(picked) : picked[i] \in 1..n
    BY <1>3 DEF PrioInv, JobsKnown
  <2>3. \A r \in Queues : \A i \in 1..Len(queue[r]) : queue[r][i] \in 1..n
    BY <1>3 DEF PrioInv, JobsKnown
  <2>4. \A r \in Queues : \A i \in 1..Len(queue'[r]) : queue'[r][i] \in 1..n
    BY <1>4, <1>5, <2>1, <2>3
  <2> QED
    BY <1>1, <1>2, <1>3, <1>5, <2>2, <2>4 DEF JobsKnown
<1>7. OnlyMovedUp'
  <2>1. \A r \in Queues : \A i \in 1..Len(queue[r]) : prio'[queue[r][i]] = prio[queue[r][i]]
    BY <1>3 DEF PrioInv, JobsKnown
  <2>2. \A r \in Queues : \A i \in 1..Len(queue'[r]) :
          \/ r = p /\ queue'[r][i] = n
          \/ \E k \in 1..Len(queue[r]) : queue'[r][i] = queue[r][k]
    BY <1>4, <1>5
  <2>3. "med" \in Queues /\ "low" \in Queues
    BY DEF Queues
  <2>4. \A i \in 1..Len(queue'["med"]) : prio'[queue'["med"][i]] # "high"
    <3> SUFFICES ASSUME NEW i \in 1..Len(queue'["med"]) PROVE prio'[queue'["med"][i]] # "high"
      OBVIOUS
    <3>1. CASE "med" = p /\ queue'["med"][i] = n
      BY <1>3, <3>1
    <3>2. CASE \E k \in 1..Len(queue["med"]) : queue'["med"][i] = queue["med"][k]
      BY <2>1, <2>3, <3>2 DEF PrioInv, OnlyMovedUp
    <3> QED
      BY <2>2, <2>3, <3>1, <3>2, Zenon
  <2>5. \A i \in 1..Len(queue'["low"]) : prio'[queue'["low"][i]] = "low"
    <3> SUFFICES ASSUME NEW i \in 1..Len(queue'["low"]) PROVE prio'[queue'["low"][i]] = "low"
      OBVIOUS
    <3>1. CASE "low" = p /\ queue'["low"][i] = n
      BY <1>3, <3>1
    <3>2. CASE \E k \in 1..Len(queue["low"]) : queue'["low"][i] = queue["low"][k]
      BY <2>1, <2>3, <3>2 DEF PrioInv, OnlyMovedUp
    <3> QED
      BY <2>2, <2>3, <3>1, <3>2, Zenon
  <2> QED
    BY <2>4, <2>5 DEF OnlyMovedUp
<1>8. SamePriorityInOrder'
  <2>1. InOrder(Line, prio)
    BY DEF PrioInv, SamePriorityInOrder, InOrder
  <2>2. /\ \A i \in 1..Len(picked) : picked[i] < n /\ prio'[picked[i]] = prio[picked[i]]
        /\ \A r \in Queues : \A i \in 1..Len(queue[r]) :
             queue[r][i] < n /\ prio'[queue[r][i]] = prio[queue[r][i]]
    BY <1>3 DEF PrioInv, JobsKnown
  <2>3. /\ \A i \in 1..Len(h) : h[i] < n /\ prio'[h[i]] = prio[h[i]]
        /\ \A i \in 1..Len(m) :
             m[i] < n /\ prio'[m[i]] = prio[m[i]] /\ prio[m[i]] # "high"
        /\ \A i \in 1..Len(l) :
             l[i] < n /\ prio'[l[i]] = prio[l[i]] /\ prio[l[i]] = "low"
    BY <2>2 DEF PrioInv, OnlyMovedUp, Queues
  <2> HIDE DEF h, m, l
  <2>4. /\ picked \o h \in Seq(Nat) /\ (picked \o h) \o m \in Seq(Nat) /\ m \o l \in Seq(Nat)
        /\ ((picked \o h) \o m) \o l \in Seq(Nat)
        /\ ((picked \o h) \o m) \o l = (picked \o h) \o (m \o l)
    <3> DEFINE u == picked \o h
    <3>1. u \in Seq(Nat) /\ m \o l \in Seq(Nat)
      BY <1>1, Concatenated, Zenon
    <3> HIDE DEF u
    <3>2. u \o m \in Seq(Nat)
      BY <1>1, <3>1, Concatenated, Zenon
    <3>3. (u \o m) \o l \in Seq(Nat)
      BY <1>1, <3>2, Concatenated, Zenon
    <3>4. (u \o m) \o l = u \o (m \o l)
      <4>1. u \in Seq(Nat) /\ m \in Seq(Nat) /\ l \in Seq(Nat)
        BY <1>1, <3>1
      <4> QED
        BY <4>1, Associative, ZenonT(20)
    <3> QED
      BY <3>1, <3>2, <3>3, <3>4 DEF u
  <2>5. \A i \in 1..Len(picked \o h) :
          (picked \o h)[i] < n /\ prio'[(picked \o h)[i]] = prio[(picked \o h)[i]]
    <3>1. \A i \in 1..Len(picked \o h) :
            \/ i \in 1..Len(picked) /\ (picked \o h)[i] = picked[i]
            \/ \E k \in 1..Len(h) : (picked \o h)[i] = h[k]
      BY <1>1, Concatenated, Zenon
    <3> QED
      BY <2>2, <2>3, <3>1, SMTT(30)
  <2>6. \A i \in 1..Len((picked \o h) \o m) :
          /\ ((picked \o h) \o m)[i] < n
          /\ prio'[((picked \o h) \o m)[i]] = prio[((picked \o h) \o m)[i]]
    <3>1. \A i \in 1..Len((picked \o h) \o m) :
            \/ i \in 1..Len(picked \o h) /\ ((picked \o h) \o m)[i] = (picked \o h)[i]
            \/ \E k \in 1..Len(m) : ((picked \o h) \o m)[i] = m[k]
      BY <1>1, <2>4, Concatenated, Zenon
    <3> QED
      BY <2>3, <2>5, <3>1, SMTT(30)
  <2>7. \A i \in 1..Len(m \o l) :
          /\ (m \o l)[i] < n /\ prio'[(m \o l)[i]] = prio[(m \o l)[i]]
          /\ prio[(m \o l)[i]] # "high"
    <3>1. \A i \in 1..Len(m \o l) :
            \/ i \in 1..Len(m) /\ (m \o l)[i] = m[i]
            \/ \E k \in 1..Len(l) : (m \o l)[i] = l[k]
      BY <1>1, Concatenated, Zenon
    <3> QED
      BY <2>3, <3>1, SMTT(30)
  <2>8. Line = ((picked \o h) \o m) \o l
    BY DEF Line, h, m, l
  <2>9. CASE p = "high"
    <3>1. Line' = (Append(picked \o h, n) \o m) \o l
      <4>1. Line' = ((picked \o Append(h, n)) \o m) \o l
        BY <1>2, <1>5, <2>9 DEF Line, h, m, l, Queues
      <4> QED
        BY <1>1, <1>2, <4>1, AppendLast
    <3> DEFINE u == picked \o h
               v == m \o l
               w == Append(u, n)
    <3>2. u \in Seq(Nat) /\ v \in Seq(Nat) /\ w \in Seq(Nat)
      BY <1>2, <2>4
    <3>3. Line' = (w \o m) \o l /\ InOrder(u \o v, prio)
      BY <2>1, <2>4, <2>8, <3>1
    <3>4. \A i \in 1..Len(u) : u[i] < n /\ prio'[u[i]] = prio[u[i]]
      BY <2>5
    <3>5. \A i \in 1..Len(v) : v[i] < n /\ prio'[v[i]] = prio[v[i]] /\ prio[v[i]] # prio'[n]
      <4>1. prio'[n] = "high"
        BY <1>3, <2>9
      <4>2. \A i \in 1..Len(v) :
              v[i] < n /\ prio'[v[i]] = prio[v[i]] /\ prio[v[i]] # "high"
        BY <2>7
      <4> HIDE DEF v
      <4> QED
        BY <4>1, <4>2
    <3>6. w = Append(u, n) /\ (w \o m) \o l = w \o v
      <4> HIDE DEF u, w
      <4>1. w \in Seq(Nat) /\ m \in Seq(Nat) /\ l \in Seq(Nat)
        BY <1>1, <3>2
      <4>2. (w \o m) \o l = w \o (m \o l)
        BY <4>1, Associative, ZenonT(20)
      <4> QED
        BY <4>2 DEF w
    <3>7. n \in Nat /\ u \in Seq(Nat) /\ v \in Seq(Nat)
      BY <1>2, <3>2
    <3>8. InOrder(u \o v, prio)
      BY <3>3
    <3> HIDE DEF u, v, w
    <3>9. InOrder(Append(u, n) \o v, prio')
      BY <3>4, <3>5, <3>7, <3>8, EntersInOrder, ZenonT(30)
    <3>10. InOrder(Line', prio')
      BY <3>3, <3>6, <3>9, Zenon
    <3> QED
      BY <3>10 DEF InOrder, SamePriorityInOrder
  <2> DEFINE a == (picked \o h) \o m
             b == a \o l
  <2>10. /\ a \in Seq(Nat) /\ b \in Seq(Nat) /\ l \in Seq(Nat)
         /\ \A i \in 1..Len(a) : a[i] < n /\ prio'[a[i]] = prio[a[i]]
         /\ InOrder(a \o l, prio)
    BY <1>1, <2>1, <2>4, <2>6, <2>8
  <2>11. CASE p = "med"
    <3>1. Line' = Append(a, n) \o l
      <4>1. Line' = ((picked \o h) \o Append(m, n)) \o l
        BY <1>2, <1>5, <2>11 DEF Line, h, m, l, Queues
      <4> QED
        BY <1>1, <1>2, <2>4, <4>1, AppendLast
    <3> HIDE DEF a
    <3>2. \A i \in 1..Len(l) :
            l[i] < n /\ prio'[l[i]] = prio[l[i]] /\ prio[l[i]] # prio'[n]
      BY <1>3, <2>3, <2>11
    <3>3. InOrder(Append(a, n) \o l, prio')
      BY <1>2, <2>10, <3>2, EntersInOrder, Zenon
    <3> QED
      BY <3>1, <3>3 DEF InOrder, SamePriorityInOrder
  <2>12. CASE p = "low"
    <3>1. Line' = Append(b, n)
      <4>1. Line' = ((picked \o h) \o m) \o Append(l, n)
        BY <1>2, <1>5, <2>12 DEF Line, h, m, l, Queues
      <4> QED
        BY <1>1, <1>2, <2>4, <4>1, AppendLast
    <3> HIDE DEF a
    <3>2. \A i \in 1..Len(b) : b[i] < n /\ prio'[b[i]] = prio[b[i]]
      <4>1. \A i \in 1..Len(b) : \/ i \in 1..Len(a) /\ b[i] = a[i]
                                 \/ \E k \in 1..Len(l) : b[i] = l[k]
        BY <2>10, Concatenated
      <4> QED
        BY <2>3, <2>10, <4>1
    <3> HIDE DEF b
    <3>3. b \in Seq(Nat) /\ InOrder(b, prio)
      BY <2>10 DEF b
    <3>4. InOrder(Append(b, n), prio')
      BY <1>2, <3>2, <3>3, EntersLast, Zenon
    <3> QED
      BY <3>1, <3>4 DEF InOrder, SamePriorityInOrder
  <2> QED
    BY <2>9, <2>11, <2>12 DEF Queues
<1> QED
  BY <1>6, <1>7, <1>8 DEF PrioInv

(* Empty queues are in order.                                              *)
LEMMA PrioInitInv == PrioInit => PrioInv
<1> SUFFICES ASSUME PrioInit PROVE PrioInv
  OBVIOUS
<1>1. /\ prio = <<>> /\ picked = <<>> /\ queue = [p \in Queues |-> <<>>]
  BY DEF PrioInit
<1>2. Len(Line) = 0
  BY <1>1 DEF Line, Queues
<1> QED
  BY <1>1, <1>2 DEF PrioInv, JobsKnown, OnlyMovedUp, SamePriorityInOrder, Queues

(* Adding, bumping and picking keep the order.                             *)
LEMMA PrioStepInv == PrioInv /\ [PrioNext]_prioVars => PrioInv'
<1> SUFFICES ASSUME PrioInv, [PrioNext]_prioVars PROVE PrioInv'
  OBVIOUS
<1>1. CASE UNCHANGED <<queue, prio, picked>>
  <2>1. JobsKnown' /\ OnlyMovedUp'
    BY <1>1 DEF PrioInv, JobsKnown, OnlyMovedUp
  <2>2. Line' = Line
    BY <1>1 DEF Line
  <2> QED
    BY <1>1, <2>1, <2>2, SameLine DEF PrioInv
<1>2. CASE \E t \in 0..MaxClock : SetClock(t)
  BY <1>1, <1>2 DEF SetClock
<1>3. CASE \E p \in Queues : AddJob(p)
  BY <1>3, AddKeepsOrder
<1>4. CASE BumpPriority \/ BumpDone
  BY <1>1, <1>4 DEF BumpPriority, BumpDone
<1>5. CASE BumpMed \/ BumpLow
  BY <1>5, BumpKeeps
<1>6. CASE \E p \in Queues : Pick(p)
  BY <1>6, PickKeeps
<1>7. CASE UNCHANGED prioVars
  BY <1>1, <1>7 DEF prioVars
<1> QED
  BY <1>2, <1>3, <1>4, <1>5, <1>6, <1>7 DEF PrioNext, Worker

(* No job overtakes one of its own priority, for any starvation and idle   *)
(* times, any number of jobs and any behaviour of the wall clock.          *)
THEOREM OrderCorrect == PrioSpec => []SamePriorityInOrder
<1>1. PrioInv => SamePriorityInOrder
  BY DEF PrioInv
<1> QED
  BY <1>1, PrioInitInv, PrioStepInv, PTL DEF PrioSpec

-----------------------------------------------------------------------------
(* The composition: a behaviour of it is a behaviour of each structure.    *)
(* What the run of Structures checks therefore holds for every size.       *)
THEOREM StructuresCorrect ==
  StructSpec => /\ []WriteInBlock /\ []UsedInside
                /\ []VecTypeOK /\ []AddOverrunsOnlyTiny
                /\ PinnedStays /\ VectorSpec
                /\ []ListConsistent /\ ItemListSpec
                /\ []SamePriorityInOrder
<1>1. StructInit => BufInit /\ ListInit /\ VecInit /\ PrioInit
  BY DEF StructInit
<1>2. [StructNext]_structVars => [BufNext]_bufVars
  BY DEF StructNext, structVars, InBuffer, InList, InVector, InQueues
<1>3. [StructNext]_structVars => [ListStep]_nodeVars
  BY DEF StructNext, structVars, InBuffer, InList, InVector, InQueues
<1>4. [StructNext]_structVars => [VecNext]_vecVars
  BY DEF StructNext, structVars, InBuffer, InList, InVector, InQueues
<1>5. [StructNext]_structVars => [PrioNext]_prioVars
  BY DEF StructNext, structVars, InBuffer, InList, InVector, InQueues
<1>6. StructSpec => BufSpec /\ ListSpec /\ VecSpec /\ PrioSpec
  BY <1>1, <1>2, <1>3, <1>4, <1>5, PTL DEF StructSpec, BufSpec, ListSpec, VecSpec, PrioSpec
<1> QED
  BY <1>6, WriteCorrect, UsedCorrect, VecTypeCorrect, TinyCorrect, PinnedCorrect,
     VectorCorrect, ConsistentCorrect, ListCorrect, OrderCorrect, PTL

=============================================================================
