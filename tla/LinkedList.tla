----------------------------- MODULE LinkedList -----------------------------
(***************************************************************************)
(* The doubly linked list of common/threadpool/LinkedList.c with the free  *)
(* list of FreeList.c it takes its nodes from, down to the pointers.       *)
(*                                                                         *)
(* A node is a block of memory.  FreeListNode.next lies on ListNode.prev,  *)
(* so putting a node on the free list overwrites prev.  chain and spare    *)
(* are history variables: the nodes the callers believe to be in the list, *)
(* and those on the free list; no action depends on them except through    *)
(* the node a caller names.  The walks ListHead, ListNext, ListFind and    *)
(* their mirror images only read.                                          *)
(***************************************************************************)
EXTENDS Integers, Sequences, FiniteSets

CONSTANTS
  Nodes,             (* blocks malloc can return                             *)
  HEAD, TAIL,        (* list->head, list->tail                               *)
  NULL,
  Items,
  MaxFree            (* maxFreeListLength                                    *)

ASSUME NodeAssumption ==
  /\ HEAD # TAIL /\ NULL \notin {HEAD, TAIL}
  /\ {HEAD, TAIL, NULL} \cap Nodes = {}
  /\ MaxFree \in Nat

Cells == Nodes \cup {HEAD, TAIL}
Pointers == Cells \cup {NULL}

VARIABLES
  prev, next, item,  (* the fields of each node                              *)
  listSize,          (* list->size                                           *)
  fhead, flen,       (* freeNodeList: head, freeListLength                   *)
  os,                (* blocks that are not allocated                        *)
  listPc, dnode,     (* of ListDestroy: where it is, its local dnode         *)
  chain, spare       (* history: nodes in the list, nodes on the free list   *)

listVars == <<next, item, listSize>>
nodeVars == <<prev, next, item, listSize, fhead, flen, os, listPc, dnode, chain, spare>>

ListTypeOK ==
  /\ prev \in [Cells -> Pointers] /\ next \in [Cells -> Pointers]
  /\ item \in [Nodes -> Items \cup {NULL}]
  /\ listSize \in Nat /\ flen \in Nat /\ fhead \in Nodes \cup {NULL}
  /\ os \subseteq Nodes
  /\ listPc \in {"idle", "delete", "release"}
  /\ dnode \in Nodes \cup {TAIL, NULL}
  /\ chain \in Seq(Nodes) /\ spare \in Seq(Nodes)

(* ListInit and FreeListInit.                                              *)
ListInit ==
  /\ prev = [c \in Cells |-> IF c = TAIL THEN HEAD ELSE NULL]
  /\ next = [c \in Cells |-> IF c = HEAD THEN TAIL ELSE NULL]
  /\ item = [n \in Nodes |-> NULL]
  /\ listSize = 0 /\ fhead = NULL /\ flen = 0 /\ os = Nodes
  /\ listPc = "idle" /\ dnode = NULL
  /\ chain = <<>> /\ spare = <<>>

-----------------------------------------------------------------------------
(* The list's nodes with its two ends: the i-th cell from list->head.      *)
Cell(i) == IF i = 0 THEN HEAD
           ELSE IF i = Len(chain) + 1 THEN TAIL ELSE chain[i]

With(s, k, x) ==
  [j \in 1..(Len(s) + 1) |->
     IF j < k THEN s[j] ELSE IF j = k THEN x ELSE s[j - 1]]
Dropped(s, k) == [j \in 1..(Len(s) - 1) |-> IF j < k THEN s[j] ELSE s[j + 1]]

(* CreateListNode, FreeListAlloc: from the free list, or from malloc.      *)
CreateListNode(n, x) ==
  /\ IF fhead # NULL
       THEN /\ n = fhead
            /\ fhead' = prev[fhead] /\ flen' = flen - 1
            /\ spare' = Dropped(spare, 1)
            /\ UNCHANGED os
       ELSE /\ n \in os
            /\ os' = os \ {n}
            /\ UNCHANGED <<fhead, flen, spare>>
  /\ item' = [item EXCEPT ![n] = x]

ListAddAfter(x, i) ==
  /\ listPc = "idle"
  /\ \E n \in Nodes :
       LET bnode == Cell(i)
           temp == next[bnode]
       IN /\ CreateListNode(n, x)
          /\ next' = [next EXCEPT ![bnode] = n, ![n] = temp]
          /\ prev' = [prev EXCEPT ![n] = bnode, ![temp] = n]
          /\ chain' = With(chain, i + 1, n)
  /\ listSize' = listSize + 1
  /\ UNCHANGED <<listPc, dnode>>

ListAddBefore(x, i) ==
  /\ listPc = "idle"
  /\ \E n \in Nodes :
       LET anode == Cell(i)
           temp == prev[anode]
       IN /\ CreateListNode(n, x)
          /\ prev' = [prev EXCEPT ![anode] = n, ![n] = temp]
          /\ next' = [next EXCEPT ![n] = anode, ![temp] = n]
          /\ chain' = With(chain, i, n)
  /\ listSize' = listSize + 1
  /\ UNCHANGED <<listPc, dnode>>

(* Mutant of FreeListFree: the node is returned to the system as well.     *)
FreeListFreeTwice(d) ==
  /\ IF flen + 1 < MaxFree
       THEN /\ flen' = flen + 1 /\ fhead' = d
            /\ spare' = With(spare, 1, d)
       ELSE UNCHANGED <<flen, fhead, spare>>
  /\ os' = os \cup {d}

(* FreeListFree but for the link: onto the free list or back to the system.*)
FreeListFree(d) ==
  IF flen + 1 < MaxFree
    THEN /\ flen' = flen + 1 /\ fhead' = d
         /\ spare' = With(spare, 1, d)
         /\ UNCHANGED os
    ELSE /\ os' = os \cup {d}
         /\ UNCHANGED <<flen, fhead, spare>>

(* Mutant of ListDelNode: the size is counted by the caller.               *)
ListDelNodeUncounted(k) ==
  LET d == chain[k] IN
  /\ next' = [next EXCEPT ![prev[d]] = next[d]]
  /\ prev' = [prev EXCEPT ![next[d]] = prev[d],
                          ![d] = IF flen + 1 < MaxFree THEN fhead ELSE @]
  /\ FreeListFree(d)
  /\ chain' = Dropped(chain, k)
  /\ UNCHANGED <<item, listSize>>

(* ListDelNode of the k-th node: unlink it, then free it.                  *)
ListDelNode(k) ==
  LET d == chain[k] IN
  /\ next' = [next EXCEPT ![prev[d]] = next[d]]
  /\ prev' = [prev EXCEPT ![next[d]] = prev[d],
                          ![d] = IF flen + 1 < MaxFree THEN fhead ELSE @]
  /\ FreeListFree(d)
  /\ chain' = Dropped(chain, k)
  /\ listSize' = listSize - 1
  /\ UNCHANGED item

Delete(k) ==
  /\ listPc = "idle"
  /\ ListDelNode(k)
  /\ UNCHANGED <<listPc, dnode>>

-----------------------------------------------------------------------------
(* ListDestroy, one node per step.                                         *)
ListDestroy ==
  /\ listPc = "idle"
  /\ listPc' = "delete" /\ dnode' = next[HEAD]
  /\ UNCHANGED <<prev, listVars, fhead, flen, os, chain, spare>>

(* temp = dnode->next is read before the node is deleted.                  *)
DestroyNode ==
  /\ listPc = "delete" /\ dnode # TAIL
  /\ \E k \in 1..Len(chain) : chain[k] = dnode /\ ListDelNode(k)
  /\ dnode' = next[dnode]
  /\ UNCHANGED listPc

DestroyEnd ==
  /\ listPc = "delete" /\ dnode = TAIL
  /\ listSize' = 0 /\ listPc' = "release" /\ dnode' = NULL
  /\ UNCHANGED <<prev, next, item, fhead, flen, os, chain, spare>>

(* FreeListDestroy: one block per step, then the length.                   *)
FreeListDestroy ==
  /\ listPc = "release"
  /\ IF fhead # NULL
       THEN /\ os' = os \cup {fhead} /\ fhead' = prev[fhead]
            /\ spare' = Dropped(spare, 1)
            /\ UNCHANGED <<flen, listPc>>
       ELSE /\ flen' = 0 /\ listPc' = "idle"
            /\ UNCHANGED <<os, fhead, spare>>
  /\ UNCHANGED <<prev, listVars, dnode, chain>>

Destroying == DestroyNode \/ DestroyEnd \/ FreeListDestroy

ListStep ==
  \/ \E x \in Items : \/ \E i \in 0..Len(chain) : ListAddAfter(x, i)
                      \/ \E i \in 1..(Len(chain) + 1) : ListAddBefore(x, i)
  \/ \E k \in 1..Len(chain) : Delete(k)
  \/ ListDestroy \/ Destroying

ListSpec == ListInit /\ [][ListStep]_nodeVars

-----------------------------------------------------------------------------
(* After any sequence of ListAddAfter, ListAddBefore, ListDelNode and      *)
(* ListDestroy, reused nodes included, the walk by next from list->head    *)
(* and the walk by prev from list->tail meet the same nodes in opposite    *)
(* order, as many as list->size says; and ListDestroy is at the first.     *)
ChainsAgree ==
  /\ \A i \in 0..Len(chain) : /\ next[Cell(i)] = Cell(i + 1)
                              /\ prev[Cell(i + 1)] = Cell(i)
  /\ listSize = Len(chain)
  /\ listPc = "delete" => dnode = Cell(1)

(* A block is in the list, on the free list or with the system, never in   *)
(* two of them and never twice in one; the free list is linked through all *)
(* its nodes, and while ListDestroy does not take it down its length is    *)
(* known.                                                                  *)
MemoryOnce ==
  /\ \A i, j \in 1..Len(chain) : chain[i] = chain[j] => i = j
  /\ \A i, j \in 1..Len(spare) : spare[i] = spare[j] => i = j
  /\ \A i \in 1..Len(chain) :
       /\ chain[i] \notin os
       /\ \A j \in 1..Len(spare) : chain[i] # spare[j]
  /\ \A j \in 1..Len(spare) : spare[j] \notin os
  /\ fhead = IF spare = <<>> THEN NULL ELSE spare[1]
  /\ \A j \in 1..Len(spare) :
       prev[spare[j]] = IF j = Len(spare) THEN NULL ELSE spare[j + 1]
  /\ listPc # "release" => flen = Len(spare)

(* Links, counters and memory agree after every call, and within           *)
(* ListDestroy after every node.                                           *)
ListConsistent == ListTypeOK /\ ChainsAgree /\ MemoryOnce

(* The list implements a sequence of items.                                *)
AbstractList == INSTANCE ItemList
                WITH items <- [i \in 1..Len(chain) |-> item[chain[i]]],
                     size <- listSize

ItemListSpec == AbstractList!Spec

=============================================================================
