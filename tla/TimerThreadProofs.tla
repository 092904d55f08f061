------------------------- MODULE TimerThreadProofs -------------------------
(***************************************************************************)
(* The safety of the timer for any number of callers, threads, events and  *)
(* any time: the worker never oversleeps, and every event has one fate.    *)
(***************************************************************************)
EXTENDS TimerThread, SequenceTheorems, TLAPS

(* Sequences of events: what is in them, and each event once.              *)
ItemsIn(s) == {s[i] : i \in 1..Len(s)}
EachOnce(s) == \A i, j \in 1..Len(s) : s[i] = s[j] => i = j

(* A sequence is the function of its elements.                             *)
LEMMA SeqIsFunction ==
  ASSUME NEW S, NEW t \in Seq(S)
  PROVE  t = [j \in 1..Len(t) |-> t[j]]
OBVIOUS

(* A sequence over a set is one over a larger set.                         *)
LEMMA SeqOfMore ==
  ASSUME NEW S, NEW T, S \subseteq T, NEW s \in Seq(S)
  PROVE  s \in Seq(T)
OBVIOUS

(* The elements of a concatenation.                                        *)
LEMMA Joined ==
  ASSUME NEW S, NEW p \in Seq(S), NEW q \in Seq(S)
  PROVE  /\ p \o q \in Seq(S) /\ Len(p \o q) = Len(p) + Len(q)
         /\ \A j \in 1..Len(p) : (p \o q)[j] = p[j]
         /\ \A j \in 1..Len(q) : (p \o q)[Len(p) + j] = q[j]
OBVIOUS

(* ListAddBefore and ListAddTail.                                          *)
LEMMA Inserted ==
  ASSUME NEW S, NEW s \in Seq(S), NEW k \in 1..Len(s) + 1, NEW x \in S
  PROVE  /\ InsertAt(s, k, x) \in Seq(S)
         /\ Len(InsertAt(s, k, x)) = Len(s) + 1
         /\ \A j \in 1..Len(s) + 1 :
              InsertAt(s, k, x)[j] = IF j < k THEN s[j]
                                     ELSE IF j = k THEN x ELSE s[j - 1]
<1> DEFINE a == SubSeq(s, 1, k - 1)
           b == SubSeq(s, k, Len(s))
           c == a \o <<x>>
<1>1. a \in Seq(S) /\ Len(a) = k - 1 /\ \A j \in 1..k - 1 : a[j] = s[j]
  OBVIOUS
<1>2. /\ b \in Seq(S) /\ Len(b) = Len(s) - k + 1
      /\ \A j \in 1..(Len(s) - k + 1) : b[j] = s[j + k - 1]
  OBVIOUS
<1> HIDE DEF a, b
<1>3. /\ c \in Seq(S) /\ Len(c) = k /\ c[k] = x /\ \A j \in 1..k - 1 : c[j] = s[j]
  BY <1>1
<1> HIDE DEF c
<1>4. /\ c \o b \in Seq(S) /\ Len(c \o b) = Len(s) + 1
      /\ \A j \in 1..k : (c \o b)[j] = c[j]
      /\ \A j \in 1..Len(b) : (c \o b)[k + j] = b[j]
  <2>1. /\ c \o b \in Seq(S) /\ Len(c \o b) = Len(c) + Len(b)
        /\ \A j \in 1..Len(c) : (c \o b)[j] = c[j]
        /\ \A j \in 1..Len(b) : (c \o b)[Len(c) + j] = b[j]
    <3>1. c \in Seq(S) /\ b \in Seq(S)
      BY <1>2, <1>3
    <3> QED
      BY <3>1, Joined
  <2>2. Len(c) + Len(b) = Len(s) + 1
    BY <1>2, <1>3
  <2> QED
    BY <1>3, <2>1, <2>2
<1> DEFINE t == c \o b
<1> HIDE DEF t
<1>5. \A j \in 1..Len(s) + 1 : t[j] = IF j < k THEN s[j] ELSE IF j = k THEN x ELSE s[j - 1]
  <2> TAKE j \in 1..Len(s) + 1
  <2>1. CASE j <= k
    BY <1>3, <1>4, <2>1 DEF t
  <2>2. CASE j > k
    <3>1. j - k \in 1..Len(b) /\ k + (j - k) = j /\ (j - k) + k - 1 = j - 1
      BY <1>2, <2>2
    <3>2. t[k + (j - k)] = b[j - k] /\ b[j - k] = s[(j - k) + k - 1]
      BY <1>2, <1>4, <3>1 DEF t
    <3> QED
      BY <2>2, <3>1, <3>2
  <2> QED
    BY <2>1, <2>2
<1> QED
  BY <1>4, <1>5 DEF InsertAt, t, c, a, b

(* ListDelNode.                                                            *)
LEMMA Deleted ==
  ASSUME NEW S, NEW s \in Seq(S), NEW k \in 1..Len(s)
  PROVE  /\ RemoveAt(s, k) \in Seq(S)
         /\ Len(RemoveAt(s, k)) = Len(s) - 1
         /\ \A j \in 1..Len(s) - 1 :
              RemoveAt(s, k)[j] = IF j < k THEN s[j] ELSE s[j + 1]
<1> DEFINE a == SubSeq(s, 1, k - 1)
           b == SubSeq(s, k + 1, Len(s))
<1>1. a \in Seq(S) /\ Len(a) = k - 1 /\ \A j \in 1..k - 1 : a[j] = s[j]
  OBVIOUS
<1>2. /\ b \in Seq(S) /\ Len(b) = Len(s) - k
      /\ \A j \in 1..(Len(s) - k) : b[j] = s[j + k]
  OBVIOUS
<1> HIDE DEF a, b
<1>3. /\ a \o b \in Seq(S) /\ Len(a \o b) = Len(s) - 1
      /\ \A j \in 1..k - 1 : (a \o b)[j] = a[j]
      /\ \A j \in 1..Len(b) : (a \o b)[(k - 1) + j] = b[j]
  <2>1. /\ a \o b \in Seq(S) /\ Len(a \o b) = Len(a) + Len(b)
        /\ \A j \in 1..Len(a) : (a \o b)[j] = a[j]
        /\ \A j \in 1..Len(b) : (a \o b)[Len(a) + j] = b[j]
    <3>1. a \in Seq(S) /\ b \in Seq(S)
      BY <1>1, <1>2
    <3> QED
      BY <3>1, Joined
  <2>2. Len(a) + Len(b) = Len(s) - 1
    BY <1>1, <1>2
  <2> QED
    BY <1>1, <2>1, <2>2
<1> DEFINE t == a \o b
<1> HIDE DEF t
<1>4. \A j \in 1..Len(s) - 1 : t[j] = IF j < k THEN s[j] ELSE s[j + 1]
  <2> TAKE j \in 1..Len(s) - 1
  <2>1. CASE j < k
    BY <1>1, <1>3, <2>1 DEF t
  <2>2. CASE j >= k
    <3>1. /\ j - (k - 1) \in 1..Len(b) /\ (k - 1) + (j - (k - 1)) = j
          /\ (j - (k - 1)) + k = j + 1
      BY <1>2, <2>2
    <3>2. t[(k - 1) + (j - (k - 1))] = b[j - (k - 1)]
          /\ b[j - (k - 1)] = s[(j - (k - 1)) + k]
      BY <1>2, <1>3, <3>1 DEF t
    <3> QED
      BY <2>2, <3>1, <3>2
  <2> QED
    BY <2>1, <2>2
<1> QED
  BY <1>3, <1>4 DEF RemoveAt, t, a, b

(* An event inserted is in the queue once.                                 *)
LEMMA InsertedOnce ==
  ASSUME NEW S, NEW s \in Seq(S), NEW k \in 1..Len(s) + 1, NEW x \in S,
         x \notin ItemsIn(s), EachOnce(s)
  PROVE  /\ ItemsIn(InsertAt(s, k, x)) = ItemsIn(s) \cup {x}
         /\ EachOnce(InsertAt(s, k, x))
<1> DEFINE t == InsertAt(s, k, x)
<1>1. /\ Len(t) = Len(s) + 1
      /\ \A j \in 1..Len(s) + 1 : t[j] = IF j < k THEN s[j] ELSE IF j = k THEN x ELSE s[j - 1]
  <2>1. /\ Len(InsertAt(s, k, x)) = Len(s) + 1
        /\ \A j \in 1..Len(s) + 1 :
             InsertAt(s, k, x)[j] = IF j < k THEN s[j] ELSE IF j = k THEN x ELSE s[j - 1]
    BY Inserted, SMTT(30)
  <2> QED
    BY <2>1, Zenon
<1> HIDE DEF t
<1>2. t[k] = x /\ k \in 1..Len(t)
  BY <1>1
<1>3. \A j \in 1..Len(t) : j # k => \E i \in 1..Len(s) :
        t[j] = s[i] /\ i = IF j < k THEN j ELSE j - 1
  BY <1>1
<1>4. \A i \in 1..Len(s) : \E j \in 1..Len(t) : t[j] = s[i]
  <2> TAKE i \in 1..Len(s)
  <2>1. CASE i < k
    BY <1>1, <2>1
  <2>2. CASE i >= k
    <3>1. i + 1 \in 1..Len(t) /\ t[i + 1] = s[(i + 1) - 1] /\ (i + 1) - 1 = i
      BY <1>1, <2>2
    <3> QED
      BY <3>1
  <2> QED
    BY <2>1, <2>2
<1>5. ItemsIn(t) = ItemsIn(s) \cup {x}
  <2>1. ASSUME NEW y \in ItemsIn(t) PROVE y \in ItemsIn(s) \cup {x}
    <3>1. PICK j \in 1..Len(t) : y = t[j]
      BY <2>1 DEF ItemsIn
    <3> QED
      BY <1>2, <1>3, <3>1 DEF ItemsIn
  <2>2. ASSUME NEW y \in ItemsIn(s) \cup {x} PROVE y \in ItemsIn(t)
    BY <1>2, <1>4, <2>2 DEF ItemsIn
  <2> QED
    BY <2>1, <2>2
<1>6. EachOnce(t)
  <2>1. \A i \in 1..Len(s) : s[i] # x
    BY DEF ItemsIn
  <2> SUFFICES ASSUME NEW i \in 1..Len(t), NEW j \in 1..Len(t), t[i] = t[j] PROVE i = j
    BY DEF EachOnce
  <2>2. CASE i = k \/ j = k
    BY <1>2, <1>3, <2>1, <2>2
  <2>3. CASE i # k /\ j # k
    <3>1. PICK m \in 1..Len(s) : t[i] = s[m] /\ m = IF i < k THEN i ELSE i - 1
      BY <1>3, <2>3
    <3>2. PICK n \in 1..Len(s) : t[j] = s[n] /\ n = IF j < k THEN j ELSE j - 1
      BY <1>3, <2>3
    <3>3. m = n
      BY <3>1, <3>2 DEF EachOnce
    <3> QED
      BY <2>3, <3>1, <3>2, <3>3
  <2> QED
    BY <2>2, <2>3
<1> QED
  BY <1>5, <1>6 DEF t

(* An event deleted is in the queue no more.                               *)
LEMMA DeletedOnce ==
  ASSUME NEW S, NEW s \in Seq(S), NEW k \in 1..Len(s), EachOnce(s)
  PROVE  /\ ItemsIn(RemoveAt(s, k)) = ItemsIn(s) \ {s[k]}
         /\ EachOnce(RemoveAt(s, k))
<1> DEFINE t == RemoveAt(s, k)
<1>1. /\ Len(t) = Len(s) - 1
      /\ \A j \in 1..Len(s) - 1 : t[j] = IF j < k THEN s[j] ELSE s[j + 1]
  BY Deleted
<1> HIDE DEF t
<1>2. \A j \in 1..Len(t) : \E i \in 1..Len(s) :
        i # k /\ t[j] = s[i] /\ i = IF j < k THEN j ELSE j + 1
  BY <1>1
<1>3. \A i \in 1..Len(s) : i # k => \E j \in 1..Len(t) : t[j] = s[i]
  <2> SUFFICES ASSUME NEW i \in 1..Len(s), i # k PROVE \E j \in 1..Len(t) : t[j] = s[i]
    OBVIOUS
  <2>1. CASE i < k
    BY <1>1, <2>1
  <2>2. CASE i > k
    <3>1. i - 1 \in 1..Len(t) /\ t[i - 1] = s[(i - 1) + 1] /\ (i - 1) + 1 = i
      BY <1>1, <2>2
    <3> QED
      BY <3>1
  <2> QED
    BY <2>1, <2>2
<1>4. ItemsIn(t) = ItemsIn(s) \ {s[k]}
  <2>1. \A i \in 1..Len(s) : i # k => s[i] # s[k]
    BY DEF EachOnce
  <2>2. ASSUME NEW y \in ItemsIn(t) PROVE y \in ItemsIn(s) \ {s[k]}
    BY <1>2, <2>1, <2>2 DEF ItemsIn
  <2>3. ASSUME NEW y \in ItemsIn(s) \ {s[k]} PROVE y \in ItemsIn(t)
    BY <1>3, <2>3 DEF ItemsIn
  <2> QED
    BY <2>2, <2>3
<1>5. EachOnce(t)
  <2> SUFFICES ASSUME NEW i \in 1..Len(t), NEW j \in 1..Len(t), t[i] = t[j] PROVE i = j
    BY DEF EachOnce
  <2>1. PICK m \in 1..Len(s) : m # k /\ t[i] = s[m] /\ m = IF i < k THEN i ELSE i + 1
    BY <1>2
  <2>2. PICK n \in 1..Len(s) : n # k /\ t[j] = s[n] /\ n = IF j < k THEN j ELSE j + 1
    BY <1>2
  <2>3. m = n
    BY <2>1, <2>2 DEF EachOnce
  <2> QED
    BY <2>1, <2>2, <2>3
<1> QED
  BY <1>4, <1>5 DEF t

(* The head leaves the queue.                                              *)
LEMMA TailOnce ==
  ASSUME NEW S, NEW s \in Seq(S), s # <<>>, EachOnce(s)
  PROVE  /\ Tail(s) \in Seq(S) /\ Head(s) \in S /\ Head(s) \in ItemsIn(s)
         /\ ItemsIn(Tail(s)) = ItemsIn(s) \ {Head(s)}
         /\ EachOnce(Tail(s))
<1>1. /\ Tail(s) \in Seq(S) /\ Len(Tail(s)) = Len(s) - 1 /\ Len(s) \in Nat \ {0}
      /\ \A i \in 1..Len(s) - 1 : Tail(s)[i] = s[i + 1]
      /\ Head(s) = s[1] /\ s[1] \in S
  OBVIOUS
<1> DEFINE t == Tail(s)
<1> HIDE DEF t
<1>2. /\ Len(t) = Len(s) - 1 /\ \A j \in 1..Len(t) : j + 1 \in 1..Len(s) /\ t[j] = s[j + 1]
  BY <1>1 DEF t
<1>3. \A i \in 1..Len(s) : i # 1 => \E j \in 1..Len(t) : t[j] = s[i]
  <2> SUFFICES ASSUME NEW i \in 1..Len(s), i # 1 PROVE \E j \in 1..Len(t) : t[j] = s[i]
    OBVIOUS
  <2>1. i - 1 \in 1..Len(t) /\ t[i - 1] = s[(i - 1) + 1] /\ (i - 1) + 1 = i
    BY <1>1, <1>2
  <2> QED
    BY <2>1
<1>4. 1 \in 1..Len(s) /\ \A j \in 1..Len(t) : j + 1 # 1
  BY <1>1, <1>2
<1>5. ItemsIn(t) = ItemsIn(s) \ {s[1]}
  <2>1. \A i \in 1..Len(s) : i # 1 => s[i] # s[1]
    BY <1>4 DEF EachOnce
  <2>2. ASSUME NEW y \in ItemsIn(t) PROVE y \in ItemsIn(s) \ {s[1]}
    BY <1>2, <1>4, <2>1, <2>2 DEF ItemsIn
  <2>3. ASSUME NEW y \in ItemsIn(s) \ {s[1]} PROVE y \in ItemsIn(t)
    BY <1>3, <2>3 DEF ItemsIn
  <2> QED
    BY <2>2, <2>3
<1>6. EachOnce(t)
  <2> SUFFICES ASSUME NEW i \in 1..Len(t), NEW j \in 1..Len(t), t[i] = t[j] PROVE i = j
    BY DEF EachOnce
  <2>1. i + 1 = j + 1
    BY <1>2 DEF EachOnce
  <2> QED
    BY <2>1
<1> QED
  BY <1>1, <1>4, <1>5, <1>6 DEF t, ItemsIn

(* An event appended is in the queue once.                                 *)
LEMMA AppendOnce ==
  ASSUME NEW S, NEW s \in Seq(S), NEW x \in S, x \notin ItemsIn(s), EachOnce(s)
  PROVE  /\ Append(s, x) \in Seq(S)
         /\ ItemsIn(Append(s, x)) = ItemsIn(s) \cup {x}
         /\ EachOnce(Append(s, x))
<1> DEFINE t == Append(s, x)
<1>1. /\ t \in Seq(S) /\ Len(t) = Len(s) + 1 /\ t[Len(s) + 1] = x
      /\ \A i \in 1..Len(s) : t[i] = s[i]
  OBVIOUS
<1> HIDE DEF t
<1>2. Len(s) + 1 \in 1..Len(t) /\ \A i \in 1..Len(t) : i \in 1..Len(s) \/ i = Len(s) + 1
  BY <1>1
<1>3. \A i \in 1..Len(s) : i \in 1..Len(t) /\ s[i] # x
  BY <1>1 DEF ItemsIn
<1>4. ItemsIn(t) = ItemsIn(s) \cup {x}
  BY <1>1, <1>2, <1>3 DEF ItemsIn
<1>5. EachOnce(t)
  BY <1>1, <1>2, <1>3 DEF EachOnce
<1> QED
  BY <1>1, <1>4, <1>5 DEF t

-----------------------------------------------------------------------------
(* The inductive invariant.                                                *)

(* The worker keeps the mutex between steps exactly in its loop.           *)
Locked == (mutex = "worker") <=> (wpc \in {"run", "adding"})

QueuesOnce == EachOnce(eventQ) /\ EachOnce(poolQ)

(* "Q is ordered by eventTime with the head of the Q being the next event" *)
(* (TimerThread.c): a removed head leaves one that is not earlier.         *)
Sorted ==
  \A i, j \in 1..Len(eventQ) : i < j => ev[eventQ[i]].time <= ev[eventQ[j]].time

(* The persistent slot is filled only while the worker waits for it to be  *)
(* emptied; the event it waits for is still the head of the queue, and the *)
(* only one there that was handed on.                                      *)
SlotIsHead ==
  /\ slot # 0 => wpc = "adding"
  /\ slot \notin ItemsIn(poolQ)
  /\ wpc = "adding" =>
       /\ eventQ # <<>>
       /\ slot = Head(eventQ) \/ (slot = 0 /\ Head(eventQ) \in started)
       /\ InQueue \cap (started \cup InPool) = {Head(eventQ)}

TimerInv ==
  TypeOK /\ Locked /\ QueuesOnce /\ Sorted /\ SlotIsHead /\ NeverOversleeps /\ OneFate

(* The variables that hold no event, and those that do.                    *)
ControlTypes ==
  /\ clock \in 0..MaxClock
  /\ shutdown \in {0, 1} /\ mutex \in {"free", "worker"}
  /\ wpc \in {"awake", "run", "adding", "wait", "exit"}
  /\ until \in 0..MaxClock \cup {Forever}
  /\ client \in [Clients -> 0..MaxClock \cup {NoCall}]
  /\ closer \in {"no", "wait", "awake", "done"}

EventTypes ==
  /\ ev \in Seq(Events) /\ Len(ev) <= MaxEvents
  /\ eventQ \in Seq(Ids) /\ poolQ \in Seq(Ids) /\ slot \in Ids \cup {0}
  /\ thread \in [Threads -> Ids \cup {0}]
  /\ started \subseteq Ids /\ removed \subseteq Ids /\ freed \subseteq Ids

(* The type invariant in its two parts.                                    *)
LEMMA TypesApart == TypeOK <=> ControlTypes /\ EventTypes
BY DEF TypeOK, ControlTypes, EventTypes

(* The events queued and those with the pool, as sets of elements.         *)
LEMMA SetsOfQueues ==
  /\ InQueue = ItemsIn(eventQ)
  /\ InPool = ItemsIn(poolQ) \cup ({slot} \ {0})
BY DEF InQueue, InPool, ItemsIn

(* A timer just started satisfies the invariant.                           *)
LEMMA InitTimerInv == Init => TimerInv
<1> SUFFICES ASSUME Init PROVE TimerInv
  OBVIOUS
<1> USE TimerAssumption DEF Init
<1>1. Len(ev) = 0 /\ Ids = {} /\ Len(eventQ) = 0 /\ Len(poolQ) = 0
  BY DEF Ids
<1>2. ControlTypes
  BY DEF ControlTypes
<1>3. EventTypes
  BY <1>1 DEF EventTypes
<1>4. InQueue = {} /\ InPool = {} /\ ItemsIn(poolQ) = {}
  BY <1>1 DEF InQueue, InPool, ItemsIn
<1>5. OneFate
  BY <1>1, <1>4 DEF OneFate
<1>6. Locked /\ QueuesOnce /\ Sorted /\ NeverOversleeps
  BY <1>1 DEF Locked, QueuesOnce, EachOnce, Sorted, NeverOversleeps
<1>7. SlotIsHead
  BY <1>4 DEF SlotIsHead
<1> QED
  BY <1>2, <1>3, <1>5, <1>6, <1>7, TypesApart DEF TimerInv

(* A step that moves no event.                                             *)
LEMMA NoEventMoves ==
  ASSUME TimerInv, UNCHANGED <<ev, eventQ, poolQ, slot, started, removed, freed>>,
         thread' \in [Threads -> Ids \cup {0}],
         ControlTypes', Locked', (wpc' = "adding") <=> (wpc = "adding"), NeverOversleeps'
  PROVE  TimerInv'
<1>1. TypeOK'
  <2>1. EventTypes'
    BY TypesApart DEF TimerInv, EventTypes, Ids
  <2> QED
    BY <2>1, TypesApart DEF ControlTypes, EventTypes, TypeOK
<1>2. InQueue' = InQueue /\ InPool' = InPool /\ Ids' = Ids
  BY DEF InQueue, InPool, Ids
<1>3. QueuesOnce' /\ Sorted'
  BY DEF TimerInv, QueuesOnce, EachOnce, Sorted
<1>4. SlotIsHead'
  BY <1>2 DEF TimerInv, SlotIsHead, ItemsIn
<1>5. OneFate'
  BY <1>2 DEF TimerInv, OneFate
<1> QED
  BY <1>1, <1>3, <1>4, <1>5 DEF TimerInv

(* The events known so far stay as they are when one is scheduled.         *)
LEMMA OneMoreEvent ==
  ASSUME TypeOK, NEW e \in Events, ev' = Append(ev, e), Len(ev) < MaxEvents
  PROVE  /\ ev' \in Seq(Events) /\ Len(ev') <= MaxEvents /\ Len(ev') = Len(ev) + 1
         /\ Ids' = Ids \cup {Len(ev) + 1} /\ Len(ev) + 1 \notin Ids
         /\ ev'[Len(ev) + 1] = e /\ \A n \in Ids : ev'[n] = ev[n]
<1>1. ev \in Seq(Events) /\ Len(ev) \in Nat /\ MaxEvents \in Nat
  BY TimerAssumption DEF TypeOK
<1>2. /\ ev' \in Seq(Events) /\ Len(ev') = Len(ev) + 1
      /\ ev'[Len(ev) + 1] = e /\ \A n \in 1..Len(ev) : ev'[n] = ev[n]
  BY <1>1
<1>3. Len(ev') <= MaxEvents
  BY <1>1, <1>2
<1>4. Ids' = 1..Len(ev) + 1 /\ Ids = 1..Len(ev)
  BY <1>2 DEF Ids
<1>5. 1..Len(ev) + 1 = 1..Len(ev) \cup {Len(ev) + 1} /\ Len(ev) + 1 \notin 1..Len(ev)
  BY <1>1
<1> QED
  BY <1>2, <1>3, <1>4, <1>5

(* TimerThreadSchedule out of memory: an id is used up.                    *)
LEMMA OneLostEvent ==
  ASSUME TimerInv, NEW e \in Events, e.ok = FALSE, ev' = Append(ev, e), Len(ev) < MaxEvents,
         UNCHANGED <<eventQ, poolQ, slot, started, removed, freed, thread, wpc, mutex, until>>,
         ControlTypes'
  PROVE  TimerInv'
<1>1. /\ ev' \in Seq(Events) /\ Len(ev') <= MaxEvents /\ Ids' = Ids \cup {Len(ev) + 1}
      /\ Len(ev) + 1 \notin Ids
      /\ ev'[Len(ev) + 1] = e /\ \A n \in Ids : ev'[n] = ev[n]
  BY OneMoreEvent DEF TimerInv
<1>2. EventTypes /\ Ids \subseteq Ids'
  BY <1>1, TypesApart DEF TimerInv
<1>3. eventQ \in Seq(Ids') /\ poolQ \in Seq(Ids')
  <2>1. eventQ \in Seq(Ids) /\ poolQ \in Seq(Ids)
    BY <1>2 DEF EventTypes
  <2> QED
    BY <1>2, <2>1, SeqOfMore, Zenon
<1>4. TypeOK'
  <2>1. EventTypes'
    BY <1>1, <1>2, <1>3 DEF EventTypes
  <2> QED
    BY <2>1 DEF ControlTypes, EventTypes, TypeOK
<1>5. \A i \in 1..Len(eventQ) : eventQ[i] \in Ids /\ ev'[eventQ[i]] = ev[eventQ[i]]
  <2>1. \A i \in 1..Len(eventQ) : eventQ[i] \in Ids
    BY <1>2 DEF EventTypes
  <2> QED
    BY <1>1, <2>1, Zenon
<1>6. QueuesOnce' /\ Sorted' /\ Locked'
  BY <1>5 DEF TimerInv, QueuesOnce, EachOnce, Sorted, Locked
<1>7. InQueue' = InQueue /\ InPool' = InPool
  BY DEF InQueue, InPool
<1>8. SlotIsHead'
  BY <1>7 DEF TimerInv, SlotIsHead, ItemsIn
<1>9. NeverOversleeps'
  <2>1. eventQ # <<>> => Head(eventQ) = eventQ[1] /\ 1 \in 1..Len(eventQ)
    BY <1>2 DEF EventTypes
  <2> QED
    BY <1>5, <2>1 DEF TimerInv, NeverOversleeps
<1>10. OneFate'
  <2>1. {n \in Ids' : ev'[n].ok} = {n \in Ids : ev[n].ok}
    BY <1>1
  <2> QED
    BY <1>7, <2>1 DEF TimerInv, OneFate
<1> QED
  BY <1>4, <1>6, <1>8, <1>9, <1>10 DEF TimerInv

(* The locked part of TimerThreadSchedule.                                 *)
LEMMA EnqueueKeeps ==
  ASSUME TimerInv, NEW time \in 0..MaxClock, NEW persistent \in BOOLEAN, NEW calls \in BOOLEAN,
         mutex = "free", Len(ev) < MaxEvents, Enqueue(time, persistent, calls),
         UNCHANGED <<clock, shutdown, mutex, until, poolQ, slot, started, removed, freed>>,
         client' \in [Clients -> 0..MaxClock \cup {NoCall}],
         thread' \in [Threads -> Ids \cup {0}]
  PROVE  TimerInv'
<1> DEFINE n == Len(ev) + 1
           e == [time |-> time, persistent |-> persistent, calls |-> calls, ok |-> TRUE]
<1>1. e \in Events /\ e.time = time /\ e.ok = TRUE /\ ev' = Append(ev, e)
  BY DEF Events, Enqueue
<1>2. /\ ev' \in Seq(Events) /\ Len(ev') <= MaxEvents /\ Ids' = Ids \cup {n} /\ n \notin Ids
      /\ ev'[n] = e /\ \A m \in Ids : ev'[m] = ev[m]
  <2> HIDE DEF e
  <2> QED
    BY <1>1, OneMoreEvent DEF TimerInv
<1>3. PICK k \in 1..Len(eventQ) + 1 :
        /\ \A j \in 1..k - 1 : ev[eventQ[j]].time < time
        /\ k <= Len(eventQ) => ev[eventQ[k]].time >= time
        /\ eventQ' = InsertAt(eventQ, k, n)
  BY DEF Enqueue, InsertBefore
<1>4. /\ wpc' \in {"awake", "run", "adding", "wait", "exit"} /\ wpc' # "wait"
      /\ (wpc' \in {"run", "adding"}) <=> (wpc \in {"run", "adding"})
      /\ (wpc' = "adding") <=> (wpc = "adding")
      /\ closer' \in {"no", "wait", "awake", "done"}
  BY DEF Enqueue, SignalCondition, TimerInv, TypeOK
<1> HIDE DEF n, e
<1>5. EventTypes /\ Ids \subseteq Ids' /\ n \in Ids' /\ eventQ \in Seq(Ids) /\ poolQ \in Seq(Ids)
  BY <1>2, TypesApart DEF TimerInv, EventTypes
<1>6. eventQ \in Seq(Ids') /\ poolQ \in Seq(Ids')
  BY <1>5, SeqOfMore, Zenon
<1>7. /\ eventQ' \in Seq(Ids') /\ Len(eventQ') = Len(eventQ) + 1
      /\ \A j \in 1..Len(eventQ) + 1 :
           eventQ'[j] = IF j < k THEN eventQ[j] ELSE IF j = k THEN n ELSE eventQ[j - 1]
  <2> HIDE DEF Ids
  <2>1. \A S : \A s \in Seq(S) : \A i \in 1..Len(s) + 1 : \A x \in S :
          /\ InsertAt(s, i, x) \in Seq(S)
          /\ Len(InsertAt(s, i, x)) = Len(s) + 1
          /\ \A j \in 1..Len(s) + 1 :
               InsertAt(s, i, x)[j] = IF j < i THEN s[j] ELSE IF j = i THEN x ELSE s[j - 1]
    BY Inserted
  <2>2. eventQ' = InsertAt(eventQ, k, n) /\ eventQ \in Seq(Ids') /\ n \in Ids'
    BY <1>3, <1>5, <1>6
  <2> QED
    BY <2>1, <2>2, SMTT(30)
<1>8. \A i \in 1..Len(eventQ) : eventQ[i] \in Ids /\ eventQ[i] # n /\ ev'[eventQ[i]] = ev[eventQ[i]]
  <2>1. \A i \in 1..Len(eventQ) : eventQ[i] \in Ids
    BY <1>5
  <2> QED
    BY <1>2, <2>1
<1>9. ItemsIn(eventQ') = ItemsIn(eventQ) \cup {n} /\ EachOnce(eventQ')
  <2>1. n \notin ItemsIn(eventQ)
    BY <1>8 DEF ItemsIn
  <2>2. EachOnce(eventQ)
    BY DEF TimerInv, QueuesOnce
  <2> QED
    BY <1>3, <1>5, <1>6, <2>1, <2>2, InsertedOnce
<1>10. InQueue' = InQueue \cup {n} /\ InPool' = InPool
  BY <1>9 DEF InQueue, InPool, ItemsIn
<1>11. TypeOK'
  <2>1. EventTypes'
    BY <1>2, <1>5, <1>6, <1>7 DEF EventTypes
  <2>2. ControlTypes'
    BY <1>4 DEF TimerInv, TypeOK, ControlTypes
  <2> QED
    BY <2>1, <2>2 DEF ControlTypes, EventTypes, TypeOK
<1>12. Locked' /\ NeverOversleeps' /\ QueuesOnce'
  BY <1>4, <1>9 DEF TimerInv, Locked, NeverOversleeps, QueuesOnce, EachOnce
<1>13. SlotIsHead'
  <2>1. wpc # "adding" /\ wpc' # "adding"
    BY <1>4 DEF TimerInv, Locked
  <2> QED
    BY <2>1 DEF TimerInv, SlotIsHead, ItemsIn
<1>14. OneFate'
  <2>1. {m \in Ids' : ev'[m].ok} = {m \in Ids : ev[m].ok} \cup {n}
    BY <1>1, <1>2
  <2>2. n \notin InPool \cup started \cup removed \cup freed
    <3>1. \A i \in 1..Len(poolQ) : poolQ[i] \in Ids
      BY <1>5
    <3>2. InPool \subseteq Ids
      BY <1>5, <3>1 DEF InPool, EventTypes
    <3> QED
      BY <1>2, <1>5, <3>2 DEF EventTypes
  <2>3. wpc # "adding"
    BY DEF TimerInv, Locked
  <2> QED
    BY <1>10, <2>1, <2>2, <2>3 DEF TimerInv, OneFate
<1>15. Sorted'
  <2>1. \A i \in 1..Len(eventQ') : ev'[eventQ'[i]].time =
          IF i < k THEN ev[eventQ[i]].time ELSE IF i = k THEN time ELSE ev[eventQ[i - 1]].time
    <3> TAKE i \in 1..Len(eventQ')
    <3>1. CASE i < k
      <4>1. i \in 1..Len(eventQ) /\ eventQ'[i] = eventQ[i]
        BY <1>5, <1>7, <3>1
      <4> QED
        BY <1>8, <3>1, <4>1
    <3>2. CASE i = k
      <4>1. eventQ'[i] = n /\ ev'[n].time = time
        BY <1>1, <1>2, <1>7, <3>2
      <4> QED
        BY <3>2, <4>1
    <3>3. CASE i > k
      <4>1. i - 1 \in 1..Len(eventQ) /\ eventQ'[i] = eventQ[i - 1]
        BY <1>5, <1>7, <3>3
      <4> QED
        BY <1>8, <3>3, <4>1
    <3> QED
      BY <1>7, <3>1, <3>2, <3>3
  <2> DEFINE T(i) == ev[eventQ[i]].time
  <2>2. \A i \in 1..Len(eventQ) : T(i) \in Int
    <3>1. \A m \in Ids : ev[m] \in Events
      BY <1>5 DEF EventTypes, Ids
    <3>2. \A m \in Ids : ev[m].time \in Int
      BY <3>1 DEF Events
    <3> QED
      BY <1>8, <3>2
  <2>3. \A i, j \in 1..Len(eventQ) : i < j => T(i) <= T(j)
    BY DEF TimerInv, Sorted
  <2>4. /\ \A j \in 1..k - 1 : T(j) < time
        /\ k <= Len(eventQ) => T(k) >= time
    BY <1>3
  <2> HIDE DEF T
  <2>5. \A j \in k..Len(eventQ) : T(j) >= time
    BY <1>5, <2>2, <2>3, <2>4
  <2>6. \A i \in 1..Len(eventQ') : ev'[eventQ'[i]].time =
          IF i < k THEN T(i) ELSE IF i = k THEN time ELSE T(i - 1)
    BY <2>1 DEF T
  <2> SUFFICES ASSUME NEW i \in 1..Len(eventQ'), NEW j \in 1..Len(eventQ'), i < j
               PROVE  ev'[eventQ'[i]].time <= ev'[eventQ'[j]].time
    BY DEF Sorted
  <2>7. CASE j < k
    <3>1. i \in 1..Len(eventQ) /\ j \in 1..Len(eventQ) /\ i < k
      BY <1>5, <1>7, <2>7
    <3> QED
      BY <2>3, <2>6, <2>7, <3>1
  <2>8. CASE j = k
    <3>1. i \in 1..k - 1 /\ i \in 1..Len(eventQ)
      BY <1>5, <1>7, <2>8
    <3> QED
      BY <2>2, <2>4, <2>6, <2>8, <3>1
  <2>9. CASE j > k
    <3>1. j - 1 \in 1..Len(eventQ) /\ j - 1 \in k..Len(eventQ)
      BY <1>5, <1>7, <2>9
    <3>2. CASE i < k
      <4>1. i \in 1..Len(eventQ) /\ i < j - 1
        BY <1>5, <1>7, <2>9, <3>2
      <4> QED
        BY <2>3, <2>6, <2>9, <3>1, <3>2, <4>1
    <3>3. CASE i = k
      BY <2>5, <2>6, <2>9, <3>1, <3>3
    <3>4. CASE i > k
      <4>1. i - 1 \in 1..Len(eventQ) /\ i - 1 < j - 1
        BY <1>5, <1>7, <2>9, <3>4
      <4>2. T(i - 1) <= T(j - 1)
        BY <2>3, <3>1, <4>1
      <4>3. ev'[eventQ'[i]].time = T(i - 1) /\ ev'[eventQ'[j]].time = T(j - 1)
        BY <2>6, <2>9, <3>4
      <4> QED
        BY <4>2, <4>3
    <3> QED
      BY <1>7, <3>2, <3>3, <3>4
  <2> QED
    BY <1>7, <2>7, <2>8, <2>9
<1> QED
  BY <1>11, <1>12, <1>13, <1>14, <1>15 DEF TimerInv

(* TimerThreadRemove of the k-th event.                                    *)
LEMMA RemoveKeeps ==
  ASSUME TimerInv, NEW k \in 1..Len(eventQ), mutex = "free",
         eventQ' = RemoveAt(eventQ, k), removed' = removed \cup {eventQ[k]},
         UNCHANGED <<clock, ev, shutdown, mutex, wpc, until, client, closer, poolQ, slot,
                     thread, started, freed>>
  PROVE  TimerInv'
<1>1. EventTypes /\ ControlTypes /\ eventQ \in Seq(Ids) /\ poolQ \in Seq(Ids)
  BY TypesApart DEF TimerInv, EventTypes
<1>2. Ids' = Ids /\ wpc # "adding"
  BY DEF Ids, TimerInv, Locked
<1>3. \A S : \A s \in Seq(S) : \A i \in 1..Len(s) :
          /\ RemoveAt(s, i) \in Seq(S)
          /\ Len(RemoveAt(s, i)) = Len(s) - 1
          /\ \A j \in 1..Len(s) - 1 :
               RemoveAt(s, i)[j] = IF j < i THEN s[j] ELSE s[j + 1]
  BY Deleted
<1>4. /\ eventQ' \in Seq(Ids) /\ Len(eventQ') = Len(eventQ) - 1
      /\ \A j \in 1..Len(eventQ) - 1 :
           eventQ'[j] = IF j < k THEN eventQ[j] ELSE eventQ[j + 1]
  <2> HIDE DEF Ids
  <2> QED
    BY <1>1, <1>3
<1>5. ItemsIn(eventQ') = ItemsIn(eventQ) \ {eventQ[k]} /\ EachOnce(eventQ')
  <2>1. EachOnce(eventQ)
    BY DEF TimerInv, QueuesOnce
  <2> QED
    BY <1>1, <2>1, DeletedOnce
<1>6. InQueue' = InQueue \ {eventQ[k]} /\ InPool' = InPool /\ eventQ[k] \in InQueue
  BY <1>5 DEF InQueue, InPool, ItemsIn
<1>7. TypeOK'
  <2>1. eventQ[k] \in Ids
    BY <1>1
  <2>2. EventTypes'
    BY <1>1, <1>2, <1>4, <2>1 DEF EventTypes
  <2>3. ControlTypes'
    BY <1>1 DEF ControlTypes
  <2> QED
    BY <2>2, <2>3 DEF ControlTypes, EventTypes, TypeOK
<1>8. Locked' /\ QueuesOnce'
  BY <1>5 DEF TimerInv, Locked, QueuesOnce, EachOnce
<1>9. SlotIsHead'
  BY <1>2 DEF TimerInv, SlotIsHead, ItemsIn
<1>10. OneFate'
  <2>1. {m \in Ids' : ev'[m].ok} = {m \in Ids : ev[m].ok}
    BY <1>2
  <2> QED
    BY <1>2, <1>6, <2>1 DEF TimerInv, OneFate
<1> DEFINE T(i) == ev[eventQ[i]].time
<1>11. /\ \A i \in 1..Len(eventQ) : T(i) \in Int
       /\ \A i, j \in 1..Len(eventQ) : i < j => T(i) <= T(j)
  <2>1. \A m \in Ids : ev[m] \in Events
    BY <1>1 DEF EventTypes, Ids
  <2>2. \A m \in Ids : ev[m].time \in Int
    BY <2>1 DEF Events
  <2>3. \A i \in 1..Len(eventQ) : eventQ[i] \in Ids
    BY <1>1
  <2> QED
    BY <2>2, <2>3 DEF TimerInv, Sorted
<1>12. \A i \in 1..Len(eventQ') : \E m \in 1..Len(eventQ) :
         /\ m = IF i < k THEN i ELSE i + 1
         /\ eventQ'[i] = eventQ[m] /\ ev'[eventQ'[i]].time = T(m)
  <2> TAKE i \in 1..Len(eventQ')
  <2>1. CASE i < k
    <3>1. i \in 1..Len(eventQ) /\ eventQ'[i] = eventQ[i]
      BY <1>1, <1>4, <2>1
    <3> QED
      BY <2>1, <3>1
  <2>2. CASE i >= k
    <3>1. i + 1 \in 1..Len(eventQ) /\ eventQ'[i] = eventQ[i + 1]
      BY <1>1, <1>4, <2>2
    <3>2. i + 1 = IF i < k THEN i ELSE i + 1
      BY <1>4, <2>2
    <3> QED
      BY <3>1, <3>2
  <2> QED
    BY <1>4, <2>1, <2>2
<1>13. Sorted'
  <2> SUFFICES ASSUME NEW i \in 1..Len(eventQ'), NEW j \in 1..Len(eventQ'), i < j
               PROVE  ev'[eventQ'[i]].time <= ev'[eventQ'[j]].time
    BY DEF Sorted
  <2> HIDE DEF T
  <2>1. PICK a \in 1..Len(eventQ) : a = (IF i < k THEN i ELSE i + 1) /\ ev'[eventQ'[i]].time = T(a)
    BY <1>12
  <2>2. PICK b \in 1..Len(eventQ) : b = (IF j < k THEN j ELSE j + 1) /\ ev'[eventQ'[j]].time = T(b)
    BY <1>12
  <2>3. a < b
    BY <2>1, <2>2
  <2> QED
    BY <1>11, <2>1, <2>2, <2>3
<1>14. NeverOversleeps'
  <2> SUFFICES ASSUME wpc = "wait", eventQ' # <<>>
               PROVE  until # Forever /\ until <= ev'[Head(eventQ')].time
    BY DEF NeverOversleeps
  <2>1. 1 \in 1..Len(eventQ') /\ Head(eventQ') = eventQ'[1]
    BY <1>4
  <2>2. 1 \in 1..Len(eventQ) /\ Head(eventQ) = eventQ[1] /\ eventQ # <<>>
    BY <1>1
  <2>3. until # Forever /\ until <= T(1) /\ until \in Int
    BY <1>1, <2>2 DEF TimerInv, NeverOversleeps, ControlTypes, Forever
  <2> HIDE DEF T
  <2>4. PICK m \in 1..Len(eventQ) : ev'[eventQ'[1]].time = T(m)
    BY <1>12, <2>1
  <2>5. T(1) <= T(m) /\ T(m) \in Int /\ T(1) \in Int
    BY <1>11, <2>2
  <2> QED
    BY <2>1, <2>3, <2>4, <2>5
<1> QED
  BY <1>7, <1>8, <1>9, <1>10, <1>13, <1>14 DEF TimerInv

(* TimerThreadShutdown frees what is left in the queue.                    *)
LEMMA ShutdownKeeps ==
  ASSUME TimerInv, TimerThreadShutdown
  PROVE  TimerInv'
<1>1. /\ mutex = "free" /\ mutex' = "free" /\ shutdown' = 1 /\ freed' = freed \cup InQueue
      /\ eventQ' = <<>> /\ wpc' = (IF wpc = "wait" THEN "awake" ELSE wpc) /\ closer' = "wait"
      /\ UNCHANGED <<clock, ev, until, client, poolQ, slot, thread, started, removed>>
  BY DEF TimerThreadShutdown, poolVars
<1>2. EventTypes /\ ControlTypes /\ Ids' = Ids /\ wpc # "adding" /\ wpc' # "adding"
  BY <1>1, TypesApart DEF TimerInv, Ids, Locked
<1>3. InQueue' = {} /\ InPool' = InPool /\ InQueue \subseteq Ids
  <2>1. \A i \in 1..Len(eventQ) : eventQ[i] \in Ids
    BY <1>2 DEF EventTypes
  <2> QED
    BY <1>1, <2>1 DEF InQueue, InPool
<1>4. TypeOK'
  <2>1. EventTypes'
    BY <1>1, <1>2, <1>3 DEF EventTypes
  <2>2. ControlTypes'
    BY <1>1, <1>2 DEF ControlTypes
  <2> QED
    BY <2>1, <2>2 DEF ControlTypes, EventTypes, TypeOK
<1>5. Locked' /\ QueuesOnce' /\ Sorted' /\ NeverOversleeps'
  <2>1. Len(eventQ') = 0
    BY <1>1
  <2> QED
    BY <1>1, <2>1 DEF TimerInv, Locked, QueuesOnce, EachOnce, Sorted, NeverOversleeps
<1>6. SlotIsHead'
  BY <1>1, <1>2 DEF TimerInv, SlotIsHead, ItemsIn
<1>7. OneFate'
  <2>1. {m \in Ids' : ev'[m].ok} = {m \in Ids : ev[m].ok}
    BY <1>1, <1>2
  <2> QED
    BY <1>1, <1>2, <1>3, <2>1 DEF TimerInv, OneFate
<1> QED
  BY <1>4, <1>5, <1>6, <1>7 DEF TimerInv

(* The worker takes the head from the queue: handed to the pool, refused   *)
(* by it, or taken up from the persistent slot.                            *)
LEMMA HeadLeaves ==
  ASSUME TimerInv, wpc \in {"run", "adding"}, eventQ # <<>>, eventQ' = Tail(eventQ),
         wpc' = "run", slot = 0,
         UNCHANGED <<clock, ev, shutdown, mutex, until, client, closer, slot, thread, started,
                     removed>>,
         \/ /\ wpc = "run" /\ poolQ' = Append(poolQ, Head(eventQ)) /\ UNCHANGED freed
         \/ /\ wpc = "run" /\ freed' = freed \cup {Head(eventQ)} /\ UNCHANGED poolQ
         \/ wpc = "adding" /\ UNCHANGED <<poolQ, freed>>
  PROVE  TimerInv'
<1> DEFINE h == Head(eventQ)
<1>1. EventTypes /\ ControlTypes /\ eventQ \in Seq(Ids) /\ poolQ \in Seq(Ids) /\ Ids' = Ids
  BY TypesApart DEF TimerInv, EventTypes, Ids
<1>2. EachOnce(eventQ) /\ EachOnce(poolQ)
  BY DEF TimerInv, QueuesOnce
<1>3. /\ eventQ' \in Seq(Ids) /\ h \in Ids /\ h \in ItemsIn(eventQ)
      /\ ItemsIn(eventQ') = ItemsIn(eventQ) \ {h} /\ EachOnce(eventQ')
  <2> HIDE DEF Ids
  <2> QED
    BY <1>1, <1>2, TailOnce
<1>4. InQueue = ItemsIn(eventQ) /\ InQueue' = InQueue \ {h} /\ h \in InQueue
  BY <1>3 DEF InQueue, ItemsIn
<1>5. /\ InPool = ItemsIn(poolQ) /\ InPool' = ItemsIn(poolQ') /\ 0 \notin ItemsIn(poolQ)
  <2>1. \A i \in 1..Len(poolQ) : poolQ[i] # 0
    BY <1>1 DEF Ids
  <2> QED
    BY <2>1 DEF InPool, ItemsIn
<1>6. /\ poolQ' \in Seq(Ids) /\ EachOnce(poolQ') /\ freed' \subseteq Ids
      /\ \/ wpc = "run" /\ InPool' = InPool \cup {h} /\ freed' = freed /\ 0 \notin ItemsIn(poolQ')
         \/ wpc = "run" /\ InPool' = InPool /\ freed' = freed \cup {h} /\ 0 \notin ItemsIn(poolQ')
         \/ wpc = "adding" /\ InPool' = InPool /\ freed' = freed /\ 0 \notin ItemsIn(poolQ')
  <2>1. CASE wpc = "run" /\ poolQ' = Append(poolQ, h) /\ UNCHANGED freed
    <3>1. h \notin ItemsIn(poolQ)
      BY <1>4, <1>5, <2>1 DEF TimerInv, OneFate
    <3>2. /\ poolQ' \in Seq(Ids) /\ ItemsIn(poolQ') = ItemsIn(poolQ) \cup {h}
          /\ EachOnce(poolQ')
      <4> HIDE DEF Ids, h
      <4> QED
        BY <1>1, <1>2, <1>3, <2>1, <3>1, AppendOnce
    <3>3. h # 0 /\ freed' \subseteq Ids
      BY <1>1, <1>3, <2>1 DEF Ids, EventTypes
    <3> HIDE DEF h
    <3> QED
      BY <1>5, <2>1, <3>2, <3>3
  <2>2. CASE wpc = "run" /\ freed' = freed \cup {h} /\ UNCHANGED poolQ
    <3>1. freed' \subseteq Ids
      BY <1>1, <1>3, <2>2 DEF EventTypes
    <3> HIDE DEF h
    <3> QED
      BY <1>1, <1>2, <1>5, <2>2, <3>1
  <2>3. CASE wpc = "adding" /\ UNCHANGED <<poolQ, freed>>
    <3>1. freed' \subseteq Ids
      BY <1>1, <2>3 DEF EventTypes
    <3> HIDE DEF h
    <3> QED
      BY <1>1, <1>2, <1>5, <2>3, <3>1
  <2> QED
    BY <2>1, <2>2, <2>3
<1>7. TypeOK'
  <2>1. EventTypes'
    BY <1>1, <1>3, <1>6 DEF EventTypes
  <2>2. ControlTypes'
    BY <1>1 DEF ControlTypes
  <2> QED
    BY <2>1, <2>2 DEF ControlTypes, EventTypes, TypeOK
<1>8. Locked' /\ NeverOversleeps'
  BY DEF TimerInv, Locked, NeverOversleeps
<1>9. QueuesOnce'
  BY <1>3, <1>6 DEF QueuesOnce, EachOnce
<1>10. SlotIsHead'
  BY <1>6 DEF SlotIsHead, ItemsIn
<1>11. Sorted'
  <2>1. /\ Len(eventQ') = Len(eventQ) - 1
        /\ \A i \in 1..Len(eventQ') : i + 1 \in 1..Len(eventQ) /\ eventQ'[i] = eventQ[i + 1]
    BY <1>1
  <2> SUFFICES ASSUME NEW i \in 1..Len(eventQ'), NEW j \in 1..Len(eventQ'), i < j
               PROVE  ev'[eventQ'[i]].time <= ev'[eventQ'[j]].time
    BY DEF Sorted
  <2>2. i + 1 < j + 1
    OBVIOUS
  <2>3. ev[eventQ[i + 1]].time <= ev[eventQ[j + 1]].time
    BY <2>1, <2>2 DEF TimerInv, Sorted
  <2> QED
    BY <2>1, <2>3
<1>12. OneFate'
  <2>1. {m \in Ids' : ev'[m].ok} = {m \in Ids : ev[m].ok}
    BY <1>1
  <2>2. CASE wpc = "run"
    <3>1. InQueue \cap (started \cup InPool \cup removed \cup freed) = {}
      BY <2>2 DEF TimerInv, OneFate
    <3> HIDE DEF h
    <3> QED
      BY <1>4, <1>6, <2>1, <2>2, <3>1 DEF TimerInv, OneFate
  <2>3. CASE wpc = "adding"
    <3>1. InQueue \cap (started \cup InPool) = {h} /\ h \in started
      BY <1>1, <1>3, <2>3 DEF TimerInv, SlotIsHead, Ids
    <3> HIDE DEF h
    <3> QED
      BY <1>4, <1>6, <2>1, <2>3, <3>1 DEF TimerInv, OneFate
  <2> QED
    BY <2>2, <2>3
<1> QED
  BY <1>7, <1>8, <1>9, <1>10, <1>11, <1>12 DEF TimerInv

(* ThreadPoolAddPersistent: the head goes into the slot and stays in the   *)
(* queue until a thread has taken it.                                      *)
LEMMA HeadToSlot ==
  ASSUME TimerInv, WorkerAddsPersistent
  PROVE  TimerInv'
<1> DEFINE h == Head(eventQ)
<1>1. /\ wpc = "run" /\ wpc' = "adding" /\ eventQ # <<>> /\ slot' = h
      /\ UNCHANGED <<clock, ev, eventQ, shutdown, mutex, until, client, closer, poolQ, thread,
                     started, removed, freed>>
  BY DEF WorkerAddsPersistent, Due
<1>2. EventTypes /\ ControlTypes /\ eventQ \in Seq(Ids) /\ Ids' = Ids /\ slot = 0
  BY <1>1, TypesApart DEF TimerInv, EventTypes, Ids, SlotIsHead
<1>3. h \in Ids /\ h \in ItemsIn(eventQ) /\ h # 0
  <2>1. h = eventQ[1] /\ 1 \in 1..Len(eventQ) /\ eventQ[1] \in Ids
    BY <1>1, <1>2
  <2> QED
    BY <2>1 DEF ItemsIn, Ids
<1>4. InQueue' = InQueue /\ h \in InQueue /\ InPool' = InPool \cup {h} /\ InPool = ItemsIn(poolQ)
  BY <1>1, <1>2, <1>3 DEF InQueue, InPool, ItemsIn
<1> HIDE DEF h
<1>5. TypeOK'
  <2>1. EventTypes'
    BY <1>1, <1>2, <1>3 DEF EventTypes
  <2>2. ControlTypes'
    BY <1>1, <1>2 DEF ControlTypes
  <2> QED
    BY <2>1, <2>2 DEF ControlTypes, EventTypes, TypeOK
<1>6. Locked' /\ QueuesOnce' /\ Sorted' /\ NeverOversleeps'
  BY <1>1 DEF TimerInv, Locked, QueuesOnce, EachOnce, Sorted, NeverOversleeps
<1>7. InQueue \cap (started \cup InPool \cup removed \cup freed) = {}
  BY <1>1 DEF TimerInv, OneFate
<1>8. SlotIsHead'
  <2>1. ItemsIn(poolQ') = ItemsIn(poolQ) /\ Head(eventQ') = h
    BY <1>1 DEF ItemsIn, h
  <2> QED
    BY <1>1, <1>4, <1>7, <2>1 DEF SlotIsHead
<1>9. OneFate'
  <2>1. {m \in Ids' : ev'[m].ok} = {m \in Ids : ev[m].ok}
    BY <1>1, <1>2
  <2> QED
    BY <1>1, <1>4, <1>7, <2>1 DEF TimerInv, OneFate
<1> QED
  BY <1>5, <1>6, <1>8, <1>9 DEF TimerInv

(* A thread of the pool takes an event from the slot or from the queue.    *)
LEMMA PoolTakesKeeps ==
  ASSUME TimerInv, NEW t \in Threads, PoolTakes(t)
  PROVE  TimerInv'
<1>1. /\ UNCHANGED <<clock, ev, eventQ, shutdown, mutex, wpc, until, client, closer, removed,
                     freed>>
      /\ \/ slot # 0 /\ thread' = [thread EXCEPT ![t] = slot] /\ slot' = 0 /\ poolQ' = poolQ
         \/ /\ slot = 0 /\ poolQ # <<>> /\ thread' = [thread EXCEPT ![t] = Head(poolQ)]
            /\ poolQ' = Tail(poolQ) /\ slot' = slot
      /\ started' = started \cup {thread'[t]}
  BY DEF PoolTakes, workVars
<1>2. EventTypes /\ ControlTypes /\ poolQ \in Seq(Ids) /\ Ids' = Ids
  BY <1>1, TypesApart DEF TimerInv, EventTypes, Ids
<1>3. EachOnce(poolQ) /\ 0 \notin Ids
  BY DEF TimerInv, QueuesOnce, Ids
<1>4. PICK x \in Ids :
        /\ thread' = [thread EXCEPT ![t] = x] /\ started' = started \cup {x}
        /\ poolQ' \in Seq(Ids) /\ EachOnce(poolQ') /\ slot' = 0
        /\ x \in InPool /\ InPool' = InPool \ {x}
        /\ ItemsIn(poolQ') \subseteq ItemsIn(poolQ)
        /\ slot # 0 => x = slot
  <2>1. CASE slot # 0
    <3>1. /\ thread' = [thread EXCEPT ![t] = slot] /\ slot' = 0 /\ poolQ' = poolQ
          /\ started' = started \cup {slot} /\ slot \in Ids
      BY <1>1, <1>2, <2>1 DEF EventTypes
    <3>2. slot \notin ItemsIn(poolQ)
      BY DEF TimerInv, SlotIsHead
    <3>3. InPool = ItemsIn(poolQ) \cup {slot} /\ InPool' = ItemsIn(poolQ)
      BY <2>1, <3>1 DEF InPool, ItemsIn
    <3> QED
      BY <1>2, <1>3, <3>1, <3>2, <3>3
  <2>2. CASE slot = 0
    <3> DEFINE h == Head(poolQ)
    <3>1. /\ thread' = [thread EXCEPT ![t] = h] /\ slot' = 0 /\ poolQ' = Tail(poolQ)
          /\ started' = started \cup {h} /\ poolQ # <<>>
      BY <1>1, <1>2, <2>2 DEF EventTypes
    <3>2. /\ poolQ' \in Seq(Ids) /\ h \in Ids /\ h \in ItemsIn(poolQ)
          /\ ItemsIn(poolQ') = ItemsIn(poolQ) \ {h} /\ EachOnce(poolQ')
      <4> HIDE DEF Ids
      <4> QED
        BY <1>2, <1>3, <3>1, TailOnce
    <3>3. InPool = ItemsIn(poolQ) /\ InPool' = ItemsIn(poolQ')
      BY <2>2, <3>1 DEF InPool, ItemsIn
    <3> HIDE DEF h
    <3> QED
      BY <2>2, <3>1, <3>2, <3>3
  <2> QED
    BY <2>1, <2>2
<1>5. InQueue' = InQueue
  BY <1>1 DEF InQueue
<1>6. TypeOK'
  <2>1. EventTypes'
    BY <1>1, <1>2, <1>4 DEF EventTypes
  <2>2. ControlTypes'
    BY <1>1, <1>2 DEF ControlTypes
  <2> QED
    BY <2>1, <2>2 DEF ControlTypes, EventTypes, TypeOK
<1>7. Locked' /\ QueuesOnce' /\ Sorted' /\ NeverOversleeps'
  BY <1>1, <1>4 DEF TimerInv, Locked, QueuesOnce, EachOnce, Sorted, NeverOversleeps
<1>8. started' \cup InPool' = started \cup InPool
  BY <1>4
<1>9. SlotIsHead'
  <2>1. 0 \notin ItemsIn(poolQ')
    <3>1. \A i \in 1..Len(poolQ') : poolQ'[i] \in Ids
      BY <1>4
    <3> QED
      BY <1>3, <3>1 DEF ItemsIn
  <2>2. wpc = "adding" => Head(eventQ) \in started'
    <3> SUFFICES ASSUME wpc = "adding" PROVE Head(eventQ) \in started'
      OBVIOUS
    <3>1. eventQ # <<>> /\ (slot = Head(eventQ) \/ Head(eventQ) \in started)
      BY DEF TimerInv, SlotIsHead
    <3>2. Head(eventQ) \in Ids
      BY <1>2, <3>1 DEF EventTypes
    <3> QED
      BY <1>3, <1>4, <3>1, <3>2, Zenon
  <2>3. wpc = "adding" => eventQ # <<>> /\ InQueue \cap (started \cup InPool) = {Head(eventQ)}
    BY DEF TimerInv, SlotIsHead
  <2>4. slot' = 0 /\ wpc' = wpc /\ eventQ' = eventQ
    BY <1>1, <1>4
  <2>5. slot' \notin ItemsIn(poolQ')
    BY <2>1, <2>4
  <2>6. wpc' = "adding" =>
          /\ eventQ' # <<>> /\ slot' = 0 /\ Head(eventQ') \in started'
          /\ InQueue' \cap (started' \cup InPool') = {Head(eventQ')}
    BY <1>5, <1>8, <2>2, <2>3, <2>4, Zenon
  <2> QED
    BY <2>4, <2>5, <2>6 DEF SlotIsHead
<1>10. OneFate'
  <2>1. {m \in Ids' : ev'[m].ok} = {m \in Ids : ev[m].ok}
    BY <1>1, <1>2
  <2> QED
    BY <1>1, <1>4, <1>5, <1>8, <2>1 DEF TimerInv, OneFate
<1> QED
  BY <1>6, <1>7, <1>9, <1>10 DEF TimerInv

(* Every step of the worker, the callers and the pool keeps it.            *)
LEMMA StepTimerInv == TimerInv /\ [Next]_vars => TimerInv'
<1> SUFFICES ASSUME TimerInv, [Next]_vars PROVE TimerInv'
  OBVIOUS
<1> USE TimerAssumption
<1>0. /\ EventTypes /\ ControlTypes /\ thread \in [Threads -> Ids \cup {0}]
      /\ (mutex = "worker") <=> (wpc \in {"run", "adding"})
  BY TypesApart DEF TimerInv, EventTypes, Locked
<1>1. CASE Tick
  <2>1. ControlTypes' /\ Locked' /\ NeverOversleeps'
    BY <1>0, <1>1 DEF Tick, workVars, ControlTypes, TimerInv, Locked, NeverOversleeps
  <2> QED
    BY <1>0, <1>1, <2>1, NoEventMoves DEF Tick, workVars, poolVars
<1>2. ASSUME NEW c \in Clients,
             NEW timeout \in {clock + d : d \in 0..MaxClock} \cup {0},
             CalculateEventTime(c, timeout)
      PROVE  TimerInv'
  <2>1. timeout \in 0..MaxClock
    BY <1>0, <1>2 DEF CalculateEventTime, ControlTypes
  <2>2. ControlTypes' /\ Locked' /\ NeverOversleeps'
    BY <1>0, <1>2, <2>1
       DEF CalculateEventTime, workVars, ControlTypes, TimerInv, Locked, NeverOversleeps
  <2> QED
    BY <1>0, <1>2, <2>2, NoEventMoves DEF CalculateEventTime, workVars, poolVars
<1>3. ASSUME NEW c \in Clients, NEW persistent \in BOOLEAN, NEW calls \in BOOLEAN,
             TimerThreadSchedule(c, persistent, calls)
      PROVE  TimerInv'
  <2>1. /\ mutex = "free" /\ Len(ev) < MaxEvents /\ Enqueue(client[c], persistent, calls)
        /\ client' = [client EXCEPT ![c] = NoCall] /\ client[c] # NoCall
        /\ UNCHANGED <<clock, shutdown, mutex, until, poolQ, slot, thread, started, removed,
                       freed>>
    BY <1>3 DEF TimerThreadSchedule, poolVars
  <2>2. client[c] \in 0..MaxClock /\ client' \in [Clients -> 0..MaxClock \cup {NoCall}]
    BY <1>0, <2>1 DEF ControlTypes
  <2> QED
    BY <1>0, <2>1, <2>2, EnqueueKeeps
<1>4. ASSUME NEW c \in Clients, ScheduleFails(c)
      PROVE  TimerInv'
  <2>1. /\ UNCHANGED <<clock, eventQ, shutdown, mutex, wpc, until, closer, poolQ, slot, thread,
                       started, removed, freed>>
        /\ client' = [client EXCEPT ![c] = NoCall] /\ client[c] # NoCall
    BY <1>4 DEF ScheduleFails, workVars, poolVars
  <2>2. client[c] \in 0..MaxClock /\ ControlTypes'
    BY <1>0, <2>1 DEF ControlTypes
  <2>3. CASE UNCHANGED ev
    <3>1. Locked' /\ NeverOversleeps'
      BY <2>1, <2>3 DEF TimerInv, Locked, NeverOversleeps
    <3> QED
      BY <1>0, <2>1, <2>2, <2>3, <3>1, NoEventMoves
  <2>4. CASE ~UNCHANGED ev
    <3> DEFINE e == [time |-> client[c], persistent |-> FALSE, calls |-> FALSE, ok |-> FALSE]
    <3>1. Len(ev) < MaxEvents /\ ev' = Append(ev, e)
      BY <1>4, <2>4 DEF ScheduleFails
    <3>2. e \in Events /\ e.ok = FALSE
      BY <2>2 DEF Events
    <3> HIDE DEF e
    <3> QED
      BY <2>1, <2>2, <3>1, <3>2, OneLostEvent
  <2> QED
    BY <2>3, <2>4
<1>5. ASSUME NEW id \in InQueue, TimerThreadRemove(id)
      PROVE  TimerInv'
  <2>1. PICK k \in 1..Len(eventQ) : eventQ[k] = id /\ eventQ' = RemoveAt(eventQ, k)
    BY <1>5 DEF TimerThreadRemove
  <2> QED
    BY <1>5, <2>1, RemoveKeeps DEF TimerThreadRemove, workVars, poolVars
<1>6. CASE TimerThreadShutdown
  BY <1>6, ShutdownKeeps
<1>7. CASE ShutdownWoken
  <2>1. ControlTypes' /\ Locked' /\ NeverOversleeps'
    BY <1>0, <1>7 DEF ShutdownWoken, workVars, ControlTypes, TimerInv, Locked, NeverOversleeps
  <2> QED
    BY <1>0, <1>7, <2>1, NoEventMoves DEF ShutdownWoken, workVars, poolVars
<1>8. CASE WorkerLock
  <2>1. ControlTypes' /\ Locked' /\ NeverOversleeps'
    BY <1>0, <1>8 DEF WorkerLock, ControlTypes, Locked, NeverOversleeps
  <2> QED
    BY <1>0, <1>8, <2>1, NoEventMoves DEF WorkerLock, poolVars
<1>9. CASE WorkerExit
  <2>1. ControlTypes' /\ Locked' /\ NeverOversleeps'
    BY <1>0, <1>9 DEF WorkerExit, ControlTypes, Locked, NeverOversleeps
  <2> QED
    BY <1>0, <1>9, <2>1, NoEventMoves DEF WorkerExit, poolVars
<1>10. CASE WorkerAdds
  <2>1. /\ wpc = "run" /\ wpc' = "run" /\ eventQ # <<>> /\ eventQ' = Tail(eventQ) /\ slot = 0
        /\ poolQ' = Append(poolQ, Head(eventQ))
        /\ UNCHANGED <<clock, ev, shutdown, mutex, until, client, closer, slot, thread, started,
                       removed, freed>>
    BY <1>10 DEF WorkerAdds, Due, workVars, TimerInv, SlotIsHead
  <2> QED
    BY <2>1, HeadLeaves
<1>11. CASE WorkerAddsPersistent
  BY <1>11, HeadToSlot
<1>12. CASE WorkerAdded
  <2>1. /\ wpc = "adding" /\ wpc' = "run" /\ eventQ # <<>> /\ eventQ' = Tail(eventQ) /\ slot = 0
        /\ UNCHANGED <<clock, ev, shutdown, mutex, until, client, closer, slot, thread, started,
                       removed, poolQ, freed>>
    BY <1>12 DEF WorkerAdded, poolVars, TimerInv, SlotIsHead
  <2> QED
    BY <2>1, HeadLeaves
<1>13. CASE WorkerRefused
  <2>1. /\ wpc = "run" /\ wpc' = "run" /\ eventQ # <<>> /\ eventQ' = Tail(eventQ) /\ slot = 0
        /\ freed' = freed \cup {Head(eventQ)}
        /\ UNCHANGED <<clock, ev, shutdown, mutex, until, client, closer, slot, thread, started,
                       removed, poolQ>>
    BY <1>13 DEF WorkerRefused, Due, workVars, poolVars, TimerInv, SlotIsHead
  <2> QED
    BY <2>1, HeadLeaves
<1>14. CASE WorkerWaits
  <2>1. /\ wpc = "run" /\ wpc' = "wait" /\ mutex' = "free"
        /\ until' = IF eventQ = <<>> THEN Forever ELSE ev[Head(eventQ)].time
        /\ UNCHANGED <<clock, ev, eventQ, shutdown, client, closer, poolQ, slot, thread, started,
                       removed, freed>>
    BY <1>14 DEF WorkerWaits, poolVars
  <2>2. eventQ # <<>> => ev[Head(eventQ)].time \in 0..MaxClock
    <3> SUFFICES ASSUME eventQ # <<>> PROVE ev[Head(eventQ)].time \in 0..MaxClock
      OBVIOUS
    <3>1. Head(eventQ) \in Ids
      BY <1>0 DEF EventTypes
    <3>2. ev[Head(eventQ)] \in Events
      BY <1>0, <3>1 DEF EventTypes, Ids
    <3> QED
      BY <3>2 DEF Events
  <2>3. ControlTypes' /\ Locked'
    BY <1>0, <2>1, <2>2 DEF ControlTypes, Locked
  <2>4. NeverOversleeps'
    BY <2>1, <2>2 DEF NeverOversleeps, Forever
  <2> QED
    BY <1>0, <2>1, <2>3, <2>4, NoEventMoves
<1>15. CASE WorkerTimesOut
  <2>1. ControlTypes' /\ Locked' /\ NeverOversleeps'
    BY <1>0, <1>15 DEF WorkerTimesOut, ControlTypes, Locked, NeverOversleeps
  <2> QED
    BY <1>0, <1>15, <2>1, NoEventMoves DEF WorkerTimesOut, poolVars
<1>16. CASE SpuriousWakeup
  <2>1. ControlTypes' /\ Locked' /\ NeverOversleeps'
    BY <1>0, <1>16 DEF SpuriousWakeup, ControlTypes, Locked, NeverOversleeps, TimerInv
  <2> QED
    BY <1>0, <1>16, <2>1, NoEventMoves DEF SpuriousWakeup, poolVars
<1>17. ASSUME NEW t \in Threads, JobReturns(t)
       PROVE  TimerInv'
  <2>1. ControlTypes' /\ Locked' /\ NeverOversleeps'
    BY <1>0, <1>17 DEF JobReturns, workVars, ControlTypes, Locked, NeverOversleeps, TimerInv
  <2>2. thread' \in [Threads -> Ids \cup {0}]
    BY <1>0, <1>17 DEF JobReturns
  <2> QED
    BY <1>0, <1>17, <2>1, <2>2, NoEventMoves DEF JobReturns, workVars
<1>18. ASSUME NEW t \in Threads, NEW delay \in 0..1, JobSchedules(t, delay)
       PROVE  TimerInv'
  <2>1. /\ mutex = "free" /\ thread' = [thread EXCEPT ![t] = 0]
        /\ UNCHANGED <<clock, shutdown, mutex, until, client, poolQ, slot, started, removed, freed>>
    BY <1>18 DEF JobSchedules
  <2>2. thread' \in [Threads -> Ids \cup {0}]
    BY <1>0, <2>1
  <2>3. CASE Len(ev) < MaxEvents /\ clock + delay <= MaxClock /\ closer # "done"
    <3>1. Enqueue(clock + delay, FALSE, FALSE)
      BY <1>18, <2>3 DEF JobSchedules
    <3>2. clock + delay \in 0..MaxClock /\ client' \in [Clients -> 0..MaxClock \cup {NoCall}]
      BY <1>0, <2>1, <2>3 DEF ControlTypes
    <3> QED
      BY <2>1, <2>2, <2>3, <3>1, <3>2, EnqueueKeeps
  <2>4. CASE ~(Len(ev) < MaxEvents /\ clock + delay <= MaxClock /\ closer # "done")
    <3>1. UNCHANGED <<ev, eventQ, wpc, closer>>
      BY <1>18, <2>4 DEF JobSchedules
    <3>2. ControlTypes' /\ Locked' /\ NeverOversleeps'
      BY <1>0, <2>1, <3>1 DEF ControlTypes, Locked, NeverOversleeps, TimerInv
    <3> QED
      BY <2>1, <2>2, <3>1, <3>2, NoEventMoves
  <2> QED
    BY <2>3, <2>4
<1>19. CASE UNCHANGED vars
  <2>1. /\ UNCHANGED <<clock, ev, eventQ, shutdown, mutex, wpc, until, client, closer, poolQ,
                       slot, thread, started, removed, freed>>
    BY <1>19 DEF vars, workVars, poolVars
  <2>2. ControlTypes' /\ Locked' /\ NeverOversleeps'
    BY <1>0, <2>1 DEF ControlTypes, Locked, NeverOversleeps, TimerInv
  <2> QED
    BY <1>0, <2>1, <2>2, NoEventMoves
<1>20. ASSUME NEW t \in Threads, PoolTakes(t) PROVE TimerInv'
  BY <1>20, PoolTakesKeeps
<1>21. CASE Worker
  BY <1>8, <1>9, <1>10, <1>11, <1>12, <1>13, <1>14, <1>15, <1>21 DEF Worker
<1>22. ASSUME NEW t \in Threads, PoolThread(t) PROVE TimerInv'
  BY <1>17, <1>18, <1>20, <1>22 DEF PoolThread
<1> QED
  BY <1>1, <1>2, <1>3, <1>4, <1>5, <1>6, <1>7, <1>16, <1>19, <1>21, <1>22 DEF Next

-----------------------------------------------------------------------------
(* The invariant holds of every behaviour.                                 *)
LEMMA TimerInvariant == Spec => []TimerInv
BY InitTimerInv, StepTimerInv, PTL DEF Spec

(* Every queue of the timer and of the pool holds events that were         *)
(* scheduled, for any number of them.                                      *)
THEOREM TypeCorrect == Spec => []TypeOK
<1>1. TimerInv => TypeOK
  BY DEF TimerInv
<1> QED
  BY <1>1, TimerInvariant, PTL

(* TimerThreadWorker never sleeps past the time of the head of the queue,  *)
(* whatever is scheduled and removed while it sleeps: it relies on the     *)
(* order of the queue and on the signal of TimerThreadSchedule.            *)
THEOREM NeverOversleepsCorrect == Spec => []NeverOversleeps
<1>1. TimerInv => NeverOversleeps
  BY DEF TimerInv
<1> QED
  BY <1>1, TimerInvariant, PTL

(* Every event that was queued has one fate: no job runs twice, none runs  *)
(* after it was removed or freed, and none is lost.                        *)
THEOREM OneFateCorrect == Spec => []OneFate
<1>1. TimerInv => OneFate
  BY DEF TimerInv
<1> QED
  BY <1>1, TimerInvariant, PTL

=============================================================================
