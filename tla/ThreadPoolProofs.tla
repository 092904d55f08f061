-------------------------- MODULE ThreadPoolProofs --------------------------
(***************************************************************************)
(* For every number of workers, clients and calls and every attribute: the *)
(* thread pool counts its threads exactly and stays between minThreads and *)
(* maxThreads, although CreateWorker gives up the mutex while it waits; it *)
(* counts its busy threads exactly; and every job has one fate, through    *)
(* the shutdown and ThreadPoolRemove.                                      *)
(***************************************************************************)
EXTENDS ThreadPoolLife, FiniteSetTheorems, SequenceTheorems, TLAPS

(* The part of the type invariant that the thread count needs.             *)
CountType ==
  /\ worker \in [Workers -> WorkerStates]
  /\ totalThreads \in Nat
  /\ pendingWorkerThreadStart \in 0..1

(* The counters are exact and no thread is too many.  The lower bound is   *)
(* apart: the shutdown ends it.                                            *)
CountsExact ==
  /\ totalThreads = Cardinality(Alive)
  /\ pendingWorkerThreadStart = Cardinality(Starting)
  /\ totalThreads + pendingWorkerThreadStart <= MaxThreads

BInv == CountType /\ CountsExact
AtLeast == totalThreads >= MinThreads

(* The states of a thread that is counted in totalThreads.                 *)
Counted == WorkerStates \ {"none", "starting"}

(* The sets of threads are finite, so their cardinalities are numbers.     *)
LEMMA ThreadsFinite ==
  /\ IsFiniteSet(Alive) /\ Cardinality(Alive) \in Nat
  /\ IsFiniteSet(Starting) /\ Cardinality(Starting) \in Nat
<1>1. Alive \subseteq Workers /\ Starting \subseteq Workers
  BY DEF Alive, Starting
<1> QED
  BY <1>1, PoolAssumption, FS_Subset, FS_CardinalityType

(* A step between counted states, such as a signal, changes no count.      *)
LEMMA SameThreads ==
  ASSUME BInv, NEW w \in Workers, NEW s \in Counted,
         worker[w] \in Counted, worker' = [worker EXCEPT ![w] = s],
         UNCHANGED <<totalThreads, pendingWorkerThreadStart>>
  PROVE  BInv'
<1>1. Alive' = Alive /\ Starting' = Starting
  BY DEF BInv, CountType, Alive, Starting, Counted
<1> QED
  BY <1>1 DEF BInv, CountType, CountsExact, Counted

(* Nothing about the threads changes.                                      *)
LEMMA NoThreads ==
  ASSUME BInv, UNCHANGED <<worker, totalThreads, pendingWorkerThreadStart>>
  PROVE  BInv'
  BY DEF BInv, CountType, CountsExact, Alive, Starting

(* ithread_cond_signal wakes a counted thread.                             *)
LEMMA SignalBInv ==
  ASSUME BInv, Signal, UNCHANGED <<totalThreads, pendingWorkerThreadStart>>
  PROVE  BInv'
<1>1. CASE \E w \in Workers : worker[w] = "idle"
  <2>1. PICK w \in Workers : worker[w] = "idle" /\ worker' = [worker EXCEPT ![w] = "awake"]
    BY <1>1 DEF Signal
  <2> QED
    BY <2>1, SameThreads DEF Counted, WorkerStates
<1>2. CASE ~\E w \in Workers : worker[w] = "idle"
  BY <1>2, NoThreads DEF Signal
<1> QED
  BY <1>1, <1>2

(* CreateWorker: at most one thread is on its way up, and only if there is *)
(* room for it.                                                            *)
LEMMA CreateBInv ==
  ASSUME BInv, NEW c, NEW j, NEW q, NEW n, CreateWorker(c, j, q, n),
         UNCHANGED totalThreads
  PROVE  BInv'
<1>1. CASE UNCHANGED <<worker, pendingWorkerThreadStart>>
  BY <1>1, NoThreads
<1>2. CASE CreateFailed(c, j)
  <2>1. Signal /\ UNCHANGED pendingWorkerThreadStart
    BY <1>2 DEF CreateFailed, PutPersistent, AddDone
  <2> QED
    BY <2>1, SignalBInv
<1>3. CASE /\ pendingWorkerThreadStart = 0
           /\ totalThreads + 1 <= MaxThreads
           /\ \E w \in Workers : worker[w] = "none" /\ worker' = [worker EXCEPT ![w] = "starting"]
           /\ pendingWorkerThreadStart' = 1
  <2>1. PICK w \in Workers : worker[w] = "none" /\ worker' = [worker EXCEPT ![w] = "starting"]
    BY <1>3
  <2>2. Alive' = Alive /\ Starting' = Starting \cup {w} /\ w \notin Starting
    BY <2>1 DEF BInv, CountType, Alive, Starting
  <2>3. Cardinality(Starting') = Cardinality(Starting) + 1
    BY <2>2, ThreadsFinite, FS_AddElement
  <2>4. CountType'
    BY <1>3, <2>1 DEF BInv, CountType, WorkerStates
  <2>5. CountsExact'
    BY <1>3, <2>2, <2>3, PoolAssumption DEF BInv, CountType, CountsExact
  <2> QED
    BY <2>4, <2>5 DEF BInv
<1> QED
  BY <1>1, <1>2, <1>3 DEF CreateWorker

(* AddWorker either creates a worker or ends the call.                     *)
LEMMA AddWorkerBInv ==
  ASSUME BInv, NEW c, NEW j, NEW q, NEW n, AddWorker(c, j, q, n),
         UNCHANGED totalThreads
  PROVE  BInv'
<1>1. CASE CreateWorker(c, j, q, n)
  BY <1>1, CreateBInv
<1>2. CASE AddDone(c, j)
  BY <1>2, SignalBInv DEF AddDone
<1> QED
  BY <1>1, <1>2 DEF AddWorker

(* A thread that ends its loop counts itself out.                          *)
LEMMA ExitBInv ==
  ASSUME BInv, NEW w \in Workers, worker[w] \in Counted, WorkerExit(w),
         UNCHANGED pendingWorkerThreadStart
  PROVE  BInv'
<1>1. worker' = [worker EXCEPT ![w] = "none"] /\ totalThreads' = totalThreads - 1
  BY DEF WorkerExit
<1>2. Alive' = Alive \ {w} /\ w \in Alive /\ Starting' = Starting
  BY <1>1 DEF BInv, CountType, Alive, Starting, Counted
<1>3. /\ Cardinality(Alive') = Cardinality(Alive) - 1
      /\ Cardinality(Alive') \in Nat
  BY <1>2, ThreadsFinite, FS_RemoveElement, FS_CardinalityType
<1>4. CountType'
  BY <1>1, <1>3 DEF BInv, CountType, CountsExact, WorkerStates
<1>5. CountsExact'
  BY <1>1, <1>2, <1>3, PoolAssumption DEF BInv, CountType, CountsExact
<1> QED
  BY <1>4, <1>5 DEF BInv

(* A worker at the inner loop waits, takes a job, or dies.                 *)
LEMMA DispatchBInv ==
  ASSUME BInv, NEW w \in Workers, NEW timedOut, NEW busy, NEW persist,
         worker[w] \in Counted, Dispatch(w, timedOut, busy, persist),
         UNCHANGED pendingWorkerThreadStart
  PROVE  BInv'
<1>1. CASE WorkerWait(w) \/ PickPersistent(w) \/ PickQueued(w)
  <2>1. UNCHANGED totalThreads /\ \E s \in Counted : worker' = [worker EXCEPT ![w] = s]
    BY <1>1 DEF WorkerWait, PickPersistent, PickQueued, Counted, WorkerStates
  <2> QED
    BY <2>1, SameThreads
<1>2. CASE WorkerExit(w)
  BY <1>2, ExitBInv
<1> QED
  BY <1>1, <1>2 DEF Dispatch

(* A new thread counts itself and ends the wait of its creator.            *)
LEMMA StartBInv ==
  ASSUME BInv, NEW w \in Workers, WorkerStart(w)
  PROVE  BInv'
<1>1. /\ worker[w] = "starting" /\ worker' = [worker EXCEPT ![w] = "top"]
      /\ totalThreads' = totalThreads + 1 /\ pendingWorkerThreadStart' = 0
  BY DEF WorkerStart
<1>2. /\ Alive' = Alive \cup {w} /\ w \notin Alive
      /\ Starting' = Starting \ {w} /\ w \in Starting
  BY <1>1 DEF BInv, CountType, Alive, Starting
<1>3. /\ Cardinality(Alive') = Cardinality(Alive) + 1
      /\ Cardinality(Starting') = Cardinality(Starting) - 1
      /\ Cardinality(Starting') \in Nat
  BY <1>2, ThreadsFinite, FS_AddElement, FS_RemoveElement, FS_CardinalityType
<1>4. CountType'
  BY <1>1 DEF BInv, CountType, WorkerStates
<1>5. pendingWorkerThreadStart = 1
  BY <1>3, ThreadsFinite DEF BInv, CountType, CountsExact
<1>6. CountsExact'
  BY <1>1, <1>3, <1>5, ThreadsFinite, PoolAssumption DEF BInv, CountType, CountsExact
<1> QED
  BY <1>4, <1>6 DEF BInv

(* The pool as ThreadPoolInit leaves it has minThreads threads.            *)
LEMMA InitBInv == Init => BInv
<1> SUFFICES ASSUME Init PROVE BInv
  OBVIOUS
<1>1. PICK S \in SUBSET Workers :
        /\ Cardinality(S) = MinThreads
        /\ worker = [w \in Workers |-> IF w \in S THEN "top" ELSE "none"]
  BY DEF Init
<1>2. Alive = S /\ Starting = {}
  BY <1>1 DEF Alive, Starting
<1>3. Cardinality(Starting) = 0
  BY <1>2, FS_EmptySet
<1>4. CountType
  BY <1>1, PoolAssumption DEF Init, CountType, WorkerStates
<1> QED
  BY <1>1, <1>2, <1>3, <1>4, PoolAssumption DEF Init, BInv, CountsExact

(* Every step of a client or a worker keeps the thread count.              *)
LEMMA StepBInv == BInv /\ [Next]_vars => BInv'
<1> SUFFICES ASSUME BInv, [Next]_vars PROVE BInv'
  OBVIOUS
<1>1. ASSUME NEW c \in Clients, AddPersistent(c) PROVE BInv'
  <2>1. UNCHANGED totalThreads
    BY <1>1 DEF AddPersistent
  <2>2. CASE CreateWorker(c, NewJob("persistent"), 0, 0)
    BY <2>1, <2>2, CreateBInv
  <2>3. CASE PutPersistent(c, NewJob("persistent"))
    BY <2>1, <2>3, SignalBInv DEF PutPersistent
  <2>4. CASE UNCHANGED <<worker, pendingWorkerThreadStart>>
    BY <2>1, <2>4, NoThreads
  <2> QED
    BY <1>1, <2>2, <2>3, <2>4 DEF AddPersistent
<1>2. ASSUME NEW c \in Clients, NEW op \in Priorities, Add(c, op) PROVE BInv'
  <2>1. UNCHANGED totalThreads
    BY <1>2 DEF Add
  <2>2. CASE AddWorker(c, NewJob(op), Queued + 1, totalThreads - persistentThreads)
    BY <2>1, <2>2, AddWorkerBInv
  <2>3. CASE UNCHANGED <<worker, pendingWorkerThreadStart>>
    BY <2>1, <2>3, NoThreads
  <2> QED
    BY <1>2, <2>2, <2>3 DEF Add
<1>3. ASSUME NEW c \in Clients, ResumePending(c) PROVE BInv'
  BY <1>3, CreateBInv DEF ResumePending
<1>4. ASSUME NEW c \in Clients, ResumeStart(c) PROVE BInv'
  <2>1. UNCHANGED totalThreads
    BY <1>4 DEF ResumeStart
  <2>2. CASE UNCHANGED <<worker, pendingWorkerThreadStart>>
    BY <2>1, <2>2, NoThreads
  <2>3. CASE PutPersistent(c, cjob[c])
    BY <2>1, <2>3, SignalBInv DEF PutPersistent
  <2>4. CASE \E n : AddWorker(c, cjob[c], cjobs[c], n)
    BY <2>1, <2>4, AddWorkerBInv
  <2> QED
    BY <1>4, <2>2, <2>3, <2>4 DEF ResumeStart
<1>5. ASSUME NEW c \in Clients, ResumePersistent(c) \/ ClientWakeup(c) PROVE BInv'
  BY <1>5, NoThreads DEF ResumePersistent, ClientWakeup, countVars, workVars
<1>6. ASSUME NEW w \in Workers, WorkerStart(w) PROVE BInv'
  BY <1>6, StartBInv
<1>7. ASSUME NEW w \in Workers, WorkerTop(w) PROVE BInv'
  BY <1>7, DispatchBInv DEF WorkerTop, Counted, WorkerStates
<1>8. ASSUME NEW w \in Workers, WorkerResume(w) PROVE BInv'
  BY <1>8, DispatchBInv DEF WorkerResume, Counted, WorkerStates
<1>9. ASSUME NEW w \in Workers, WorkerTimeout(w) \/ JobReturns(w) PROVE BInv'
  <2>1. /\ worker[w] \in Counted
        /\ \E s \in Counted : worker' = [worker EXCEPT ![w] = s]
        /\ UNCHANGED <<totalThreads, pendingWorkerThreadStart>>
    BY <1>9 DEF WorkerTimeout, JobReturns, Counted, WorkerStates, countVars
  <2> QED
    BY <2>1, SameThreads
<1>10. CASE UNCHANGED vars
  BY <1>10, NoThreads DEF vars, countVars, workVars
<1> QED
  BY <1>1, <1>2, <1>3, <1>4, <1>5, <1>6, <1>7, <1>8, <1>9, <1>10
  DEF Next, ClientStep, WorkerStep

(* A thread dies only above minThreads: totalThreads never falls below it. *)
LEMMA StepAtLeast ==
  ASSUME BInv, totalThreads >= MinThreads, [Next]_vars
  PROVE  totalThreads' >= MinThreads
<1>1. ASSUME NEW w, NEW timedOut, NEW busy, NEW persist, Dispatch(w, timedOut, busy, persist)
      PROVE  totalThreads' >= MinThreads
  <2>1. CASE WorkerExit(w) /\ (totalThreads > MinThreads \/ totalThreads > MaxThreads)
    <3>1. totalThreads > MinThreads
      BY <2>1, PoolAssumption DEF BInv, CountType
    <3> QED
      BY <2>1, <3>1, PoolAssumption DEF BInv, CountType, WorkerExit
  <2>2. CASE UNCHANGED totalThreads
    BY <2>2
  <2> QED
    BY <1>1, <2>1, <2>2 DEF Dispatch, WorkerWait, PickPersistent, PickQueued
<1>2. ASSUME NEW w \in Workers, WorkerStep(w) PROVE totalThreads' >= MinThreads
  <2>1. CASE WorkerStart(w)
    BY <2>1, PoolAssumption DEF WorkerStart, BInv, CountType
  <2>2. CASE WorkerTop(w)
    BY <2>2, <1>1 DEF WorkerTop
  <2>3. CASE WorkerResume(w)
    BY <2>3, <1>1 DEF WorkerResume
  <2>4. CASE WorkerTimeout(w) \/ JobReturns(w)
    BY <2>4 DEF WorkerTimeout, JobReturns, countVars
  <2> QED
    BY <1>2, <2>1, <2>2, <2>3, <2>4 DEF WorkerStep
<1>3. ASSUME NEW c \in Clients, ClientStep(c) PROVE UNCHANGED totalThreads
  BY <1>3 DEF ClientStep, AddPersistent, Add, ResumePending, ResumeStart, ResumePersistent,
              ClientWakeup, countVars
<1>4. CASE UNCHANGED vars
  BY <1>4 DEF vars, countVars
<1> QED
  BY <1>2, <1>3, <1>4 DEF Next

(* ThreadPool.h's promise on minThreads and maxThreads, with exact         *)
(* counters, for every pool: however many clients meet in CreateWorker and *)
(* whenever idle threads time out.                                         *)
THEOREM BoundsCorrect == Spec => []ThreadBounds
<1>1. Init => BInv /\ AtLeast
  BY InitBInv, PoolAssumption DEF Init, AtLeast
<1>2. BInv /\ AtLeast /\ [Next]_vars => BInv' /\ AtLeast'
  BY StepBInv, StepAtLeast DEF AtLeast
<1>3. BInv /\ AtLeast => ThreadBounds
  BY DEF BInv, CountsExact, ThreadBounds, AtLeast
<1> QED
  BY <1>1, <1>2, <1>3, PTL DEF Spec

-----------------------------------------------------------------------------
(* Where the jobs are.                                                     *)

(* No job is queued twice.                                                 *)
QueuedOnce(q) ==
  \A p, r \in Priorities : \A i \in DOMAIN q[p], k \in DOMAIN q[r] :
    q[p][i].call = q[r][k].call => p = r /\ i = k
CallsIn(q) == UNION {{q[p][i].call : i \in DOMAIN q[p]} : p \in Priorities}
JobQueues == [Priorities -> Seq(Job)]

(* Clients whose persistent job has not yet been put into the slot.        *)
Holders ==
  {c \in Clients : client[c] \in {"cw_pending", "cw_start"} /\ cjob[c].op = "persistent"}
HeldCalls == {cjob[c].call : c \in Holders}
SlotCalls == {persistentJob.call} \ {0}

(* The calls whose job is with a client, in the pool or on a thread.       *)
Known == HeldCalls \cup SlotCalls \cup CallsIn(jobQ) \cup started

(* Every job is in one place, and made by a call.                          *)
JobsApart ==
  /\ QueuedOnce(jobQ)
  /\ SlotCalls \cap CallsIn(jobQ) = {}
  /\ started \cap (SlotCalls \cup CallsIn(jobQ)) = {}
  /\ HeldCalls \cap (SlotCalls \cup CallsIn(jobQ) \cup started) = {}
  /\ \A c, d \in Holders : cjob[c].call = cjob[d].call => c = d
  /\ Known \subseteq 1..calls
  /\ persistentJob # NoJob => persistentJob.call # 0

(* A client in a call has the job of a call.                               *)
CallsMade == \A c \in Clients : client[c] # "out" => cjob[c].call \in 1..calls

(* What a worker's local variables say where it is, and that the counters  *)
(* and the record of started jobs agree with them.                         *)
WorkerLocals ==
  \A w \in Workers :
    /\ worker[w] \notin {"top", "run"} => wjob[w] = NoJob
    /\ worker[w] \in {"none", "starting"} => wpersist[w] = -1
    /\ worker[w] = "run" => wjob[w] # NoJob
    /\ worker[w] = "top" /\ wpersist[w] = 1 => wjob[w] # NoJob
RunsApart ==
  /\ \A v, w \in Busy : wjob[v].call = wjob[w].call => v = w
  /\ \A w \in Busy : wjob[w].call \in started
WorkInv == WorkerLocals /\ BusyExact /\ RunsApart

PoolInv == TypeOK /\ BInv /\ WorkInv /\ JobsApart /\ CallsMade

(* A queue's length and its entries.                                       *)
LEMMA QueueTypes ==
  ASSUME NEW q \in JobQueues, NEW p \in Priorities
  PROVE  /\ q[p] \in Seq(Job) /\ Len(q[p]) \in Nat /\ DOMAIN q[p] = 1..Len(q[p])
         /\ \A i \in 1..Len(q[p]) : q[p][i] \in Job
<1>1. q[p] \in Seq(Job)
  BY DEF JobQueues
<1> QED
  BY <1>1, LenProperties, ElementOfSeq

(* CallsIn, element by element.                                            *)
LEMMA CallsInDef ==
  \A q \in JobQueues : \A n :
    n \in CallsIn(q) <=> \E p \in Priorities : \E i \in 1..Len(q[p]) : n = q[p][i].call
  BY QueueTypes DEF CallsIn

(* QueuedOnce over positions.                                              *)
LEMMA QueuedOnceDef ==
  \A q \in JobQueues :
    QueuedOnce(q) <=>
      \A p, r \in Priorities : \A i \in 1..Len(q[p]), k \in 1..Len(q[r]) :
        q[p][i].call = q[r][k].call => p = r /\ i = k
<1> SUFFICES ASSUME NEW q \in JobQueues
             PROVE  QueuedOnce(q) <=>
                      \A p, r \in Priorities : \A i \in 1..Len(q[p]), k \in 1..Len(q[r]) :
                        q[p][i].call = q[r][k].call => p = r /\ i = k
  OBVIOUS
<1>1. \A p \in Priorities : DOMAIN q[p] = 1..Len(q[p])
  BY QueueTypes
<1> QED
  BY <1>1, SMTT(30) DEF QueuedOnce

(* Taking entry i of queue p away: the call is gone, the rest stays.       *)
Drops(q, r, p, i) ==
  /\ \A s \in Priorities \ {p} : r[s] = q[s]
  /\ Len(r[p]) = Len(q[p]) - 1
  /\ \A k \in 1..Len(r[p]) : r[p][k] = IF k < i THEN q[p][k] ELSE q[p][k + 1]

(* A job that leaves a queue leaves no second copy.                        *)
LEMMA DropOne ==
  ASSUME NEW q \in JobQueues, NEW r \in JobQueues, QueuedOnce(q),
         NEW p \in Priorities, NEW i \in 1..Len(q[p]), Drops(q, r, p, i)
  PROVE  QueuedOnce(r) /\ CallsIn(r) = CallsIn(q) \ {q[p][i].call}
<1>0. /\ \A s \in Priorities : DOMAIN q[s] = 1..Len(q[s]) /\ Len(q[s]) \in Nat
      /\ \A s \in Priorities : DOMAIN r[s] = 1..Len(r[s]) /\ Len(r[s]) \in Nat
  BY QueueTypes
<1> USE DEF Drops
<1>1. \A s \in Priorities : \A k \in 1..Len(r[s]) :
        \E m \in 1..Len(q[s]) : /\ r[s][k] = q[s][m]
                                /\ m = IF s = p /\ k >= i THEN k + 1 ELSE k
  <2> TAKE s \in Priorities
  <2> TAKE k \in 1..Len(r[s])
  <2>1. CASE s # p
    BY <2>1, <1>0
  <2>2. CASE s = p /\ k < i
    BY <2>2, <1>0
  <2>3. CASE s = p /\ ~(k < i)
    <3>1. k + 1 \in 1..Len(q[s])
      BY <2>3, <1>0
    <3> QED
      BY <2>3, <3>1, <1>0
  <2> QED
    BY <2>1, <2>2, <2>3
<1>2. QueuedOnce(r)
  <2> SUFFICES ASSUME NEW s \in Priorities, NEW t \in Priorities,
                      NEW k \in 1..Len(r[s]), NEW l \in 1..Len(r[t]),
                      r[s][k].call = r[t][l].call
               PROVE  s = t /\ k = l
    BY QueuedOnceDef, Zenon
  <2>1. PICK m \in 1..Len(q[s]) : /\ r[s][k] = q[s][m]
                                  /\ m = IF s = p /\ k >= i THEN k + 1 ELSE k
    BY <1>1
  <2>2. PICK n \in 1..Len(q[t]) : /\ r[t][l] = q[t][n]
                                  /\ n = IF t = p /\ l >= i THEN l + 1 ELSE l
    BY <1>1
  <2>3. s = t /\ m = n
    BY <2>1, <2>2, <1>0 DEF QueuedOnce
  <2> QED
    BY <2>1, <2>2, <2>3, <1>0
<1>3. ASSUME NEW n \in CallsIn(r) PROVE n \in CallsIn(q) \ {q[p][i].call}
  <2>0. PICK s \in Priorities : \E k \in 1..Len(r[s]) : n = r[s][k].call
    BY <1>3, CallsInDef
  <2>1. PICK k \in 1..Len(r[s]) : n = r[s][k].call
    BY <2>0
  <2>2. PICK m \in 1..Len(q[s]) : /\ r[s][k] = q[s][m]
                                  /\ m = IF s = p /\ k >= i THEN k + 1 ELSE k
    BY <1>1
  <2>3. n \in CallsIn(q)
    BY <2>1, <2>2, CallsInDef
  <2>4. ~(s = p /\ m = i)
    BY <2>2, <1>0
  <2>5. q[s][m].call # q[p][i].call
    BY <2>4, <1>0 DEF QueuedOnce
  <2> QED
    BY <2>1, <2>2, <2>3, <2>5
<1>4. ASSUME NEW n \in CallsIn(q), n # q[p][i].call PROVE n \in CallsIn(r)
  <2>0. PICK s \in Priorities : \E m \in 1..Len(q[s]) : n = q[s][m].call
    BY <1>4, CallsInDef
  <2>1. PICK m \in 1..Len(q[s]) : n = q[s][m].call
    BY <2>0
  <2>2. CASE s # p
    BY <2>1, <2>2, CallsInDef
  <2>3. CASE s = p /\ m < i
    <3>1. m \in 1..Len(r[p]) /\ r[p][m] = q[p][m]
      BY <2>3, <1>0
    <3> QED
      BY <2>1, <2>3, <3>1, CallsInDef
  <2>4. CASE s = p /\ m > i
    <3>1. m - 1 \in 1..Len(r[p]) /\ r[p][m - 1] = q[p][m]
      BY <2>4, <1>0
    <3> QED
      BY <2>1, <2>4, <3>1, CallsInDef
  <2>5. ~(s = p /\ m = i)
    BY <1>4, <2>1
  <2> QED
    BY <2>2, <2>3, <2>4, <2>5, <1>0
<1> QED
  BY <1>2, <1>3, <1>4

(* Appending the job of a new call.                                        *)
LEMMA AppendOne ==
  ASSUME NEW q \in JobQueues, NEW r \in JobQueues, QueuedOnce(q),
         NEW p \in Priorities, NEW j, j.call \notin CallsIn(q),
         \A s \in Priorities \ {p} : r[s] = q[s],
         Len(r[p]) = Len(q[p]) + 1, r[p][Len(q[p]) + 1] = j,
         \A i \in 1..Len(q[p]) : r[p][i] = q[p][i]
  PROVE  QueuedOnce(r) /\ CallsIn(r) = CallsIn(q) \cup {j.call}
<1>3. /\ \A s \in Priorities : DOMAIN q[s] = 1..Len(q[s]) /\ Len(q[s]) \in Nat
      /\ \A s \in Priorities : DOMAIN r[s] = 1..Len(r[s]) /\ Len(r[s]) \in Nat
  BY QueueTypes
<1>5. QueuedOnce(q) /\ \A s \in Priorities : \A k \in 1..Len(q[s]) : q[s][k].call # j.call
  BY CallsInDef
<1>6. \A s \in Priorities : \A k \in 1..Len(r[s]) :
        \/ k \in 1..Len(q[s]) /\ r[s][k] = q[s][k]
        \/ s = p /\ k = Len(q[p]) + 1 /\ r[s][k] = j
  BY <1>3
<1>7. QueuedOnce(r)
  <2> SUFFICES ASSUME NEW s \in Priorities, NEW t \in Priorities,
                      NEW k \in 1..Len(r[s]), NEW l \in 1..Len(r[t]),
                      r[s][k].call = r[t][l].call
               PROVE  s = t /\ k = l
    BY QueuedOnceDef, Zenon
  <2>1. CASE k \in 1..Len(q[s]) /\ l \in 1..Len(q[t])
    <3>1. r[s][k] = q[s][k] /\ r[t][l] = q[t][l]
      BY <2>1, <1>3
    <3> QED
      BY <2>1, <3>1, <1>5, QueuedOnceDef
  <2> QED
    BY <2>1, <1>5, <1>6
<1>8. ASSUME NEW n \in CallsIn(r) PROVE n \in CallsIn(q) \cup {j.call}
  <2>0. PICK s \in Priorities : \E k \in 1..Len(r[s]) : n = r[s][k].call
    BY <1>8, CallsInDef
  <2>1. PICK k \in 1..Len(r[s]) : n = r[s][k].call
    BY <2>0
  <2> QED
    BY <2>1, <1>6, CallsInDef
<1>9. ASSUME NEW n \in CallsIn(q) PROVE n \in CallsIn(r)
  <2>0. PICK s \in Priorities : \E k \in 1..Len(q[s]) : n = q[s][k].call
    BY <1>9, CallsInDef
  <2>1. PICK k \in 1..Len(q[s]) : n = q[s][k].call
    BY <2>0
  <2>2. k \in 1..Len(r[s]) /\ r[s][k] = q[s][k]
    BY <1>3
  <2> QED
    BY <2>1, <2>2, CallsInDef, Zenon
<1>10. j.call \in CallsIn(r)
  <2>1. Len(q[p]) + 1 \in 1..Len(r[p])
    BY <1>3
  <2> QED
    BY <2>1, CallsInDef, Zenon
<1> QED
  BY <1>7, <1>8, <1>9, <1>10

(* The three queues in one line, and where an entry stands in it.          *)
Whole(q) == (q["high"] \o q["med"]) \o q["low"]
CallsOnce(s) == \A i, k \in 1..Len(s) : s[i].call = s[k].call => i = k
Place(q, p, i) ==
  CASE p = "high" -> i
    [] p = "med" -> Len(q["high"]) + i
    [] p = "low" -> Len(q["high"]) + Len(q["med"]) + i

(* Every entry has a place in the line, every place one entry.             *)
LEMMA WholePlaces ==
  ASSUME NEW q \in JobQueues
  PROVE  /\ Len(Whole(q)) = Len(q["high"]) + Len(q["med"]) + Len(q["low"])
         /\ \A p \in Priorities : \A i \in 1..Len(q[p]) :
              Place(q, p, i) \in 1..Len(Whole(q)) /\ Whole(q)[Place(q, p, i)] = q[p][i]
         /\ \A k \in 1..Len(Whole(q)) :
              \E p \in Priorities : \E i \in 1..Len(q[p]) : k = Place(q, p, i)
         /\ \A p, r \in Priorities : \A i \in 1..Len(q[p]), k \in 1..Len(q[r]) :
              Place(q, p, i) = Place(q, r, k) => p = r /\ i = k
<1> DEFINE h == q["high"]
           m == q["med"]
           l == q["low"]
           hm == h \o m
           x == hm \o l
<1>1. /\ h \in Seq(Job) /\ m \in Seq(Job) /\ l \in Seq(Job)
      /\ Len(h) \in Nat /\ Len(m) \in Nat /\ Len(l) \in Nat
  BY QueueTypes DEF Priorities
<1> HIDE DEF h, m, l
<1>2. /\ hm \in Seq(Job) /\ Len(hm) = Len(h) + Len(m)
      /\ \A i \in 1..Len(h) + Len(m) : hm[i] = IF i <= Len(h) THEN h[i] ELSE m[i - Len(h)]
  BY <1>1, ConcatProperties
<1> HIDE DEF hm
<1>3. /\ Len(x) = Len(hm) + Len(l)
      /\ \A i \in 1..Len(hm) + Len(l) : x[i] = IF i <= Len(hm) THEN hm[i] ELSE l[i - Len(hm)]
  <2>1. hm \in Seq(Job) /\ l \in Seq(Job)
    BY <1>1, <1>2
  <2> QED
    BY <2>1, ConcatProperties
<1> HIDE DEF x
<1>4. Whole(q) = x
  BY DEF Whole, x, hm, h, m, l
<1>5a. ASSUME NEW i \in 1..Len(h) PROVE i \in 1..Len(x) /\ x[i] = h[i]
  BY <1>1, <1>2, <1>3
<1>5b. ASSUME NEW i \in 1..Len(m) PROVE Len(h) + i \in 1..Len(x) /\ x[Len(h) + i] = m[i]
  <2>1. /\ Len(h) + i \in 1..Len(hm) /\ Len(h) + i \in 1..Len(hm) + Len(l)
        /\ ~(Len(h) + i <= Len(h)) /\ (Len(h) + i) - Len(h) = i
    BY <1>1, <1>2
  <2> QED
    BY <1>1, <1>2, <1>3, <2>1
<1>5c. ASSUME NEW i \in 1..Len(l)
       PROVE  Len(h) + Len(m) + i \in 1..Len(x) /\ x[Len(h) + Len(m) + i] = l[i]
  <2>1. /\ Len(h) + Len(m) + i \in 1..Len(hm) + Len(l)
        /\ ~(Len(h) + Len(m) + i <= Len(hm)) /\ (Len(h) + Len(m) + i) - Len(hm) = i
    BY <1>1, <1>2
  <2> QED
    BY <1>3, <2>1
<1>6. /\ \A i : Place(q, "high", i) = i
      /\ \A i : Place(q, "med", i) = Len(h) + i
      /\ \A i : Place(q, "low", i) = Len(h) + Len(m) + i
  BY DEF Place, h, m
<1>7. ASSUME NEW k \in 1..Len(x)
      PROVE  \E p \in Priorities : \E i \in 1..Len(q[p]) : k = Place(q, p, i)
  <2>1. CASE k <= Len(h)
    <3>1. k \in 1..Len(q["high"]) /\ k = Place(q, "high", k)
      BY <2>1, <1>1, <1>6 DEF h
    <3> QED
      BY <3>1 DEF Priorities
  <2>2. CASE Len(h) < k /\ k <= Len(h) + Len(m)
    <3>1. k - Len(h) \in 1..Len(q["med"]) /\ k = Place(q, "med", k - Len(h))
      BY <2>2, <1>1, <1>6 DEF m
    <3> QED
      BY <3>1 DEF Priorities
  <2>3. CASE Len(h) + Len(m) < k
    <3>1. k - (Len(h) + Len(m)) \in 1..Len(l)
      BY <2>3, <1>1, <1>2, <1>3
    <3>2. k = Place(q, "low", k - (Len(h) + Len(m)))
      BY <2>3, <1>1, <1>6
    <3> QED
      BY <3>1, <3>2 DEF Priorities, l
  <2> QED
    BY <2>1, <2>2, <2>3, <1>1
<1>8. ASSUME NEW p \in Priorities, NEW i \in 1..Len(q[p])
      PROVE  Place(q, p, i) \in 1..Len(x) /\ x[Place(q, p, i)] = q[p][i]
  <2>1. CASE p = "high"
    BY <2>1, <1>5a, <1>6 DEF h
  <2>2. CASE p = "med"
    BY <2>2, <1>5b, <1>6 DEF m
  <2>3. CASE p = "low"
    BY <2>3, <1>5c, <1>6 DEF l
  <2> QED
    BY <2>1, <2>2, <2>3 DEF Priorities
<1>9. ASSUME NEW p \in Priorities, NEW r \in Priorities,
             NEW i \in 1..Len(q[p]), NEW k \in 1..Len(q[r]), Place(q, p, i) = Place(q, r, k)
      PROVE  p = r /\ i = k
  <2>1. /\ p = "high" => i \in 1..Len(h) /\ Place(q, p, i) = i
        /\ p = "med" => i \in 1..Len(m) /\ Place(q, p, i) = Len(h) + i
        /\ p = "low" => i \in 1..Len(l) /\ Place(q, p, i) = Len(h) + Len(m) + i
    BY <1>6 DEF h, m, l
  <2>2. /\ r = "high" => k \in 1..Len(h) /\ Place(q, r, k) = k
        /\ r = "med" => k \in 1..Len(m) /\ Place(q, r, k) = Len(h) + k
        /\ r = "low" => k \in 1..Len(l) /\ Place(q, r, k) = Len(h) + Len(m) + k
    BY <1>6 DEF h, m, l
  <2> QED
    BY <1>1, <1>9, <2>1, <2>2 DEF Priorities
<1>10. Len(x) = Len(q["high"]) + Len(q["med"]) + Len(q["low"])
  BY <1>1, <1>2, <1>3 DEF h, m, l
<1> QED
  BY <1>4, <1>7, <1>8, <1>9, <1>10

(* A job is queued twice just when it is in the line twice.                *)
LEMMA WholeOnce ==
  ASSUME NEW q \in JobQueues
  PROVE  /\ QueuedOnce(q) <=> CallsOnce(Whole(q))
         /\ \A n : n \in CallsIn(q) <=> \E k \in 1..Len(Whole(q)) : n = Whole(q)[k].call
<1> DEFINE x == Whole(q)
           P(p, i) == Place(q, p, i)
<1>1. /\ \A p \in Priorities : \A i \in 1..Len(q[p]) : P(p, i) \in 1..Len(x) /\ x[P(p, i)] = q[p][i]
      /\ \A k \in 1..Len(x) : \E p \in Priorities : \E i \in 1..Len(q[p]) : k = P(p, i)
  BY WholePlaces
<1>0. \A p, r \in Priorities : \A i \in 1..Len(q[p]), k \in 1..Len(q[r]) :
        P(p, i) = P(r, k) => p = r /\ i = k
  BY WholePlaces
<1> HIDE DEF x, P
<1>2. ASSUME QueuedOnce(q) PROVE CallsOnce(x)
  <2> SUFFICES ASSUME NEW a \in 1..Len(x), NEW b \in 1..Len(x), x[a].call = x[b].call
               PROVE  a = b
    BY DEF CallsOnce
  <2>1. PICK p \in Priorities : \E i \in 1..Len(q[p]) : a = P(p, i)
    BY <1>1
  <2>2. PICK i \in 1..Len(q[p]) : a = P(p, i)
    BY <2>1
  <2>3. PICK r \in Priorities : \E i_1 \in 1..Len(q[r]) : b = P(r, i_1)
    BY <1>1
  <2>4. PICK k \in 1..Len(q[r]) : b = P(r, k)
    BY <2>3
  <2>5. q[p][i].call = q[r][k].call
    BY <1>1, <2>2, <2>4
  <2>6. p = r /\ i = k
    BY <1>2, <2>5, QueuedOnceDef
  <2> QED
    BY <2>2, <2>4, <2>6
<1>3. ASSUME CallsOnce(x) PROVE QueuedOnce(q)
  <2> SUFFICES ASSUME NEW s \in Priorities, NEW t \in Priorities,
                      NEW i \in 1..Len(q[s]), NEW k \in 1..Len(q[t]),
                      q[s][i].call = q[t][k].call
               PROVE  s = t /\ i = k
    BY QueuedOnceDef
  <2>1. P(s, i) = P(t, k)
    <3>1. /\ P(s, i) \in 1..Len(x) /\ x[P(s, i)] = q[s][i]
          /\ P(t, k) \in 1..Len(x) /\ x[P(t, k)] = q[t][k]
      BY <1>1, Zenon
    <3> QED
      BY <1>3, <3>1 DEF CallsOnce
  <2> QED
    <3>1. \A a \in 1..Len(q[s]), b \in 1..Len(q[t]) : P(s, a) = P(t, b) => s = t /\ a = b
      BY <1>0
    <3> QED
      BY <2>1, <3>1
<1>4. ASSUME NEW n PROVE n \in CallsIn(q) <=> \E k \in 1..Len(x) : n = x[k].call
  <2>1. n \in CallsIn(q) <=> \E p \in Priorities : \E i \in 1..Len(q[p]) : n = q[p][i].call
    BY CallsInDef
  <2> QED
    BY <1>1, <2>1
<1> QED
  BY <1>2, <1>3, <1>4 DEF x

(* Splitting a sequence leaves its line.                                   *)
LEMMA SplitAt ==
  ASSUME NEW s \in Seq(Job), NEW i \in 0..Len(s)
  PROVE  /\ SubSeq(s, 1, i) \in Seq(Job) /\ SubSeq(s, i + 1, Len(s)) \in Seq(Job)
         /\ SubSeq(s, 1, i) \o SubSeq(s, i + 1, Len(s)) = s
         /\ Len(SubSeq(s, 1, i)) = i
<1>0. Len(s) \in Nat
  BY LenProperties
<1>1. (\A k \in 1..i : s[k] \in Job) /\ (\A k \in i + 1..Len(s) : s[k] \in Job)
  BY <1>0, ElementOfSeq
<1>2. SubSeq(s, 1, i) \in Seq(Job) /\ Len(SubSeq(s, 1, i)) = i
  BY <1>0, <1>1, SubSeqProperties
<1>3. SubSeq(s, i + 1, Len(s)) \in Seq(Job)
  BY <1>0, <1>1, SubSeqProperties
<1>4. SubSeq(s, 1, i) \o SubSeq(s, i + 1, Len(s)) = SubSeq(s, 1, Len(s))
  <2>1. 1 \in 1..Len(s) + 1 /\ i \in 1 - 1..Len(s) /\ Len(s) \in i..Len(s)
    BY <1>0
  <2> QED
    BY <2>1, ConcatAdjacentSubSeq
<1> QED
  BY <1>2, <1>3, <1>4, SubSeqFull

(* Three pieces of a queue in a row.                                       *)
LEMMA JobSeqsAssociate == \A s, t, u \in Seq(Job) : (s \o t) \o u = s \o (t \o u)
  BY ConcatAssociative

(* BumpPriority moves jobs up without losing or repeating one.             *)
LEMMA BumpedSame ==
  ASSUME jobQ \in JobQueues, NEW q \in Bumped
  PROVE  /\ q \in JobQueues
         /\ QueuedOnce(jobQ) <=> QueuedOnce(q)
         /\ CallsIn(q) = CallsIn(jobQ)
<1> DEFINE h == jobQ["high"]
           m == jobQ["med"]
           l == jobQ["low"]
<1>1. PICK d \in (0..Len(l)) \X (0..Queued) :
        d[2] <= Len(m) + d[1] /\ q = Bump(d[1], d[2])
  BY DEF Bumped
<1> DEFINE i == d[1]
           j == d[2]
           b1 == SubSeq(l, 1, i)
           b2 == SubSeq(l, i + 1, Len(l))
           med == m \o b1
           d1 == SubSeq(med, 1, j)
           d2 == SubSeq(med, j + 1, Len(med))
<1>2. /\ h \in Seq(Job) /\ m \in Seq(Job) /\ l \in Seq(Job)
      /\ Len(h) \in Nat /\ Len(m) \in Nat /\ Len(l) \in Nat
  BY QueueTypes DEF Priorities
<1>3. i \in 0..Len(l) /\ j \in Nat /\ j <= Len(m) + i
  BY <1>1, <1>2 DEF Queued
<1>4. q = [high |-> h \o d1, med |-> d2, low |-> b2]
  BY <1>1 DEF Bump
<1> HIDE DEF h, m, l, i, j
<1>5. b1 \in Seq(Job) /\ b2 \in Seq(Job) /\ b1 \o b2 = l /\ Len(b1) = i
  BY <1>2, <1>3, SplitAt
<1> HIDE DEF b1, b2
<1>6. med \in Seq(Job) /\ Len(med) = Len(m) + i
  BY <1>2, <1>5, ConcatProperties
<1>7. j \in 0..Len(med)
  BY <1>2, <1>3, <1>6
<1>8. med = m \o b1
  OBVIOUS
<1> HIDE DEF med
<1>9. d1 \in Seq(Job) /\ d2 \in Seq(Job) /\ d1 \o d2 = med
  BY <1>6, <1>7, SplitAt
<1> HIDE DEF d1, d2
<1>10. h \o d1 \in Seq(Job) /\ h \o m \in Seq(Job)
  BY <1>2, <1>9, ConcatProperties
<1>11. q \in JobQueues
  <2> DEFINE hd == h \o d1
  <2> HIDE DEF hd
  <2>1. hd \in Seq(Job) /\ q = [high |-> hd, med |-> d2, low |-> b2]
    BY <1>4, <1>10 DEF hd
  <2> QED
    BY <2>1, <1>5, <1>9 DEF JobQueues, Priorities
<1>12. (h \o d1) \o d2 = h \o med
  BY <1>2, <1>9, JobSeqsAssociate, Zenon
<1>13. h \o med = (h \o m) \o b1
  BY <1>2, <1>5, <1>8, JobSeqsAssociate, Zenon
<1>14. ((h \o m) \o b1) \o b2 = (h \o m) \o l
  BY <1>5, <1>10, JobSeqsAssociate, Zenon
<1>15. Whole(q) = ((h \o d1) \o d2) \o b2
  BY <1>4 DEF Whole
<1>16. Whole(q) = Whole(jobQ)
  BY <1>12, <1>13, <1>14, <1>15 DEF Whole, h, m, l
<1> HIDE DEF h
<1>17. QueuedOnce(jobQ) <=> QueuedOnce(q)
  BY <1>11, <1>16, WholeOnce
<1>18. \A n : n \in CallsIn(q) <=> n \in CallsIn(jobQ)
  BY <1>11, <1>16, WholeOnce
<1> QED
  BY <1>11, <1>17, <1>18

(* WorkerThread takes the head of a queue.                                 *)
PickFrom(q, p) == [s \in Priorities |-> IF s = p THEN Tail(q[s]) ELSE q[s]]

(* The pickup takes the head of a queue out of it.                         *)
LEMMA PickDrops ==
  ASSUME NEW q \in JobQueues, QueuedOnce(q), NEW p \in Priorities, q[p] # <<>>
  PROVE  /\ PickFrom(q, p) \in JobQueues /\ QueuedOnce(PickFrom(q, p))
         /\ CallsIn(PickFrom(q, p)) = CallsIn(q) \ {Head(q[p]).call}
         /\ Head(q[p]) \in Job /\ Head(q[p]).call \in CallsIn(q)
<1> DEFINE r == PickFrom(q, p)
           z == q[p]
           t == Tail(z)
<1>1. z \in Seq(Job) /\ Len(z) \in Nat /\ z # <<>>
  BY QueueTypes
<1> HIDE DEF z
<1>2. /\ t \in Seq(Job) /\ Len(t) = Len(z) - 1 /\ Head(z) = z[1] /\ Head(z) \in Job
      /\ \A k \in 1..Len(t) : t[k] = z[k + 1]
  BY <1>1, HeadTailProperties
<1> HIDE DEF t
<1>3. r \in JobQueues /\ r[p] = t /\ \A s \in Priorities \ {p} : r[s] = q[s]
  BY <1>2 DEF JobQueues, PickFrom, t, z
<1> HIDE DEF r
<1>4. 1 \in 1..Len(q[p])
  <2>1. Len(z) \in Nat \ {0}
    BY <1>1, EmptySeq
  <2> QED
    BY <2>1 DEF z
<1>5. \A k \in 1..Len(r[p]) : r[p][k] = IF k < 1 THEN q[p][k] ELSE q[p][k + 1]
  BY <1>2, <1>3 DEF z
<1>6. Len(r[p]) = Len(q[p]) - 1
  BY <1>2, <1>3 DEF z
<1>7. QueuedOnce(r) /\ CallsIn(r) = CallsIn(q) \ {q[p][1].call}
  <2>1. Drops(q, r, p, 1)
    BY <1>3, <1>5, <1>6 DEF Drops
  <2> QED
    BY <1>3, <1>4, <2>1, DropOne
<1>8. q[p][1].call \in CallsIn(q)
  BY <1>4, CallsInDef
<1>9. Head(q[p]) = q[p][1] /\ Head(q[p]) \in Job
  BY <1>2 DEF z
<1> QED
  BY <1>3, <1>7, <1>8, <1>9 DEF r

(* ThreadPoolRemove takes an entry out of a queue.                         *)
LEMMA RemoveDrops ==
  ASSUME NEW q \in JobQueues, QueuedOnce(q), NEW p \in Priorities, NEW i \in 1..Len(q[p])
  PROVE  LET r == [q EXCEPT ![p] = Without(@, i)]
         IN  /\ r \in JobQueues /\ QueuedOnce(r)
             /\ CallsIn(r) = CallsIn(q) \ {q[p][i].call}
<1> DEFINE r == [q EXCEPT ![p] = Without(@, i)]
           z == q[p]
           a == SubSeq(z, 1, i - 1)
           b == SubSeq(z, i + 1, Len(z))
           t == a \o b
<1>1. z \in Seq(Job) /\ Len(z) \in Nat /\ i \in 1..Len(z) /\ \A k \in 1..Len(z) : z[k] \in Job
  BY QueueTypes
<1> HIDE DEF z
<1>2. /\ a \in Seq(Job) /\ Len(a) = i - 1 /\ \A k \in 1..i - 1 : a[k] = z[k]
  <2>1. 1 \in Int /\ i - 1 \in Int /\ \A k \in 1..i - 1 : z[k] \in Job
    BY <1>1
  <2> QED
    BY <1>1, <2>1, SubSeqProperties
<1>3. /\ b \in Seq(Job) /\ Len(b) = Len(z) - i
      /\ \A k \in 1..Len(z) - i : b[k] = z[i + k]
  <2>1. i + 1 \in Int /\ Len(z) \in Int /\ \A k \in i + 1..Len(z) : z[k] \in Job
    BY <1>1
  <2> QED
    BY <1>1, <2>1, SubSeqProperties
<1> HIDE DEF a, b
<1>4. /\ t \in Seq(Job) /\ Len(t) = Len(a) + Len(b)
      /\ \A k \in 1..Len(a) + Len(b) : t[k] = IF k <= Len(a) THEN a[k] ELSE b[k - Len(a)]
  BY <1>2, <1>3, ConcatProperties
<1> HIDE DEF t
<1>5. Len(t) = Len(z) - 1
  BY <1>1, <1>2, <1>3, <1>4
<1>6. ASSUME NEW k \in 1..Len(t) PROVE t[k] = IF k < i THEN z[k] ELSE z[k + 1]
  <2>1. CASE k < i
    <3>1. k \in 1..Len(a) + Len(b) /\ k <= Len(a) /\ k \in 1..i - 1
      BY <2>1, <1>1, <1>2, <1>3, <1>5
    <3> QED
      BY <2>1, <3>1, <1>2, <1>4
  <2>2. CASE ~(k < i)
    <3>1. /\ k \in 1..Len(a) + Len(b) /\ ~(k <= Len(a)) /\ k - Len(a) \in 1..Len(z) - i
          /\ i + (k - Len(a)) = k + 1
      BY <2>2, <1>1, <1>2, <1>3, <1>5
    <3> QED
      BY <2>2, <3>1, <1>3, <1>4
  <2> QED
    BY <2>1, <2>2
<1>7. r \in JobQueues /\ r[p] = t /\ \A s \in Priorities \ {p} : r[s] = q[s]
  BY <1>4 DEF JobQueues, Without, t, a, b, z
<1> HIDE DEF r
<1>8. \A k \in 1..Len(r[p]) : r[p][k] = IF k < i THEN q[p][k] ELSE q[p][k + 1]
  BY <1>6, <1>7 DEF z
<1>9. Len(r[p]) = Len(q[p]) - 1
  BY <1>5, <1>7 DEF z
<1>10. QueuedOnce(r) /\ CallsIn(r) = CallsIn(q) \ {q[p][i].call}
  <2>1. Drops(q, r, p, i)
    BY <1>7, <1>8, <1>9 DEF Drops
  <2> QED
    BY <1>7, <2>1, DropOne
<1> QED
  BY <1>7, <1>10 DEF r

(* ThreadPoolAdd appends the job of its call.                              *)
LEMMA AddAppends ==
  ASSUME NEW q \in JobQueues, QueuedOnce(q), NEW p \in Priorities,
         NEW j \in Job, j.call \notin CallsIn(q)
  PROVE  LET r == [q EXCEPT ![p] = Append(@, j)]
         IN  /\ r \in JobQueues /\ QueuedOnce(r)
             /\ CallsIn(r) = CallsIn(q) \cup {j.call}
<1> DEFINE r == [q EXCEPT ![p] = Append(@, j)]
           z == q[p]
           t == Append(z, j)
<1>1. z \in Seq(Job)
  BY QueueTypes
<1> HIDE DEF z
<1>2. /\ t \in Seq(Job) /\ Len(t) = Len(z) + 1 /\ t[Len(z) + 1] = j
      /\ \A k \in 1..Len(z) : t[k] = z[k]
  BY <1>1, AppendProperties
<1> HIDE DEF t
<1>3. r \in JobQueues /\ r[p] = t /\ \A s \in Priorities \ {p} : r[s] = q[s]
  BY <1>2 DEF JobQueues, t, z
<1> HIDE DEF r
<1>4. /\ Len(r[p]) = Len(q[p]) + 1 /\ r[p][Len(q[p]) + 1] = j
      /\ \A k \in 1..Len(q[p]) : r[p][k] = q[p][k]
  BY <1>2, <1>3 DEF z
<1>5. QueuedOnce(r) /\ CallsIn(r) = CallsIn(q) \cup {j.call}
  BY <1>3, <1>4, AppendOne
<1> QED
  BY <1>3, <1>5 DEF r

-----------------------------------------------------------------------------
(* The steps of a client.  A call that carries job j into the pool parks   *)
(* in CreateWorker, puts a persistent job into the slot, or ends.          *)

Wakes ==
  \/ UNCHANGED worker
  \/ \E w \in Workers : worker[w] = "idle" /\ worker' = [worker EXCEPT ![w] = "awake"]

Parks(c, j, q, n) ==
  /\ \E l \in {"cw_pending", "cw_start"} : Block(c, l)
  /\ cjob' = [cjob EXCEPT ![c] = j]
  /\ cjobs' = [cjobs EXCEPT ![c] = q]
  /\ cthreads' = [cthreads EXCEPT ![c] = n]
  /\ \/ UNCHANGED worker
     \/ \E w \in Workers : worker[w] = "none" /\ worker' = [worker EXCEPT ![w] = "starting"]
  /\ pendingWorkerThreadStart' \in {pendingWorkerThreadStart, 1}
  /\ UNCHANGED <<persistentJob, lastJobId, granted>>

Carries(c, j, q, n) ==
  \/ Parks(c, j, q, n)
  \/ j.op = "persistent" /\ PutPersistent(c, j)
  \/ j.op # "persistent" /\ AddDone(c, j)

(* What the pool's threads and counters see of a client.                   *)
ClientFrame ==
  UNCHANGED <<totalThreads, busyThreads, persistentThreads, wjob, wpersist, started>>

(* pthread_cond_signal wakes at most one idle worker.                      *)
LEMMA SignalWakes == Signal => Wakes
  BY DEF Signal, Wakes

(* A call that waits for a worker, or finds the pool full, carries its job. *)
LEMMA CreateCarries ==
  ASSUME NEW c, NEW j, NEW q, NEW n, CreateWorker(c, j, q, n)
  PROVE  Carries(c, j, q, n)
<1>1. CASE CreateFailed(c, j)
  BY <1>1 DEF CreateFailed, Carries
<1>2. CASE /\ pendingWorkerThreadStart = 1
           /\ Block(c, "cw_pending")
           /\ cjob' = [cjob EXCEPT ![c] = j]
           /\ cjobs' = [cjobs EXCEPT ![c] = q]
           /\ cthreads' = [cthreads EXCEPT ![c] = n]
           /\ UNCHANGED <<persistentJob, worker, lastJobId, granted, pendingWorkerThreadStart>>
  BY <1>2 DEF Carries, Parks
<1>3. CASE /\ \E w \in Workers : worker[w] = "none" /\ worker' = [worker EXCEPT ![w] = "starting"]
           /\ pendingWorkerThreadStart' = 1
           /\ Block(c, "cw_start")
           /\ cjob' = [cjob EXCEPT ![c] = j]
           /\ cjobs' = [cjobs EXCEPT ![c] = q]
           /\ cthreads' = [cthreads EXCEPT ![c] = n]
           /\ UNCHANGED <<persistentJob, lastJobId, granted>>
  BY <1>3 DEF Carries, Parks
<1> QED
  BY <1>1, <1>2, <1>3 DEF CreateWorker

(* AddWorker carries the job, or ends the call.                             *)
LEMMA AddWorkerCarries ==
  ASSUME NEW c, NEW j, NEW q, NEW n, j.op # "persistent", AddWorker(c, j, q, n)
  PROVE  Carries(c, j, q, n)
<1>1. CASE CreateWorker(c, j, q, n)
  BY <1>1, CreateCarries
<1>2. CASE AddDone(c, j)
  BY <1>2 DEF Carries
<1> QED
  BY <1>1, <1>2 DEF AddWorker

(* What a carried job does to the clients and the slot.                    *)
LEMMA CarryPlaces ==
  ASSUME TypeOK, NEW c \in Clients, NEW j \in Job, NEW q, NEW n, Carries(c, j, q, n)
  PROVE  /\ \A d \in Clients \ {c} : client'[d] = client[d] /\ cjob'[d] = cjob[d]
         /\ client'[c] # "out" => cjob'[c] = j
         /\ \/ persistentJob' = persistentJob
            \/ /\ j.op = "persistent" /\ client'[c] = "ap_wait"
               /\ persistentJob' \in Job /\ persistentJob'.call = j.call
<1>1. CASE Parks(c, j, q, n)
  BY <1>1 DEF Parks, Block, TypeOK
<1>2. CASE j.op = "persistent" /\ PutPersistent(c, j)
  <2>1. /\ client' = [client EXCEPT ![c] = "ap_wait"] /\ cjob' = [cjob EXCEPT ![c] = j]
        /\ persistentJob' = [j EXCEPT !.id = lastJobId]
    BY <1>2 DEF PutPersistent, Block
  <2>2. persistentJob' \in Job /\ persistentJob'.call = j.call
    BY <2>1 DEF TypeOK, Job
  <2> QED
    BY <1>2, <2>1, <2>2 DEF TypeOK
<1>3. CASE AddDone(c, j)
  BY <1>3 DEF AddDone, TypeOK
<1> QED
  BY <1>1, <1>2, <1>3 DEF Carries

(* The types of what a carried job changes.                                *)
LEMMA CarryTypes ==
  ASSUME TypeOK, NEW c \in Clients, NEW j \in Job, NEW q \in Nat, NEW n \in Int,
         Carries(c, j, q, n), ClientFrame, jobQ' \in JobQueues, calls' \in 0..MaxCalls,
         j.call \in 1..MaxCalls
  PROVE  TypeOK'
<1>0. NoJob \in Job
  BY PoolAssumption DEF NoJob, Job
<1>1. worker' \in [Workers -> WorkerStates]
  <2>1. CASE Parks(c, j, q, n)
    BY <2>1 DEF Parks, TypeOK, WorkerStates
  <2>2. CASE Signal
    BY <2>2, SignalWakes DEF Wakes, TypeOK, WorkerStates
  <2> QED
    BY <2>1, <2>2 DEF Carries, PutPersistent, AddDone
<1>2. pendingWorkerThreadStart' \in 0..1
  BY DEF Carries, Parks, PutPersistent, AddDone, TypeOK
<1>3. persistentJob' \in Job
  BY CarryPlaces DEF TypeOK
<1>4. lastJobId' \in Nat
  BY DEF Carries, Parks, PutPersistent, AddDone, TypeOK
<1>5. client' \in [Clients -> ClientStates] /\ asleep' \subseteq Clients
  BY DEF Carries, Parks, PutPersistent, AddDone, Block, TypeOK, ClientStates
<1>6. cjob' \in [Clients -> Job]
  BY <1>0 DEF Carries, Parks, PutPersistent, AddDone, TypeOK
<1>7. cjobs' \in [Clients -> Nat] /\ cthreads' \in [Clients -> Int]
  BY DEF Carries, Parks, PutPersistent, AddDone, TypeOK
<1>8. granted' \subseteq 1..MaxCalls
  BY DEF Carries, Parks, PutPersistent, AddDone, TypeOK
<1>9. /\ totalThreads' \in Nat /\ busyThreads' \in Nat /\ persistentThreads' \in Nat
      /\ wjob' \in [Workers -> Job] /\ wpersist' \in [Workers -> -1..1]
      /\ started' \subseteq 1..MaxCalls
  BY DEF ClientFrame, TypeOK
<1> QED
  BY <1>1, <1>2, <1>3, <1>4, <1>5, <1>6, <1>7, <1>8, <1>9 DEF TypeOK, JobQueues

(* Client steps leave the workers' jobs and counters alone.                *)
LEMMA FrameWork ==
  ASSUME TypeOK, WorkInv, ClientFrame,
         \/ Wakes
         \/ \E w \in Workers : worker[w] = "none" /\ worker' = [worker EXCEPT ![w] = "starting"]
  PROVE  WorkInv'
<1>1. Busy' = Busy /\ Persistent' = Persistent
  BY DEF Busy, Persistent, ClientFrame
<1>2. BusyExact' /\ RunsApart'
  BY <1>1 DEF WorkInv, BusyExact, RunsApart, ClientFrame
<1>3. WorkerLocals'
  <2>1. CASE UNCHANGED worker
    BY <2>1 DEF WorkInv, WorkerLocals, ClientFrame
  <2>2. ASSUME NEW w \in Workers, worker[w] = "idle", worker' = [worker EXCEPT ![w] = "awake"]
        PROVE  WorkerLocals'
    BY <2>2 DEF WorkInv, WorkerLocals, ClientFrame, TypeOK
  <2>3. ASSUME NEW w \in Workers, worker[w] = "none", worker' = [worker EXCEPT ![w] = "starting"]
        PROVE  WorkerLocals'
    BY <2>3 DEF WorkInv, WorkerLocals, ClientFrame, TypeOK
  <2> QED
    BY <2>1, <2>2, <2>3 DEF Wakes
<1> QED
  BY <1>2, <1>3 DEF WorkInv

(* A call that goes on with its job changes no worker that runs one.       *)
LEMMA CarryWork ==
  ASSUME TypeOK, WorkInv, ClientFrame, NEW c, NEW j, NEW q, NEW n, Carries(c, j, q, n)
  PROVE  WorkInv'
  BY FrameWork, SignalWakes DEF Carries, Parks, PutPersistent, AddDone, Wakes

(* A carried job stays apart from all others.                              *)
LEMMA CarryApart ==
  ASSUME TypeOK, JobsApart, ClientFrame,
         NEW c \in Clients, NEW j \in Job, NEW q, NEW n, Carries(c, j, q, n),
         calls' \in Nat, calls' >= calls, j.call \in 1..calls',
         QueuedOnce(jobQ'), CallsIn(jobQ') \subseteq 1..calls',
         CallsIn(jobQ') \cap (SlotCalls \cup HeldCalls \cup started) = {},
         j.op = "persistent" =>
           /\ j.call \notin CallsIn(jobQ') \cup SlotCalls \cup started
           /\ \A d \in Holders \ {c} : cjob[d].call # j.call
  PROVE  JobsApart'
<1>1. /\ \A d \in Clients \ {c} : client'[d] = client[d] /\ cjob'[d] = cjob[d]
      /\ client'[c] # "out" => cjob'[c] = j
      /\ \/ persistentJob' = persistentJob
         \/ /\ j.op = "persistent" /\ client'[c] = "ap_wait"
            /\ persistentJob' \in Job /\ persistentJob'.call = j.call
  BY CarryPlaces
<1>2. \A d \in Holders' : \/ d # c /\ d \in Holders /\ cjob'[d] = cjob[d]
                          \/ d = c /\ j.op = "persistent" /\ cjob'[c] = j
                             /\ persistentJob' = persistentJob
  BY <1>1 DEF Holders
<1>3. SlotCalls' = SlotCalls \/ (SlotCalls' = {j.call} /\ j.op = "persistent" /\ c \notin Holders')
  BY <1>1 DEF SlotCalls, Holders
<1>4. \A n_1 \in HeldCalls' :
        \/ \E d \in Holders \ {c} : n_1 = cjob[d].call
        \/ n_1 = j.call /\ j.op = "persistent" /\ c \in Holders' /\ SlotCalls' = SlotCalls
  BY <1>2 DEF HeldCalls, SlotCalls
<1>5. started' = started
  BY DEF ClientFrame
<1>6. \A d \in Holders \ {c} : cjob[d].call \in HeldCalls
  BY DEF HeldCalls
<1>7. SlotCalls' \cap CallsIn(jobQ') = {}
  BY <1>3
<1>8. started' \cap (SlotCalls' \cup CallsIn(jobQ')) = {}
  BY <1>3, <1>5 DEF JobsApart
<1>9. HeldCalls' \cap (SlotCalls' \cup CallsIn(jobQ') \cup started') = {}
  BY <1>3, <1>4, <1>5, <1>6 DEF JobsApart
<1>10. \A d, e \in Holders' : cjob'[d].call = cjob'[e].call => d = e
  BY <1>2 DEF JobsApart
<1>11. 1..calls \subseteq 1..calls'
  BY DEF TypeOK
<1>12. Known' \subseteq 1..calls'
  BY <1>3, <1>4, <1>5, <1>6, <1>11 DEF Known, JobsApart
<1>13. persistentJob' # NoJob => persistentJob'.call # 0
  BY <1>1 DEF JobsApart, TypeOK
<1> QED
  BY <1>7, <1>8, <1>9, <1>10, <1>12, <1>13 DEF JobsApart

(* A step keeps every part of the invariant, and what has left the pool    *)
(* does not come back: a job known after it was known before or is new.    *)
NothingBack == calls' >= calls /\ \A n \in Known' : n \in Known \/ n > calls
JobStep == TypeOK' /\ WorkInv' /\ JobsApart' /\ CallsMade' /\ NothingBack

(* The part of the invariant about the queue types.                        *)
LEMMA PoolQueues ==
  ASSUME PoolInv
  PROVE  /\ jobQ \in JobQueues /\ QueuedOnce(jobQ) /\ calls \in Nat /\ calls <= MaxCalls
         /\ Queued \in Nat
<1>1. jobQ \in JobQueues
  BY DEF PoolInv, TypeOK, JobQueues
<1>2. Len(jobQ["high"]) \in Nat /\ Len(jobQ["med"]) \in Nat /\ Len(jobQ["low"]) \in Nat
  BY <1>1, QueueTypes DEF Priorities
<1>3. Queued \in Nat
  <2>1. \A a, b, c \in Nat : a + b + c \in Nat
    OBVIOUS
  <2> QED
    BY <1>2, <2>1, Zenon DEF Queued
<1> QED
  BY <1>1, <1>3, PoolAssumption DEF PoolInv, TypeOK, JobsApart

(* A carried job keeps the invariant, if it is apart from all others.       *)
LEMMA CarryStep ==
  ASSUME PoolInv, ClientFrame,
         NEW c \in Clients, NEW j \in Job, NEW q \in Nat, NEW n \in Int, Carries(c, j, q, n),
         calls' \in calls..MaxCalls, j.call \in 1..calls',
         jobQ' \in JobQueues, QueuedOnce(jobQ'),
         CallsIn(jobQ') \cap (SlotCalls \cup HeldCalls \cup started) = {},
         \A m \in CallsIn(jobQ') : m \in CallsIn(jobQ) \/ m \in calls + 1..calls',
         j.op = "persistent" =>
           /\ j.call \notin CallsIn(jobQ') \cup SlotCalls \cup started
           /\ \A d \in Holders \ {c} : cjob[d].call # j.call
           /\ j.call \in HeldCalls \/ j.call > calls
  PROVE  JobStep
<1>1. calls \in Nat /\ calls' \in Nat /\ calls' >= calls /\ calls' \in 0..MaxCalls
  BY PoolQueues, PoolAssumption
<1>2. TypeOK /\ WorkInv /\ JobsApart /\ CallsMade
  BY DEF PoolInv
<1>3. j.call \in 1..MaxCalls
  BY <1>1, PoolAssumption
<1>4. TypeOK'
  BY <1>1, <1>2, <1>3, CarryTypes
<1>5. WorkInv'
  BY <1>2, CarryWork
<1>6. CallsIn(jobQ) \subseteq 1..calls
  BY <1>2 DEF JobsApart, Known
<1>7. CallsIn(jobQ') \subseteq 1..calls'
  BY <1>1, <1>6
<1>8. JobsApart'
  BY <1>1, <1>2, <1>7, CarryApart
<1>9. /\ \A d \in Clients \ {c} : client'[d] = client[d] /\ cjob'[d] = cjob[d]
      /\ client'[c] # "out" => cjob'[c] = j
      /\ \/ persistentJob' = persistentJob
         \/ /\ j.op = "persistent" /\ client'[c] = "ap_wait"
            /\ persistentJob' \in Job /\ persistentJob'.call = j.call
  BY <1>2, CarryPlaces
<1>10. CallsMade'
  BY <1>1, <1>2, <1>9 DEF CallsMade
<1>11. \A m \in SlotCalls' : m \in SlotCalls \/ m \in HeldCalls \/ m > calls
  BY <1>9 DEF SlotCalls
<1>12. \A m \in HeldCalls' : m \in HeldCalls \/ m > calls
  BY <1>9 DEF HeldCalls, Holders
<1>13. \A m \in CallsIn(jobQ') : m \in CallsIn(jobQ) \/ m > calls
  BY <1>1
<1>14. NothingBack
  BY <1>1, <1>11, <1>12, <1>13 DEF NothingBack, Known, ClientFrame
<1> QED
  BY <1>4, <1>5, <1>8, <1>10, <1>14 DEF JobStep

(* A step that moves no job and no thread.                                 *)
LEMMA QuietStep ==
  ASSUME PoolInv, asleep' \subseteq Clients, calls' \in calls..MaxCalls,
         UNCHANGED <<countVars, workVars, client, cjob, cjobs, cthreads, persistentJob, jobQ,
                     lastJobId, started, granted>>
  PROVE  JobStep
<1> USE DEF countVars, workVars
<1>1. calls \in Nat /\ calls' \in Nat /\ calls' >= calls /\ calls' \in 0..MaxCalls
  BY PoolQueues, PoolAssumption
<1>2. TypeOK'
  BY <1>1 DEF PoolInv, TypeOK
<1>3. WorkInv'
  BY DEF PoolInv, WorkInv, WorkerLocals, BusyExact, RunsApart, Busy, Persistent
<1>4. Holders' = Holders /\ HeldCalls' = HeldCalls /\ SlotCalls' = SlotCalls
  BY DEF Holders, HeldCalls, SlotCalls
<1>5. Known' = Known
  BY <1>4 DEF Known
<1>6. 1..calls \subseteq 1..calls'
  BY <1>1
<1>7. JobsApart'
  BY <1>4, <1>5, <1>6 DEF PoolInv, JobsApart
<1>8. CallsMade'
  BY <1>6 DEF PoolInv, CallsMade
<1> QED
  BY <1>1, <1>2, <1>3, <1>5, <1>7, <1>8 DEF JobStep, NothingBack

(* The job of a new call is fresh.                                         *)
LEMMA NewJobFresh ==
  ASSUME PoolInv, calls < MaxCalls, NEW op \in Priorities \cup {"persistent"}
  PROVE  /\ NewJob(op) \in Job /\ NewJob(op).call = calls + 1 /\ NewJob(op).op = op
         /\ calls + 1 \notin Known /\ calls + 1 \in calls..MaxCalls
<1>1. calls \in Nat /\ calls + 1 \in 0..MaxCalls /\ lastJobId \in Nat
  BY PoolQueues, PoolAssumption DEF PoolInv, TypeOK
<1>2. Known \subseteq 1..calls
  BY DEF PoolInv, JobsApart
<1> QED
  BY <1>1, <1>2, PoolAssumption DEF NewJob, Job

(* ThreadPoolAddPersistent.                                                 *)
LEMMA AddPersistentStep ==
  ASSUME PoolInv, NEW c \in Clients, AddPersistent(c)
  PROVE  JobStep
<1> DEFINE j == NewJob("persistent")
<1>1. /\ j \in Job /\ j.call = calls + 1 /\ j.op = "persistent"
      /\ calls + 1 \notin Known /\ calls + 1 \in calls..MaxCalls
  BY NewJobFresh DEF AddPersistent
<1>2. calls' = calls + 1 /\ jobQ' = jobQ /\ ClientFrame /\ client[c] = "out" /\ calls \in Nat
  BY PoolQueues DEF AddPersistent, ClientFrame
<1>3. CASE UNCHANGED <<client, cjob, cjobs, cthreads, asleep, worker, persistentJob,
                       lastJobId, granted, pendingWorkerThreadStart>>
  BY <1>1, <1>2, <1>3, QuietStep DEF ClientFrame, countVars, workVars, PoolInv, TypeOK
<1>4. CASE Carries(c, j, 0, 0)
  <2>1. calls' \in calls..MaxCalls /\ j.call \in 1..calls' /\ j.call > calls
    BY <1>1, <1>2
  <2>2. jobQ' \in JobQueues /\ QueuedOnce(jobQ')
    BY <1>2, PoolQueues
  <2>3. CallsIn(jobQ') \cap (SlotCalls \cup HeldCalls \cup started) = {}
    BY <1>2 DEF PoolInv, JobsApart
  <2>4. \A m \in CallsIn(jobQ') : m \in CallsIn(jobQ)
    BY <1>2
  <2>5. j.call \notin CallsIn(jobQ') \cup SlotCalls \cup started \cup HeldCalls
    BY <1>1, <1>2 DEF Known
  <2>6. \A d \in Holders \ {c} : cjob[d].call # j.call
    BY <2>5 DEF HeldCalls
  <2> HIDE DEF j
  <2> QED
    BY <1>1, <1>2, <1>4, <2>1, <2>2, <2>3, <2>4, <2>5, <2>6, CarryStep
<1>5. CASE CreateWorker(c, j, 0, 0)
  BY <1>4, <1>5, CreateCarries
<1>6. CASE PutPersistent(c, j)
  BY <1>1, <1>4, <1>6 DEF Carries
<1> QED
  BY <1>3, <1>5, <1>6 DEF AddPersistent

(* ThreadPoolAdd: its job enters a queue before the call may wait.          *)
LEMMA AddStep ==
  ASSUME PoolInv, NEW c \in Clients, NEW op \in Priorities, Add(c, op)
  PROVE  JobStep
<1> DEFINE j == NewJob(op)
           q == Queued + 1
           n == totalThreads - persistentThreads
<1>1. /\ j \in Job /\ j.call = calls + 1 /\ j.op = op
      /\ calls + 1 \notin Known /\ calls + 1 \in calls..MaxCalls
  BY NewJobFresh DEF Add
<1>2. calls' = calls + 1 /\ ClientFrame /\ calls \in Nat /\ op # "persistent"
  BY PoolQueues DEF Add, ClientFrame, Priorities
<1>3. CASE UNCHANGED <<client, cjob, cjobs, cthreads, asleep, worker, persistentJob, jobQ,
                       lastJobId, granted, pendingWorkerThreadStart>>
  BY <1>1, <1>2, <1>3, QuietStep DEF ClientFrame, countVars, workVars, PoolInv, TypeOK
<1>4. CASE jobQ' = [jobQ EXCEPT ![op] = Append(@, j)] /\ AddWorker(c, j, q, n)
  <2>1. calls' \in calls..MaxCalls /\ j.call \in 1..calls' /\ q \in Nat /\ n \in Int
    BY <1>1, <1>2, PoolQueues DEF PoolInv, TypeOK
  <2>2. Carries(c, j, q, n)
    BY <1>1, <1>2, <1>4, AddWorkerCarries
  <2>3. /\ jobQ' \in JobQueues /\ QueuedOnce(jobQ')
        /\ CallsIn(jobQ') = CallsIn(jobQ) \cup {j.call}
    <3>1. jobQ \in JobQueues /\ QueuedOnce(jobQ) /\ j.call \notin CallsIn(jobQ)
      BY <1>1, PoolQueues DEF Known
    <3> HIDE DEF j
    <3> QED
      BY <1>1, <1>4, <3>1, AddAppends
  <2>4. CallsIn(jobQ') \cap (SlotCalls \cup HeldCalls \cup started) = {}
    BY <1>1, <2>3 DEF PoolInv, JobsApart, Known
  <2>5. \A m \in CallsIn(jobQ') : m \in CallsIn(jobQ) \/ m \in calls + 1..calls'
    BY <1>1, <1>2, <2>3
  <2> HIDE DEF j, q, n
  <2> QED
    BY <1>1, <1>2, <2>1, <2>2, <2>3, <2>4, <2>5, CarryStep
<1> QED
  BY <1>3, <1>4 DEF Add

(* A parked client goes on with its own job.                               *)
LEMMA ResumeCarries ==
  ASSUME PoolInv, NEW c \in Clients, client[c] \in {"cw_pending", "cw_start"},
         NEW q \in Nat, NEW n \in Int, Carries(c, cjob[c], q, n), ClientFrame,
         UNCHANGED <<jobQ, calls>>
  PROVE  JobStep
<1> DEFINE j == cjob[c]
<1>1. j \in Job /\ j.call \in 1..calls' /\ calls' \in calls..MaxCalls
  BY PoolQueues DEF PoolInv, TypeOK, CallsMade
<1>2. jobQ' \in JobQueues /\ QueuedOnce(jobQ')
  BY PoolQueues
<1>3. CallsIn(jobQ') \cap (SlotCalls \cup HeldCalls \cup started) = {}
  BY DEF PoolInv, JobsApart
<1>4. \A m \in CallsIn(jobQ') : m \in CallsIn(jobQ)
  OBVIOUS
<1>5. ASSUME j.op = "persistent"
      PROVE  /\ j.call \notin CallsIn(jobQ') \cup SlotCalls \cup started
             /\ \A d \in Holders \ {c} : cjob[d].call # j.call
             /\ j.call \in HeldCalls
  <2>1. c \in Holders
    BY <1>5 DEF Holders
  <2>2. j.call \in HeldCalls
    BY <2>1 DEF HeldCalls
  <2> QED
    BY <2>1, <2>2 DEF PoolInv, JobsApart
<1>6. Carries(c, j, q, n)
  OBVIOUS
<1> HIDE DEF j
<1> QED
  BY <1>1, <1>2, <1>3, <1>4, <1>5, <1>6, CarryStep

(* The waits of CreateWorker end.                                           *)
LEMMA ResumeSteps ==
  ASSUME PoolInv, NEW c \in Clients, ResumePending(c) \/ ResumeStart(c)
  PROVE  JobStep
<1>1. cjob[c] \in Job /\ cjobs[c] \in Nat /\ cthreads[c] \in Int /\ calls \in calls..MaxCalls
  BY PoolQueues DEF PoolInv, TypeOK
<1>2. CASE ResumePending(c)
  <2>1. Carries(c, cjob[c], cjobs[c], cthreads[c])
    BY <1>2, CreateCarries DEF ResumePending
  <2> QED
    BY <1>1, <1>2, <2>1, ResumeCarries DEF ResumePending, ClientFrame
<1>3. CASE ResumeStart(c)
  <2>1. /\ client[c] \in {"cw_pending", "cw_start"} /\ ClientFrame
        /\ UNCHANGED <<jobQ, calls>>
    BY <1>3 DEF ResumeStart, ClientFrame
  <2>2. CASE /\ asleep' = asleep \cup {c}
             /\ UNCHANGED <<client, cjob, cjobs, cthreads, worker, persistentJob, lastJobId,
                            granted, pendingWorkerThreadStart>>
    BY <1>1, <2>1, <2>2, QuietStep DEF ClientFrame, countVars, workVars, PoolInv, TypeOK
  <2>3. CASE cjob[c].op = "persistent" /\ PutPersistent(c, cjob[c])
    <3>1. Carries(c, cjob[c], 0, 0)
      BY <2>3 DEF Carries
    <3> QED
      BY <2>1, <3>1, ResumeCarries
  <2>4. CASE /\ cjob[c].op # "persistent"
             /\ AddWorker(c, cjob[c], cjobs[c],
                          IF cthreads[c] > cjobs[c] THEN cthreads[c] ELSE cthreads[c] + 1)
    <3> DEFINE n == IF cthreads[c] > cjobs[c] THEN cthreads[c] ELSE cthreads[c] + 1
    <3>1. n \in Int /\ AddWorker(c, cjob[c], cjobs[c], n)
      BY <1>1, <2>4
    <3> HIDE DEF n
    <3>2. Carries(c, cjob[c], cjobs[c], n)
      BY <2>4, <3>1, AddWorkerCarries
    <3> QED
      BY <1>1, <2>1, <3>1, <3>2, ResumeCarries
  <2> QED
    BY <1>3, <2>2, <2>3, <2>4 DEF ResumeStart
<1> QED
  BY <1>2, <1>3

(* The caller of ThreadPoolAddPersistent is told that its job was taken.   *)
LEMMA ResumePersistentStep ==
  ASSUME PoolInv, NEW c \in Clients, ResumePersistent(c)
  PROVE  JobStep
<1>0. calls \in Nat /\ calls \in calls..MaxCalls
  BY PoolQueues
<1>1. CASE asleep' = asleep \cup {c} /\ UNCHANGED <<client, cjob, lastJobId, granted>>
  BY <1>0, <1>1, QuietStep DEF ResumePersistent, PoolInv, TypeOK
<1>2. CASE /\ lastJobId' = lastJobId + 1
           /\ granted' = granted \cup {cjob[c].call}
           /\ client' = [client EXCEPT ![c] = "out"]
           /\ cjob' = [cjob EXCEPT ![c] = NoJob]
           /\ UNCHANGED asleep
  <2>1. /\ UNCHANGED <<countVars, workVars, cjobs, cthreads, calls, persistentJob, jobQ, started>>
        /\ client[c] = "ap_wait"
    BY DEF ResumePersistent
  <2>2. NoJob \in Job
    BY PoolAssumption DEF NoJob, Job
  <2>3. cjob[c].call \in 1..MaxCalls
    BY <1>0, <2>1, PoolQueues, PoolAssumption DEF PoolInv, CallsMade
  <2>4. TypeOK'
    <3>1. lastJobId' \in Nat
      BY <1>2 DEF PoolInv, TypeOK
    <3>2. granted' \subseteq 1..MaxCalls
      BY <1>2, <2>3, Zenon DEF PoolInv, TypeOK
    <3>3. asleep' \subseteq Clients
      BY <1>2 DEF PoolInv, TypeOK
    <3>4. client' \in [Clients -> ClientStates] /\ cjob' \in [Clients -> Job]
      BY <1>2, <2>2 DEF PoolInv, TypeOK, ClientStates
    <3> QED
      BY <2>1, <3>1, <3>2, <3>3, <3>4 DEF PoolInv, TypeOK, countVars, workVars
  <2>5. WorkInv'
    BY <2>1 DEF PoolInv, WorkInv, WorkerLocals, BusyExact, RunsApart, Busy, Persistent,
                countVars, workVars
  <2>6. Holders' = Holders /\ \A d \in Holders : cjob'[d] = cjob[d]
    BY <1>2, <2>1 DEF PoolInv, TypeOK, Holders
  <2>7. HeldCalls' = HeldCalls /\ SlotCalls' = SlotCalls
    BY <2>1, <2>6 DEF HeldCalls, SlotCalls
  <2>8. Known' = Known
    BY <2>1, <2>7 DEF Known
  <2>9. JobsApart'
    BY <2>1, <2>6, <2>7, <2>8 DEF PoolInv, JobsApart
  <2>10. CallsMade'
    BY <1>2, <2>1 DEF PoolInv, CallsMade, TypeOK
  <2> QED
    BY <1>0, <2>1, <2>4, <2>5, <2>8, <2>9, <2>10 DEF JobStep, NothingBack
<1> QED
  BY <1>1, <1>2 DEF ResumePersistent

-----------------------------------------------------------------------------
(* The steps of a worker.                                                  *)

(* The busy threads without w, counted.                                    *)
LEMMA BusyFinite ==
  ASSUME NEW w \in Workers
  PROVE  /\ IsFiniteSet(Busy) /\ Cardinality(Busy) \in Nat
         /\ IsFiniteSet(Persistent) /\ Cardinality(Persistent) \in Nat
         /\ IsFiniteSet(Busy \ {w}) /\ Cardinality(Busy \ {w}) \in Nat
         /\ IsFiniteSet(Persistent \ {w}) /\ Cardinality(Persistent \ {w}) \in Nat
<1>1. /\ Busy \subseteq Workers /\ Persistent \subseteq Workers
      /\ Busy \ {w} \subseteq Workers /\ Persistent \ {w} \subseteq Workers
  BY DEF Busy, Persistent
<1> QED
  BY <1>1, PoolAssumption, FS_Subset, FS_CardinalityType

(* What the top of the outer loop computes.                                *)
LEMMA TopCounts ==
  ASSUME TypeOK, WorkInv, NEW w \in Workers, worker[w] = "top"
  PROVE  /\ (IF wjob[w] # NoJob THEN busyThreads - 1 ELSE busyThreads) = Cardinality(Busy \ {w})
         /\ (IF wpersist[w] = 1 THEN persistentThreads - 1 ELSE persistentThreads)
              = Cardinality(Persistent \ {w})
<1>1. /\ wjob[w] # NoJob <=> w \in Busy
      /\ wpersist[w] = 1 <=> w \in Persistent
  BY DEF WorkInv, WorkerLocals, Busy, Persistent
<1>2. /\ w \in Busy => Cardinality(Busy \ {w}) = Cardinality(Busy) - 1
      /\ w \in Persistent => Cardinality(Persistent \ {w}) = Cardinality(Persistent) - 1
  BY BusyFinite, FS_RemoveElement
<1>3. /\ w \notin Busy => Busy \ {w} = Busy
      /\ w \notin Persistent => Persistent \ {w} = Persistent
  OBVIOUS
<1> QED
  BY <1>1, <1>2, <1>3 DEF WorkInv, BusyExact

(* A thread that wakes from its wait has no job.                           *)
LEMMA WakeCounts ==
  ASSUME WorkInv, NEW w \in Workers, worker[w] \in {"awake", "timedout"}
  PROVE  /\ busyThreads = Cardinality(Busy \ {w})
         /\ persistentThreads = Cardinality(Persistent \ {w})
<1>1. Busy \ {w} = Busy /\ Persistent \ {w} = Persistent
  BY DEF WorkInv, WorkerLocals, Busy, Persistent
<1> QED
  BY <1>1 DEF WorkInv, BusyExact

(* A thread without a job waits or ends.                                   *)
LEMMA LeaveWork ==
  ASSUME TypeOK, WorkInv, NEW w \in Workers,
         busyThreads' = Cardinality(Busy \ {w}),
         persistentThreads' = Cardinality(Persistent \ {w}),
         WorkerWait(w) \/ WorkerExit(w)
  PROVE  WorkInv'
<1>1. wjob' = [wjob EXCEPT ![w] = NoJob] /\ started' = started
  BY DEF WorkerWait, WorkerExit
<1>2. \A v \in Workers : v # w => wpersist'[v] = wpersist[v] /\ worker'[v] = worker[v]
  BY DEF WorkerWait, WorkerExit, TypeOK
<1>3. Busy' = Busy \ {w} /\ Persistent' = Persistent \ {w}
  BY <1>1, <1>2 DEF Busy, Persistent, TypeOK
<1>4. BusyExact'
  BY <1>3 DEF BusyExact
<1>5. RunsApart'
  BY <1>1, <1>3 DEF RunsApart, WorkInv, Busy, TypeOK
<1>6. wjob'[w] = NoJob /\ \A v \in Workers \ {w} : wjob'[v] = wjob[v]
  BY <1>1 DEF TypeOK
<1>7. worker'[w] = "idle" \/ (worker'[w] = "none" /\ wpersist'[w] = -1)
  BY DEF WorkerWait, WorkerExit, TypeOK
<1>8. WorkerLocals'
  BY <1>2, <1>6, <1>7 DEF WorkInv, WorkerLocals
<1> QED
  BY <1>4, <1>5, <1>8 DEF WorkInv

(* A thread takes job j.                                                   *)
LEMMA TakeWork ==
  ASSUME TypeOK, WorkInv, NEW w \in Workers, NEW j \in Job, NEW k \in {0, 1},
         j # NoJob, j.call \notin started,
         busyThreads' = Cardinality(Busy \ {w}) + 1,
         persistentThreads' = Cardinality(Persistent \ {w}) + k,
         wjob' = [wjob EXCEPT ![w] = j], wpersist' = [wpersist EXCEPT ![w] = k],
         worker' = [worker EXCEPT ![w] = "run"], started' = started \cup {j.call}
  PROVE  WorkInv'
<1>1. /\ wjob'[w] = j /\ wpersist'[w] = k /\ worker'[w] = "run"
      /\ \A v \in Workers \ {w} : /\ wjob'[v] = wjob[v] /\ wpersist'[v] = wpersist[v]
                                  /\ worker'[v] = worker[v]
  BY DEF TypeOK
<1>2. Busy' = (Busy \ {w}) \cup {w}
  BY <1>1 DEF Busy
<1>3. Persistent' = IF k = 1 THEN (Persistent \ {w}) \cup {w} ELSE Persistent \ {w}
  BY <1>1 DEF Persistent
<1>4. /\ Cardinality((Busy \ {w}) \cup {w}) = Cardinality(Busy \ {w}) + 1
      /\ Cardinality((Persistent \ {w}) \cup {w}) = Cardinality(Persistent \ {w}) + 1
  <2>1. w \notin Busy \ {w} /\ w \notin Persistent \ {w}
    OBVIOUS
  <2> QED
    BY <2>1, BusyFinite, FS_AddElement
<1>5. BusyExact'
  BY <1>2, <1>3, <1>4, BusyFinite DEF BusyExact
<1>6. RunsApart'
  BY <1>1, <1>2 DEF RunsApart, WorkInv, Busy
<1>7. WorkerLocals'
  BY <1>1 DEF WorkInv, WorkerLocals
<1> QED
  BY <1>5, <1>6, <1>7 DEF WorkInv

(* What a dispatching worker leaves alone.                                 *)
WorkerFrame ==
  UNCHANGED <<pendingWorkerThreadStart, client, cjob, cjobs, cthreads, calls, lastJobId, granted>>

(* Jobs that move from the pool to a thread stay apart.                    *)
LEMMA TakeApart ==
  ASSUME PoolInv, WorkerFrame, QueuedOnce(jobQ'),
         NEW j, j \in Known, j \notin HeldCalls \cup started,
         started' = started \cup {j},
         CallsIn(jobQ') = CallsIn(jobQ) \ {j},
         \/ persistentJob' = NoJob
         \/ persistentJob' = persistentJob /\ j \notin SlotCalls
  PROVE  JobsApart' /\ CallsMade' /\ NothingBack
<1>1. Holders' = Holders /\ HeldCalls' = HeldCalls
  BY DEF Holders, HeldCalls, WorkerFrame
<1>2. SlotCalls' \subseteq SlotCalls \ {j} \/ SlotCalls' = {}
  BY DEF SlotCalls, NoJob
<1>3. SlotCalls' \subseteq SlotCalls /\ j \notin SlotCalls'
  BY <1>2
<1>4. Known' \subseteq Known
  BY <1>1, <1>3 DEF Known
<1>5. calls' = calls /\ calls \in Nat
  BY PoolQueues DEF WorkerFrame
<1>6. JobsApart'
  <2>1. /\ SlotCalls' \cap CallsIn(jobQ') = {}
        /\ started' \cap (SlotCalls' \cup CallsIn(jobQ')) = {}
        /\ HeldCalls' \cap (SlotCalls' \cup CallsIn(jobQ') \cup started') = {}
    BY <1>1, <1>3 DEF PoolInv, JobsApart
  <2>2. /\ \A c, d \in Holders' : cjob'[c].call = cjob'[d].call => c = d
        /\ Known' \subseteq 1..calls'
        /\ persistentJob' # NoJob => persistentJob'.call # 0
    BY <1>1, <1>4, <1>5 DEF PoolInv, JobsApart, WorkerFrame
  <2> QED
    BY <2>1, <2>2 DEF JobsApart
<1>7. CallsMade'
  BY DEF PoolInv, CallsMade, WorkerFrame
<1> QED
  BY <1>4, <1>5, <1>6, <1>7 DEF NothingBack

(* The highest queue with a job has a job.                                 *)
LEMMA TopHasJob ==
  ASSUME NEW q \in JobQueues, NEW p \in Priorities, q[p] # <<>>
  PROVE  Top(q) \in Priorities /\ q[Top(q)] # <<>>
  BY DEF Top, Priorities

(* The job a worker takes from the queues, after BumpPriority.             *)
LEMMA QueuedTaken ==
  ASSUME PoolInv, NEW w, persistentJob = NoJob, ~NoWork, PickQueued(w)
  PROVE  \E j \in Job :
           /\ jobQ' \in JobQueues /\ QueuedOnce(jobQ') /\ j.call \in CallsIn(jobQ)
           /\ CallsIn(jobQ') = CallsIn(jobQ) \ {j.call}
           /\ wjob' = [wjob EXCEPT ![w] = j] /\ started' = started \cup {j.call}
<1>0. jobQ \in JobQueues /\ QueuedOnce(jobQ)
  BY PoolQueues
<1>1. PICK q \in Bumped :
        /\ wjob' = [wjob EXCEPT ![w] = Head(q[Top(q)])]
        /\ started' = started \cup {Head(q[Top(q)]).call}
        /\ jobQ' = [p \in Priorities |-> IF p = Top(q) THEN Tail(q[p]) ELSE q[p]]
  BY DEF PickQueued
<1>2. q \in JobQueues /\ QueuedOnce(q) /\ CallsIn(q) = CallsIn(jobQ)
  BY <1>0, BumpedSame
<1>3. Top(q) \in Priorities /\ q[Top(q)] # <<>>
  <2>1. PICK p \in Priorities : jobQ[p] # <<>>
    BY DEF NoWork
  <2>2. 1 \in 1..Len(jobQ[p])
    BY <1>0, <2>1, QueueTypes, EmptySeq
  <2>3. jobQ[p][1].call \in CallsIn(q)
    BY <1>0, <1>2, <2>2, CallsInDef
  <2>4. PICK s \in Priorities : \E i \in 1..Len(q[s]) : jobQ[p][1].call = q[s][i].call
    BY <1>2, <2>3, CallsInDef
  <2>5. q[s] # <<>>
    BY <2>4, EmptySeq
  <2> QED
    BY <1>2, <2>5, TopHasJob
<1> DEFINE r == PickFrom(q, Top(q))
           j == Head(q[Top(q)])
<1>4. /\ r \in JobQueues /\ QueuedOnce(r) /\ CallsIn(r) = CallsIn(q) \ {j.call}
      /\ j \in Job /\ j.call \in CallsIn(q)
  BY <1>2, <1>3, PickDrops
<1>5. jobQ' = r
  BY <1>1 DEF PickFrom
<1>6. wjob' = [wjob EXCEPT ![w] = j] /\ started' = started \cup {j.call}
  BY <1>1
<1> HIDE DEF j, r
<1> QED
  BY <1>2, <1>4, <1>5, <1>6

(* A thread without a job waits or ends: no job moves.                     *)
LEMMA LeaveStep ==
  ASSUME PoolInv, WorkerFrame, NEW w \in Workers,
         WorkerWait(w) \/ WorkerExit(w), totalThreads' \in Nat,
         busyThreads' = Cardinality(Busy \ {w}),
         persistentThreads' = Cardinality(Persistent \ {w})
  PROVE  JobStep
<1>1. Cardinality(Busy \ {w}) \in Nat /\ Cardinality(Persistent \ {w}) \in Nat
  BY BusyFinite
<1>2. TypeOK /\ WorkInv /\ JobsApart /\ jobQ \in JobQueues /\ QueuedOnce(jobQ)
  BY PoolQueues DEF PoolInv
<1>3. NoJob \in Job
  BY PoolAssumption DEF NoJob, Job
<1>4. UNCHANGED <<persistentJob, jobQ, started>> /\ asleep' \subseteq asleep
  BY DEF WorkerWait, WorkerExit
<1>5. WorkInv'
  BY <1>2, LeaveWork
<1>6. /\ worker' \in [Workers -> WorkerStates] /\ wjob' \in [Workers -> Job]
      /\ wpersist' \in [Workers -> -1..1]
  <2>1. worker' \in [Workers -> WorkerStates]
    BY <1>2 DEF WorkerWait, WorkerExit, TypeOK, WorkerStates
  <2>2. wjob' \in [Workers -> Job]
    BY <1>2, <1>3 DEF WorkerWait, WorkerExit, TypeOK
  <2>3. -1 \in -1..1
    OBVIOUS
  <2>4. wpersist' \in [Workers -> -1..1]
    BY <1>2, <2>3 DEF WorkerWait, WorkerExit, TypeOK
  <2> QED
    BY <2>1, <2>2, <2>4
<1>7. TypeOK'
  BY <1>1, <1>2, <1>4, <1>6 DEF TypeOK, WorkerFrame
<1>8. Holders' = Holders /\ HeldCalls' = HeldCalls /\ SlotCalls' = SlotCalls
  BY <1>4 DEF Holders, HeldCalls, SlotCalls, WorkerFrame
<1>9. Known' = Known
  BY <1>4, <1>8 DEF Known
<1>10. JobsApart'
  BY <1>2, <1>4, <1>8, <1>9 DEF JobsApart, WorkerFrame
<1>11. CallsMade'
  BY DEF PoolInv, CallsMade, WorkerFrame
<1> QED
  BY <1>5, <1>7, <1>9, <1>10, <1>11, PoolQueues DEF JobStep, NothingBack, WorkerFrame

(* One pass of the inner loop, given the counts without w.                 *)
LEMMA DispatchStep ==
  ASSUME PoolInv, WorkerFrame, NEW w \in Workers, NEW timedOut, NEW busy, NEW persist,
         worker[w] \in {"top", "awake", "timedout"},
         busy = Cardinality(Busy \ {w}), persist = Cardinality(Persistent \ {w}),
         Dispatch(w, timedOut, busy, persist)
  PROVE  JobStep
<1>0. busy \in Nat /\ persist \in Nat
  BY BusyFinite
<1>1. TypeOK /\ WorkInv /\ JobsApart /\ jobQ \in JobQueues /\ QueuedOnce(jobQ)
  BY PoolQueues DEF PoolInv
<1>2. totalThreads' \in Nat
  <2>1. BInv'
    BY DispatchBInv DEF PoolInv, WorkerFrame, Counted, WorkerStates
  <2> QED
    BY <2>1 DEF BInv, CountType
<1>3. NoJob \in Job
  BY PoolAssumption DEF NoJob, Job
<1>4. CASE /\ WorkerWait(w) \/ WorkerExit(w)
           /\ busyThreads' = busy /\ persistentThreads' = persist
  BY <1>2, <1>4, LeaveStep
<1>5. CASE /\ persistentJob # NoJob /\ PickPersistent(w)
           /\ busyThreads' = busy + 1 /\ persistentThreads' = persist + 1
  <2> DEFINE j == persistentJob
  <2>1. /\ j \in Job /\ j # NoJob /\ j.call \in SlotCalls
    BY <1>1, <1>5 DEF TypeOK, JobsApart, SlotCalls
  <2>2. /\ j.call \in Known /\ j.call \notin HeldCalls \cup started
        /\ j.call \notin CallsIn(jobQ) /\ j.call \in 1..calls
    BY <1>1, <2>1 DEF JobsApart, Known
  <2>3. jobQ' \in JobQueues /\ QueuedOnce(jobQ') /\ CallsIn(jobQ') = CallsIn(jobQ)
    BY <1>1, <1>5, BumpedSame DEF PickPersistent
  <2>4. /\ wjob' = [wjob EXCEPT ![w] = j] /\ wpersist' = [wpersist EXCEPT ![w] = 1]
        /\ worker' = [worker EXCEPT ![w] = "run"] /\ started' = started \cup {j.call}
        /\ persistentJob' = NoJob /\ asleep' = {} /\ UNCHANGED totalThreads
    BY <1>5 DEF PickPersistent
  <2> HIDE DEF j
  <2>5. WorkInv'
    <3>1. 1 \in {0, 1}
      OBVIOUS
    <3> QED
      BY <1>1, <1>5, <2>1, <2>2, <2>4, <3>1, TakeWork
  <2>6. JobsApart' /\ CallsMade' /\ NothingBack
    <3>1. CallsIn(jobQ') = CallsIn(jobQ) \ {j.call}
      BY <2>2, <2>3
    <3> QED
      BY <2>2, <2>3, <2>4, <3>1, TakeApart
  <2>7. /\ worker' \in [Workers -> WorkerStates] /\ wjob' \in [Workers -> Job]
        /\ wpersist' \in [Workers -> -1..1] /\ started' \subseteq 1..MaxCalls
    <3>1. worker' \in [Workers -> WorkerStates]
      BY <1>1, <2>1, <2>2, <2>4 DEF TypeOK, WorkerStates
    <3>2. wjob' \in [Workers -> Job]
      BY <1>1, <2>1, <2>2, <2>4 DEF TypeOK
    <3>3. 1 \in -1..1
      OBVIOUS
    <3>4. wpersist' \in [Workers -> -1..1]
      BY <1>1, <2>1, <2>2, <2>4, <3>3 DEF TypeOK
    <3>5. 1..calls \subseteq 1..MaxCalls
      BY PoolQueues, PoolAssumption
    <3>6. started' \subseteq 1..MaxCalls
      BY <1>1, <2>1, <2>2, <2>4, <3>5, Zenon DEF TypeOK
    <3> QED
      BY <3>1, <3>2, <3>4, <3>6
  <2>8. TypeOK'
    BY <1>0, <1>1, <1>2, <1>3, <1>5, <2>3, <2>4, <2>7 DEF TypeOK, WorkerFrame, JobQueues
  <2> QED
    BY <2>5, <2>6, <2>8 DEF JobStep
<1>6. CASE /\ persistentJob = NoJob /\ ~NoWork /\ PickQueued(w)
           /\ busyThreads' = busy + 1 /\ persistentThreads' = persist
  <2>1. PICK j \in Job :
          /\ jobQ' \in JobQueues /\ QueuedOnce(jobQ') /\ j.call \in CallsIn(jobQ)
          /\ CallsIn(jobQ') = CallsIn(jobQ) \ {j.call}
          /\ wjob' = [wjob EXCEPT ![w] = j] /\ started' = started \cup {j.call}
    BY <1>6, QueuedTaken
  <2>2. /\ wpersist' = [wpersist EXCEPT ![w] = 0] /\ worker' = [worker EXCEPT ![w] = "run"]
        /\ UNCHANGED <<totalThreads, asleep, persistentJob>>
    BY <1>6 DEF PickQueued
  <2>3. /\ j.call \in Known /\ j.call \notin HeldCalls \cup started
        /\ j.call \notin SlotCalls /\ j.call \in 1..calls
    BY <1>1, <2>1 DEF JobsApart, Known
  <2>4. j # NoJob
    BY <2>3, PoolQueues DEF NoJob
  <2>5. WorkInv'
    <3>1. 0 \in {0, 1} /\ persistentThreads' = Cardinality(Persistent \ {w}) + 0
      BY <1>0, <1>6
    <3> QED
      BY <1>1, <1>6, <2>1, <2>2, <2>3, <2>4, <3>1, TakeWork
  <2>6. JobsApart' /\ CallsMade' /\ NothingBack
    BY <2>1, <2>2, <2>3, TakeApart
  <2>7. /\ worker' \in [Workers -> WorkerStates] /\ wjob' \in [Workers -> Job]
         /\ wpersist' \in [Workers -> -1..1] /\ started' \subseteq 1..MaxCalls
    <3>1. worker' \in [Workers -> WorkerStates]
      BY <1>1, <2>1, <2>2, <2>3 DEF TypeOK, WorkerStates
    <3>2. wjob' \in [Workers -> Job]
      BY <1>1, <2>1, <2>2, <2>3 DEF TypeOK
    <3>3. 0 \in -1..1
      OBVIOUS
    <3>4. wpersist' \in [Workers -> -1..1]
      BY <1>1, <2>1, <2>2, <2>3, <3>3 DEF TypeOK
    <3>5. 1..calls \subseteq 1..MaxCalls
      BY PoolQueues, PoolAssumption
    <3>6. started' \subseteq 1..MaxCalls
      BY <1>1, <2>1, <2>2, <2>3, <3>5, Zenon DEF TypeOK
    <3> QED
      BY <3>1, <3>2, <3>4, <3>6
  <2>8. TypeOK'
    BY <1>0, <1>1, <1>2, <1>6, <2>1, <2>2, <2>7 DEF TypeOK, WorkerFrame, JobQueues
  <2> QED
    BY <2>5, <2>6, <2>8 DEF JobStep
<1> QED
  BY <1>4, <1>5, <1>6 DEF Dispatch

(* A worker that starts, times out or returns from a job moves no job.     *)
LEMMA MoveStep ==
  ASSUME PoolInv, NEW w \in Workers, WorkerStart(w) \/ WorkerTimeout(w) \/ JobReturns(w)
  PROVE  JobStep
<1>0. calls \in Nat /\ TypeOK /\ WorkInv
  BY PoolQueues DEF PoolInv
<1>1. /\ UNCHANGED <<busyThreads, persistentThreads, wjob, wpersist, client, cjob, cjobs, cthreads,
                     calls, persistentJob, jobQ, lastJobId, started, granted>>
      /\ totalThreads' \in Nat /\ pendingWorkerThreadStart' \in 0..1
      /\ asleep' \subseteq asleep
  BY <1>0 DEF WorkerStart, WorkerTimeout, JobReturns, TypeOK, countVars, callVars
<1>2. PICK s \in {"top", "timedout", "awake"} :
        /\ worker' = [worker EXCEPT ![w] = s]
        /\ \/ worker[w] = "starting" /\ s = "top"
           \/ worker[w] = "idle" /\ s \in {"timedout", "awake"}
           \/ worker[w] = "run" /\ s = "top"
  BY DEF WorkerStart, WorkerTimeout, JobReturns
<1>3. worker' \in [Workers -> WorkerStates]
  BY <1>0, <1>2 DEF TypeOK, WorkerStates
<1>4. TypeOK'
  BY <1>0, <1>1, <1>3 DEF TypeOK
<1>5. Busy' = Busy /\ Persistent' = Persistent
  BY <1>1 DEF Busy, Persistent
<1>6. BusyExact' /\ RunsApart'
  BY <1>0, <1>1, <1>5 DEF WorkInv, BusyExact, RunsApart
<1>7. worker'[w] = s /\ \A v \in Workers \ {w} : worker'[v] = worker[v]
  BY <1>0, <1>2 DEF TypeOK
<1>8. WorkerLocals'
  BY <1>0, <1>1, <1>2, <1>7 DEF WorkInv, WorkerLocals
<1>9. Holders' = Holders /\ HeldCalls' = HeldCalls /\ SlotCalls' = SlotCalls
  BY <1>1 DEF Holders, HeldCalls, SlotCalls
<1>10. Known' = Known
  BY <1>1, <1>9 DEF Known
<1>11. JobsApart' /\ CallsMade'
  BY <1>1, <1>9, <1>10 DEF PoolInv, JobsApart, CallsMade
<1> QED
  BY <1>0, <1>1, <1>4, <1>6, <1>8, <1>10, <1>11 DEF JobStep, NothingBack, WorkInv

(* The pool as ThreadPoolInit leaves it.                                   *)
LEMMA InitPool == Init => PoolInv
<1> SUFFICES ASSUME Init PROVE PoolInv
  OBVIOUS
<1>1. BInv
  BY InitBInv
<1>2. NoJob \in Job /\ NoJob.call = 0
  BY PoolAssumption DEF NoJob, Job
<1>3. -1 \in -1..1
  OBVIOUS
<1>4. <<>> \in Seq(Job)
  BY EmptySeq
<1>5. TypeOK
  <2>1. jobQ \in [Priorities -> Seq(Job)]
    BY <1>4 DEF Init
  <2>2. wpersist \in [Workers -> -1..1]
    BY <1>3 DEF Init
  <2>3. worker \in [Workers -> WorkerStates] /\ totalThreads \in Nat
    BY <1>1 DEF BInv, CountType
  <2>4. /\ client \in [Clients -> ClientStates] /\ cjob \in [Clients -> Job]
        /\ cjobs \in [Clients -> Nat] /\ cthreads \in [Clients -> Int]
        /\ wjob \in [Workers -> Job]
    BY <1>2 DEF Init, ClientStates
  <2> QED
    BY <1>2, <2>1, <2>2, <2>3, <2>4, PoolAssumption DEF Init, TypeOK
<1>6. Busy = {} /\ Persistent = {}
  BY DEF Init, Busy, Persistent
<1>7. WorkInv
  BY <1>6, FS_EmptySet DEF Init, WorkInv, WorkerLocals, BusyExact, RunsApart
<1>8. Holders = {} /\ HeldCalls = {} /\ SlotCalls = {}
  BY <1>2 DEF Init, Holders, HeldCalls, SlotCalls
<1>9. jobQ \in JobQueues /\ \A p \in Priorities : 1..Len(jobQ[p]) = {}
  <2>1. \A p \in Priorities : Len(jobQ[p]) = 0
    BY EmptySeq DEF Init
  <2> QED
    BY <1>5, <2>1 DEF TypeOK, JobQueues
<1>10. QueuedOnce(jobQ)
  BY <1>9, QueuedOnceDef
<1>11. CallsIn(jobQ) = {}
  BY <1>9, CallsInDef
<1>12. JobsApart
  BY <1>8, <1>10, <1>11 DEF Init, JobsApart, Known
<1>13. CallsMade
  BY DEF Init, CallsMade
<1> QED
  BY <1>1, <1>5, <1>7, <1>12, <1>13 DEF PoolInv

(* Every step of a client or a worker keeps the invariant.                 *)
LEMMA StepPool ==
  ASSUME PoolInv, [Next]_vars
  PROVE  PoolInv' /\ NothingBack
<1>1. ASSUME NEW c \in Clients, ClientStep(c) PROVE JobStep
  <2>1. CASE ClientWakeup(c)
    <3>1. calls' \in calls..MaxCalls /\ asleep' \subseteq Clients
      BY <2>1, PoolQueues DEF ClientWakeup, PoolInv, TypeOK
    <3> QED
      BY <2>1, <3>1, QuietStep DEF ClientWakeup
  <2> QED
    BY <1>1, <2>1, AddPersistentStep, AddStep, ResumeSteps, ResumePersistentStep DEF ClientStep
<1>2. ASSUME NEW w \in Workers, WorkerStep(w) PROVE JobStep
  <2>1. CASE WorkerTop(w)
    <3> DEFINE busy == IF wjob[w] # NoJob THEN busyThreads - 1 ELSE busyThreads
               persist == IF wpersist[w] = 1 THEN persistentThreads - 1 ELSE persistentThreads
               late == FALSE
    <3>1. worker[w] = "top" /\ WorkerFrame /\ Dispatch(w, late, busy, persist)
      BY <2>1 DEF WorkerTop, WorkerFrame
    <3>2. busy = Cardinality(Busy \ {w}) /\ persist = Cardinality(Persistent \ {w})
      BY <3>1, TopCounts DEF PoolInv
    <3> HIDE DEF busy, persist, late
    <3> QED
      BY <3>1, <3>2, DispatchStep
  <2>2. CASE WorkerResume(w)
    <3> DEFINE late == worker[w] = "timedout"
    <3>1. /\ worker[w] \in {"awake", "timedout"} /\ WorkerFrame
          /\ Dispatch(w, late, busyThreads, persistentThreads)
      BY <2>2 DEF WorkerResume, WorkerFrame
    <3>2. /\ busyThreads = Cardinality(Busy \ {w})
          /\ persistentThreads = Cardinality(Persistent \ {w})
      BY <3>1, WakeCounts DEF PoolInv
    <3> HIDE DEF late
    <3> QED
      BY <3>1, <3>2, DispatchStep
  <2> QED
    BY <1>2, <2>1, <2>2, MoveStep DEF WorkerStep
<1>3. CASE UNCHANGED vars
  <2>1. calls' \in calls..MaxCalls /\ asleep' \subseteq Clients
    BY <1>3, PoolQueues DEF vars, callVars, PoolInv, TypeOK
  <2> QED
    BY <1>3, <2>1, QuietStep, StepBInv DEF vars, callVars, JobStep, PoolInv
<1>4. BInv'
  BY StepBInv DEF PoolInv
<1> QED
  BY <1>1, <1>2, <1>3, <1>4 DEF Next, JobStep, PoolInv

(* QueuedCalls is CallsIn, and the parts of the invariant give RunsOnce.   *)
LEMMA PoolRunsOnce ==
  ASSUME PoolInv
  PROVE  RunsOnce /\ QueuedCalls = CallsIn(jobQ) /\ InPool = CallsIn(jobQ) \cup SlotCalls
<1>1. QueuedCalls = CallsIn(jobQ)
  BY DEF QueuedCalls, CallsIn
<1>2. InPool = CallsIn(jobQ) \cup SlotCalls
  BY <1>1 DEF InPool, SlotCalls
<1>3. 0 \notin started
  BY DEF PoolInv, TypeOK
<1>4. started \cap (QueuedCalls \cup {persistentJob.call}) = {}
  BY <1>1, <1>3 DEF PoolInv, JobsApart, SlotCalls
<1>5. \A p, q \in Priorities : \A i \in DOMAIN jobQ[p], k \in DOMAIN jobQ[q] :
        jobQ[p][i].call = jobQ[q][k].call => p = q /\ i = k
  BY Zenon DEF PoolInv, JobsApart, QueuedOnce
<1> QED
  BY <1>1, <1>2, <1>4, <1>5 DEF RunsOnce, PoolInv, WorkInv, RunsApart

(* The pool in service keeps its types, counts its busy threads exactly    *)
(* and runs no job twice, however its clients and workers interleave.      *)
THEOREM PoolCorrect == Spec => [](TypeOK /\ BusyExact /\ RunsOnce)
<1>1. PoolInv /\ [Next]_vars => PoolInv'
  BY StepPool
<1>2. PoolInv => TypeOK /\ BusyExact /\ RunsOnce
  BY PoolRunsOnce DEF PoolInv, WorkInv
<1> QED
  BY InitPool, <1>1, <1>2, PTL DEF Spec

-----------------------------------------------------------------------------
(* The end of the pool.                                                    *)

(* What ThreadPoolShutdown freed and ThreadPoolRemove took are jobs that   *)
(* calls made, each taken once and nowhere in the pool since.              *)
Gone ==
  /\ freed \cup removed \subseteq 1..calls
  /\ freed \cap removed = {}
  /\ Known \cap (freed \cup removed) = {}
  /\ shutdown = "no" => AtLeast
LifeInv == PoolInv /\ Gone

(* A step that brings nothing back keeps what is gone apart.               *)
LEMMA GoneStays ==
  ASSUME LifeInv, NothingBack, calls' \in Nat, UNCHANGED lifeVars, shutdown' = "no" => AtLeast'
  PROVE  Gone'
<1>1. calls \in Nat /\ calls' >= calls
  BY PoolQueues DEF LifeInv, NothingBack
<1>2. \A n \in freed \cup removed : n \in 1..calls
  BY DEF LifeInv, Gone
<1>3. freed' \cup removed' \subseteq 1..calls'
  BY <1>1, <1>2 DEF lifeVars
<1>4. Known' \cap (freed' \cup removed') = {}
  BY <1>1, <1>2 DEF LifeInv, Gone, NothingBack, lifeVars
<1> QED
  BY <1>3, <1>4 DEF LifeInv, Gone, lifeVars

(* A step of the pool leaves what is gone alone.                            *)
LEMMA PoolLife ==
  ASSUME LifeInv, [Next]_vars, UNCHANGED lifeVars
  PROVE  LifeInv'
<1>1. PoolInv' /\ NothingBack
  BY StepPool DEF LifeInv
<1>2. calls' \in Nat
  BY <1>1 DEF PoolInv, TypeOK
<1>3. shutdown' = "no" => AtLeast'
  BY StepAtLeast DEF LifeInv, Gone, AtLeast, PoolInv, lifeVars
<1> QED
  BY <1>1, <1>2, <1>3, GoneStays DEF LifeInv

(* ThreadPoolShutdown frees what waits and wakes who waits.                *)
LEMMA ShutdownLife ==
  ASSUME LifeInv, Shutdown
  PROVE  LifeInv'
<1> USE DEF countVars, callVars
<1>0. PoolInv /\ calls \in Nat
  BY PoolQueues DEF LifeInv
<1>1. NoJob \in Job /\ NoJob.call = 0
  BY PoolAssumption DEF NoJob, Job
<1>2. \A w \in Workers : worker'[w] = IF worker[w] = "idle" THEN "awake" ELSE worker[w]
  BY DEF Shutdown
<1>3. worker' \in [Workers -> WorkerStates]
  BY <1>0 DEF Shutdown, PoolInv, TypeOK, WorkerStates
<1>4. jobQ' \in JobQueues /\ \A p \in Priorities : 1..Len(jobQ'[p]) = {}
  <2>1. \A p \in Priorities : jobQ'[p] = <<>> /\ Len(jobQ'[p]) = 0
    BY EmptySeq DEF Shutdown
  <2>2. <<>> \in Seq(Job)
    BY EmptySeq
  <2>3. jobQ' \in JobQueues
    BY <2>2 DEF Shutdown, JobQueues
  <2> QED
    BY <2>1, <2>3
<1>5. TypeOK'
  BY <1>0, <1>1, <1>3, <1>4 DEF Shutdown, PoolInv, TypeOK, JobQueues
<1>6. BInv'
  <2>1. Alive' = Alive /\ Starting' = Starting
    BY <1>2 DEF Alive, Starting
  <2> QED
    BY <1>0, <1>3, <2>1 DEF Shutdown, PoolInv, BInv, CountType, CountsExact
<1>7. WorkInv'
  <2>1. Busy' = Busy /\ Persistent' = Persistent
    BY DEF Shutdown, Busy, Persistent
  <2>2. BusyExact' /\ RunsApart'
    BY <1>0, <2>1 DEF Shutdown, PoolInv, WorkInv, BusyExact, RunsApart
  <2>3. WorkerLocals'
    BY <1>0, <1>2 DEF Shutdown, PoolInv, WorkInv, WorkerLocals
  <2> QED
    BY <2>2, <2>3 DEF WorkInv
<1>8. Holders' = Holders /\ HeldCalls' = HeldCalls /\ SlotCalls' = {}
  BY <1>1 DEF Shutdown, Holders, HeldCalls, SlotCalls
<1>9. QueuedOnce(jobQ')
  BY <1>4, QueuedOnceDef
<1>10. CallsIn(jobQ') = {}
  BY <1>4, CallsInDef
<1>11. Known' = HeldCalls \cup started
  BY <1>8, <1>10 DEF Shutdown, Known
<1>12. JobsApart' /\ CallsMade'
  <2>1. Known' \subseteq 1..calls'
    BY <1>0, <1>11 DEF Shutdown, PoolInv, JobsApart, Known
  <2>2. JobsApart'
    BY <1>0, <1>8, <1>9, <1>10, <2>1 DEF Shutdown, PoolInv, JobsApart
  <2>3. CallsMade'
    BY <1>0 DEF Shutdown, PoolInv, CallsMade
  <2> QED
    BY <2>2, <2>3
<1>13. freed' = freed \cup CallsIn(jobQ) \cup SlotCalls /\ removed' = removed /\ calls' = calls
  BY <1>0, PoolRunsOnce DEF Shutdown
<1>14. /\ CallsIn(jobQ) \cup SlotCalls \subseteq Known
       /\ (HeldCalls \cup started) \cap (CallsIn(jobQ) \cup SlotCalls) = {}
       /\ HeldCalls \cup started \subseteq Known
  BY <1>0 DEF PoolInv, JobsApart, Known
<1>15. Gone'
  <2>1. Known \subseteq 1..calls
    BY <1>0 DEF PoolInv, JobsApart
  <2>2. shutdown' # "no"
    BY DEF Shutdown
  <2> QED
    BY <1>11, <1>13, <1>14, <2>1, <2>2 DEF LifeInv, Gone
<1> QED
  BY <1>5, <1>6, <1>7, <1>12, <1>15 DEF LifeInv, PoolInv

(* A worker that finds shutdown set counts itself out.                     *)
LEMMA StopsLife ==
  ASSUME LifeInv, NEW w \in Workers, WorkerStops(w)
  PROVE  LifeInv'
<1>0. PoolInv /\ worker[w] \in {"top", "awake", "timedout"} /\ WorkerExit(w) /\ WorkerFrame
  BY DEF LifeInv, WorkerStops, WorkerFrame
<1>1. BInv'
  BY <1>0, ExitBInv DEF PoolInv, Counted, WorkerStates, WorkerFrame
<1>2. /\ busyThreads' = Cardinality(Busy \ {w})
      /\ persistentThreads' = Cardinality(Persistent \ {w})
  <2>1. CASE worker[w] = "top"
    BY <1>0, <2>1, TopCounts DEF WorkerStops, PoolInv
  <2>2. CASE worker[w] # "top"
    BY <1>0, <2>2, WakeCounts DEF WorkerStops, PoolInv
  <2> QED
    BY <2>1, <2>2
<1>3. totalThreads' \in Nat
  BY <1>1 DEF BInv, CountType
<1>4. JobStep
  BY <1>0, <1>2, <1>3, LeaveStep
<1>5. calls' \in Nat /\ UNCHANGED lifeVars /\ shutdown' # "no"
  BY <1>4 DEF JobStep, TypeOK, WorkerStops, lifeVars
<1>6. Gone'
  BY <1>4, <1>5, GoneStays DEF JobStep
<1> QED
  BY <1>1, <1>4, <1>6 DEF JobStep, LifeInv, PoolInv

(* ThreadPoolRemove takes one job out of the pool, for good.               *)
LEMMA RemoveLife ==
  ASSUME LifeInv, NEW n, Remove(n)
  PROVE  LifeInv'
<1> USE DEF countVars, workVars, callVars
<1>0. PoolInv /\ jobQ \in JobQueues /\ QueuedOnce(jobQ) /\ calls \in Nat
  BY PoolQueues DEF LifeInv
<1>1. NoJob \in Job /\ NoJob.call = 0
  BY PoolAssumption DEF NoJob, Job
<1>2. /\ UNCHANGED <<countVars, workVars, callVars, lastJobId, started, granted, shutdown, freed>>
  BY DEF Remove
<1>3. Holders' = Holders /\ HeldCalls' = HeldCalls
  BY <1>2 DEF Holders, HeldCalls
<1>4. PICK m : /\ removed' = removed \cup {m}
               /\ jobQ' \in JobQueues /\ QueuedOnce(jobQ') /\ persistentJob' \in Job
               /\ m \in CallsIn(jobQ) \cup SlotCalls
               /\ CallsIn(jobQ') \subseteq CallsIn(jobQ) \ {m}
               /\ SlotCalls' \subseteq SlotCalls \ {m}
               /\ persistentJob' \in {persistentJob, NoJob}
  <2>1. CASE Matches(n) # {}
    <3>1. PICK x \in Matches(n) :
            /\ removed' = removed \cup {jobQ[x[1]][x[2]].call}
            /\ jobQ' = [jobQ EXCEPT ![x[1]] = Without(@, x[2])]
            /\ UNCHANGED persistentJob
      BY <2>1 DEF Remove
    <3> DEFINE p == x[1]
               i == x[2]
               m == jobQ[p][i].call
    <3>2. p \in Priorities /\ i \in 1..Len(jobQ[p])
      <4>1. p \in Priorities /\ i \in 1..MaxCalls /\ i <= Len(jobQ[p])
        BY DEF Matches
      <4> QED
        BY <1>0, <4>1, QueueTypes, PoolAssumption
    <3>3. jobQ' \in JobQueues /\ QueuedOnce(jobQ') /\ CallsIn(jobQ') = CallsIn(jobQ) \ {m}
      <4>1. jobQ' = [jobQ EXCEPT ![p] = Without(@, i)]
        BY <3>1
      <4> HIDE DEF p, i
      <4> QED
        BY <1>0, <3>2, <4>1, RemoveDrops
    <3>4. m \in CallsIn(jobQ)
      BY <1>0, <3>2, CallsInDef
    <3>5. SlotCalls' = SlotCalls /\ m \notin SlotCalls
      BY <1>0, <3>1, <3>4 DEF SlotCalls, PoolInv, JobsApart
    <3> HIDE DEF m
    <3>6. removed' = removed \cup {m} /\ persistentJob' = persistentJob /\ persistentJob' \in Job
      BY <1>0, <3>1 DEF m, PoolInv, TypeOK
    <3> QED
      BY <3>3, <3>4, <3>5, <3>6
  <2>2. CASE /\ persistentJob # NoJob
             /\ removed' = removed \cup {persistentJob.call}
             /\ persistentJob' = NoJob
             /\ UNCHANGED jobQ
    <3> DEFINE m == persistentJob.call
    <3>1. m \in SlotCalls /\ SlotCalls' = {} /\ m \notin CallsIn(jobQ)
      BY <1>0, <1>1, <2>2 DEF SlotCalls, PoolInv, JobsApart
    <3>2. CallsIn(jobQ') = CallsIn(jobQ) /\ jobQ' \in JobQueues /\ QueuedOnce(jobQ')
      BY <1>0, <2>2
    <3> QED
      BY <1>1, <2>2, <3>1, <3>2
  <2> QED
    BY <2>1, <2>2 DEF Remove
<1>5. TypeOK'
  BY <1>0, <1>2, <1>4 DEF PoolInv, TypeOK, JobQueues
<1>6. BInv' /\ WorkInv'
  <2>1. BInv'
    BY <1>0, <1>2, NoThreads DEF PoolInv
  <2>2. WorkInv'
    BY <1>0, <1>2 DEF PoolInv, WorkInv, WorkerLocals, BusyExact, RunsApart, Busy, Persistent
  <2> QED
    BY <2>1, <2>2
<1>7. /\ Known' \subseteq Known \ {m} /\ m \in Known /\ Known \subseteq 1..calls
  BY <1>0, <1>2, <1>3, <1>4 DEF Known, PoolInv, JobsApart
<1>8. JobsApart'
  <2>1. /\ SlotCalls' \cap CallsIn(jobQ') = {}
        /\ started' \cap (SlotCalls' \cup CallsIn(jobQ')) = {}
        /\ HeldCalls' \cap (SlotCalls' \cup CallsIn(jobQ') \cup started') = {}
    BY <1>0, <1>2, <1>3, <1>4 DEF PoolInv, JobsApart
  <2>2. /\ \A c, d \in Holders' : cjob'[c].call = cjob'[d].call => c = d
        /\ Known' \subseteq 1..calls'
        /\ persistentJob' # NoJob => persistentJob'.call # 0
    BY <1>0, <1>2, <1>3, <1>4, <1>7 DEF PoolInv, JobsApart
  <2> QED
    BY <1>4, <2>1, <2>2 DEF JobsApart
<1>9. CallsMade'
  BY <1>0, <1>2 DEF PoolInv, CallsMade
<1>10. Gone'
  BY <1>2, <1>4, <1>7 DEF LifeInv, Gone, AtLeast
<1> QED
  BY <1>5, <1>6, <1>8, <1>9, <1>10 DEF LifeInv, PoolInv

(* The inductive invariant of the pool's whole life.                       *)
LEMMA LifeInvariant == LifeSpec => []LifeInv
<1>1. LifeInit => LifeInv
  <2> SUFFICES ASSUME LifeInit PROVE LifeInv
    OBVIOUS
  <2>1. PoolInv /\ freed = {} /\ removed = {}
    BY InitPool DEF LifeInit
  <2>2. AtLeast
    BY PoolAssumption DEF LifeInit, Init, AtLeast
  <2> QED
    BY <2>1, <2>2 DEF LifeInv, Gone
<1>2. LifeInv /\ [LifeNext]_allVars => LifeInv'
  <2> SUFFICES ASSUME LifeInv, [LifeNext]_allVars PROVE LifeInv'
    OBVIOUS
  <2>1. CASE PoolStep
    <3>1. Next /\ UNCHANGED lifeVars
      BY <2>1 DEF PoolStep, Next, ClientStep, WorkerStep, lifeVars
    <3> QED
      BY <3>1, PoolLife
  <2>2. CASE Destroy
    <3>1. UNCHANGED vars /\ shutdown' # "no" /\ UNCHANGED <<freed, removed>>
      BY <2>2 DEF Destroy
    <3>2. PoolInv' /\ NothingBack
      BY <3>1, StepPool DEF LifeInv
    <3>3. calls' = calls /\ calls \in Nat
      BY <3>1, PoolQueues DEF vars, callVars, LifeInv
    <3>4. Known' = Known
      BY <3>1 DEF vars, callVars, Known, HeldCalls, Holders, SlotCalls
    <3> QED
      BY <3>1, <3>2, <3>3, <3>4 DEF LifeInv, Gone
  <2>3. CASE UNCHANGED allVars
    BY <2>3, PoolLife DEF allVars
  <2> QED
    BY <2>1, <2>2, <2>3, ShutdownLife, StopsLife, RemoveLife DEF LifeNext
<1> QED
  BY <1>1, <1>2, PTL DEF LifeSpec

(* The pool keeps its types through the shutdown and any ThreadPoolRemove. *)
THEOREM LifeTypeCorrect == LifeSpec => []TypeOK
<1>1. LifeInv => TypeOK
  BY DEF LifeInv, PoolInv
<1> QED
  BY <1>1, LifeInvariant, PTL

(* busyThreads and persistentThreads stay exact through the shutdown and   *)
(* any ThreadPoolRemove.                                                   *)
THEOREM LifeBusyCorrect == LifeSpec => []BusyExact
<1>1. LifeInv => BusyExact
  BY DEF LifeInv, PoolInv, WorkInv
<1> QED
  BY <1>1, LifeInvariant, PTL

(* The thread counters stay exact to the last thread, the upper bound      *)
(* always holds, and minThreads holds until the shutdown.                  *)
THEOREM LifeBoundsCorrect == LifeSpec => [](CountsExact /\ (shutdown = "no" => ThreadBounds))
<1>1. LifeInv => CountsExact /\ (shutdown = "no" => ThreadBounds)
  BY DEF LifeInv, PoolInv, BInv, CountsExact, ThreadBounds, Gone, AtLeast
<1> QED
  BY <1>1, LifeInvariant, PTL

(* Every job is run once, freed by ThreadPoolShutdown or taken by          *)
(* ThreadPoolRemove, never two of these, and is gone from the pool then.   *)
THEOREM OneFateCorrect == LifeSpec => []OneFate
<1>1. LifeInv => OneFate
  <2> SUFFICES ASSUME LifeInv PROVE OneFate
    OBVIOUS
  <2>1. RunsOnce /\ InPool = CallsIn(jobQ) \cup SlotCalls
    BY PoolRunsOnce DEF LifeInv
  <2>2. InPool \cap started = {}
    BY <2>1 DEF LifeInv, PoolInv, JobsApart
  <2> QED
    BY <2>1, <2>2 DEF OneFate, LifeInv, Gone, Known
<1> QED
  BY <1>1, LifeInvariant, PTL

-----------------------------------------------------------------------------
(* No job is lost, as long as one client at a time adds persistent jobs:   *)
(* two of them may overwrite the slot.                                     *)

OneAdder ==
  \A c, d \in Clients : "persistent" \in Ops[c] /\ "persistent" \in Ops[d] => c = d

(* What a client in a call knows of its job.                               *)
Lent ==
  \A c \in Clients :
    /\ client[c] \in {"cw_pending", "cw_start"} /\ cjob[c].op # "persistent" =>
         cjob[c].call \in started \cup CallsIn(jobQ)
    /\ client[c] = "ap_wait" =>
         /\ cjob[c].op = "persistent"
         /\ cjob[c].call \in started \/ cjob[c].call = persistentJob.call
    /\ client[c] # "out" /\ cjob[c].op = "persistent" => "persistent" \in Ops[c]
Granted == granted \subseteq started \cup CallsIn(jobQ)
KeptInv == PoolInv /\ Lent /\ Granted

(* A carried job is put where it is not lost.                               *)
LEMMA CarryKept ==
  ASSUME KeptInv, OneAdder, ClientFrame,
         NEW c \in Clients, NEW j \in Job, NEW q, NEW n, Carries(c, j, q, n),
         CallsIn(jobQ) \subseteq CallsIn(jobQ'),
         j.op = "persistent" => "persistent" \in Ops[c],
         j.op # "persistent" => j.call \in started \cup CallsIn(jobQ'),
         client[c] # "ap_wait"
  PROVE  Lent' /\ Granted'
<1>1. /\ \A d \in Clients \ {c} : client'[d] = client[d] /\ cjob'[d] = cjob[d]
      /\ client'[c] # "out" => cjob'[c] = j
      /\ \/ persistentJob' = persistentJob
         \/ /\ j.op = "persistent" /\ client'[c] = "ap_wait"
            /\ persistentJob' \in Job /\ persistentJob'.call = j.call
  BY CarryPlaces DEF KeptInv, PoolInv
<1>2. started' = started
  BY DEF ClientFrame
<1>3. client'[c] = "ap_wait" => j.op = "persistent" /\ persistentJob'.call = j.call
  <2>1. CASE Parks(c, j, q, n)
    BY <2>1 DEF Parks, Block, KeptInv, PoolInv, TypeOK
  <2>2. CASE j.op = "persistent" /\ PutPersistent(c, j)
    BY <2>2 DEF PutPersistent, Job
  <2>3. CASE AddDone(c, j)
    BY <2>3 DEF AddDone, KeptInv, PoolInv, TypeOK
  <2> QED
    BY <2>1, <2>2, <2>3 DEF Carries
<1>4. ASSUME NEW d \in Clients \ {c}, client[d] = "ap_wait" PROVE persistentJob' = persistentJob
  <2>1. "persistent" \in Ops[d]
    BY <1>4 DEF KeptInv, Lent
  <2> QED
    BY <1>1, <2>1 DEF OneAdder
<1>5. Lent'
  <2> SUFFICES ASSUME NEW d \in Clients
               PROVE  /\ client'[d] \in {"cw_pending", "cw_start"} /\ cjob'[d].op # "persistent" =>
                           cjob'[d].call \in started' \cup CallsIn(jobQ')
                      /\ client'[d] = "ap_wait" =>
                           /\ cjob'[d].op = "persistent"
                           /\ cjob'[d].call \in started' \/ cjob'[d].call = persistentJob'.call
                      /\ client'[d] # "out" /\ cjob'[d].op = "persistent" => "persistent" \in Ops[d]
    BY DEF Lent
  <2>1. CASE d = c
    BY <1>1, <1>2, <1>3, <2>1
  <2>2. CASE d # c
    <3>1. client'[d] = client[d] /\ cjob'[d] = cjob[d]
      BY <1>1, <2>2
    <3> QED
      BY <1>2, <1>4, <2>2, <3>1 DEF KeptInv, Lent
  <2> QED
    BY <2>1, <2>2
<1>6. \/ granted' \subseteq granted
      \/ granted' \subseteq granted \cup {j.call} /\ j.op # "persistent"
  BY DEF Carries, Parks, PutPersistent, AddDone
<1>7. Granted'
  BY <1>2, <1>6 DEF KeptInv, Granted
<1> QED
  BY <1>5, <1>7

(* A step in which jobs only move from the pool to the threads.            *)
LEMMA MoveKept ==
  ASSUME KeptInv, UNCHANGED <<client, cjob, granted>>, started \subseteq started',
         CallsIn(jobQ) \subseteq CallsIn(jobQ') \cup started',
         persistentJob' = persistentJob \/ persistentJob.call \in started'
  PROVE  Lent' /\ Granted'
<1>1. Granted'
  BY DEF KeptInv, Granted
<1>2. Lent'
  BY DEF KeptInv, Lent
<1> QED
  BY <1>1, <1>2

(* A worker loses no job.                                                   *)
LEMMA DispatchKept ==
  ASSUME KeptInv, WorkerFrame, NEW w \in Workers, NEW timedOut, NEW busy, NEW persist,
         Dispatch(w, timedOut, busy, persist)
  PROVE  Lent' /\ Granted'
<1>0. jobQ \in JobQueues /\ UNCHANGED <<client, cjob, granted>>
  BY PoolQueues DEF KeptInv, WorkerFrame
<1>1. CASE WorkerWait(w) \/ WorkerExit(w)
  BY <1>0, <1>1, MoveKept DEF WorkerWait, WorkerExit
<1>2. CASE PickPersistent(w)
  <2>1. CallsIn(jobQ') = CallsIn(jobQ) /\ started' = started \cup {persistentJob.call}
    BY <1>0, <1>2, BumpedSame DEF PickPersistent
  <2> QED
    BY <1>0, <2>1, MoveKept
<1>3. CASE persistentJob = NoJob /\ ~NoWork /\ PickQueued(w)
  <2>1. PICK j \in Job :
          CallsIn(jobQ') = CallsIn(jobQ) \ {j.call} /\ started' = started \cup {j.call}
    BY <1>3, QueuedTaken DEF KeptInv
  <2>2. persistentJob' = persistentJob
    BY <1>3 DEF PickQueued
  <2> QED
    BY <1>0, <2>1, <2>2, MoveKept
<1> QED
  BY <1>1, <1>2, <1>3 DEF Dispatch

(* A call that begins puts its job where it is not lost.                    *)
LEMMA AddKept ==
  ASSUME KeptInv, OneAdder, NEW c \in Clients,
         AddPersistent(c) \/ \E op \in Priorities : Add(c, op)
  PROVE  Lent' /\ Granted'
<1>0. /\ PoolInv /\ jobQ \in JobQueues /\ QueuedOnce(jobQ) /\ calls < MaxCalls
      /\ client[c] = "out" /\ ClientFrame
  BY PoolQueues DEF KeptInv, AddPersistent, Add, ClientFrame
<1>1. CASE UNCHANGED <<client, cjob, granted, persistentJob, jobQ, started>>
  BY <1>1, MoveKept
<1>2. CASE AddPersistent(c) /\ ~UNCHANGED <<client, cjob, granted, persistentJob, jobQ, started>>
  <2> DEFINE j == NewJob("persistent")
  <2>1. j \in Job /\ j.op = "persistent" /\ "persistent" \in Ops[c] /\ jobQ' = jobQ
    BY <1>0, <1>2, NewJobFresh DEF AddPersistent
  <2>2. Carries(c, j, 0, 0)
    <3>1. CreateWorker(c, j, 0, 0) \/ PutPersistent(c, j)
      BY <1>2 DEF AddPersistent
    <3> QED
      BY <2>1, <3>1, CreateCarries DEF Carries
  <2> HIDE DEF j
  <2> QED
    BY <1>0, <2>1, <2>2, CarryKept
<1>3. ASSUME NEW op \in Priorities, Add(c, op),
             ~UNCHANGED <<client, cjob, granted, persistentJob, jobQ, started>>
      PROVE  Lent' /\ Granted'
  <2> DEFINE j == NewJob(op)
             q == Queued + 1
             n == totalThreads - persistentThreads
  <2>1. /\ j \in Job /\ j.op = op /\ op # "persistent" /\ j.call = calls + 1
        /\ calls + 1 \notin Known
    BY <1>0, NewJobFresh DEF Priorities
  <2>2. jobQ' = [jobQ EXCEPT ![op] = Append(@, j)] /\ AddWorker(c, j, q, n)
    BY <1>3 DEF Add
  <2>3. Carries(c, j, q, n)
    BY <2>1, <2>2, AddWorkerCarries
  <2>4. CallsIn(jobQ') = CallsIn(jobQ) \cup {j.call}
    <3>1. j.call \notin CallsIn(jobQ)
      BY <2>1 DEF Known
    <3> HIDE DEF j
    <3> QED
      BY <1>0, <2>1, <2>2, <3>1, AddAppends
  <2> HIDE DEF j, q, n
  <2> QED
    BY <1>0, <2>1, <2>3, <2>4, CarryKept
<1> QED
  BY <1>1, <1>2, <1>3

(* A call that goes on puts its job where it is not lost.                   *)
LEMMA ResumeKept ==
  ASSUME KeptInv, OneAdder, NEW c \in Clients,
         ResumePending(c) \/ ResumeStart(c) \/ ResumePersistent(c) \/ ClientWakeup(c)
  PROVE  Lent' /\ Granted'
<1>0. cjob[c] \in Job /\ client[c] \in ClientStates
  BY DEF KeptInv, PoolInv, TypeOK
<1>1. CASE UNCHANGED <<client, cjob, granted, persistentJob, jobQ, started>>
  BY <1>1, MoveKept
<1>2. ASSUME NEW q, NEW n, Carries(c, cjob[c], q, n), ClientFrame, jobQ' = jobQ,
             client[c] \in {"cw_pending", "cw_start"}
      PROVE  Lent' /\ Granted'
  <2> DEFINE j == cjob[c]
  <2>1. /\ j \in Job /\ Carries(c, j, q, n) /\ client[c] # "ap_wait"
        /\ j.op = "persistent" => "persistent" \in Ops[c]
        /\ j.op # "persistent" => j.call \in started \cup CallsIn(jobQ')
    BY <1>0, <1>2 DEF KeptInv, Lent
  <2> HIDE DEF j
  <2> QED
    BY <1>2, <2>1, CarryKept
<1>3. CASE ResumePending(c)
  <2>1. Carries(c, cjob[c], cjobs[c], cthreads[c])
    BY <1>3, CreateCarries DEF ResumePending
  <2> QED
    BY <1>2, <1>3, <2>1 DEF ResumePending, ClientFrame
<1>4. CASE ResumeStart(c)
  <2>1. client[c] \in {"cw_pending", "cw_start"} /\ ClientFrame /\ jobQ' = jobQ
    BY <1>4 DEF ResumeStart, ClientFrame
  <2>2. CASE UNCHANGED <<client, cjob, granted, persistentJob>>
    BY <2>1, <2>2, <1>1 DEF ClientFrame
  <2>3. CASE cjob[c].op = "persistent" /\ PutPersistent(c, cjob[c])
    <3>1. Carries(c, cjob[c], 0, 0)
      BY <2>3 DEF Carries
    <3> QED
      BY <1>2, <2>1, <3>1
  <2>4. ASSUME NEW n, cjob[c].op # "persistent", AddWorker(c, cjob[c], cjobs[c], n)
        PROVE  Lent' /\ Granted'
    <3>1. Carries(c, cjob[c], cjobs[c], n)
      BY <2>4, AddWorkerCarries
    <3> QED
      BY <1>2, <2>1, <3>1
  <2> QED
    BY <1>4, <2>2, <2>3, <2>4 DEF ResumeStart
<1>5. CASE ResumePersistent(c)
  <2>1. /\ client[c] = "ap_wait" /\ UNCHANGED <<persistentJob, jobQ, started>>
    BY <1>5 DEF ResumePersistent
  <2>2. CASE UNCHANGED <<client, cjob, granted>>
    BY <2>1, <2>2, <1>1
  <2>3. CASE /\ persistentJob = NoJob
             /\ granted' = granted \cup {cjob[c].call}
             /\ client' = [client EXCEPT ![c] = "out"]
             /\ cjob' = [cjob EXCEPT ![c] = NoJob]
    <3>1. cjob[c].call # 0
      BY <2>1, PoolQueues DEF KeptInv, PoolInv, CallsMade
    <3>2. cjob[c].call \in started
      BY <2>1, <2>3, <3>1 DEF KeptInv, Lent, NoJob
    <3>3. Granted'
      BY <2>1, <2>3, <3>2 DEF KeptInv, Granted
    <3>4. /\ client'[c] = "out"
          /\ \A d \in Clients \ {c} : client'[d] = client[d] /\ cjob'[d] = cjob[d]
      BY <2>3 DEF KeptInv, PoolInv, TypeOK
    <3>5. Lent'
      BY <2>1, <3>4 DEF KeptInv, Lent
    <3> QED
      BY <3>3, <3>5
  <2> QED
    BY <1>5, <2>2, <2>3 DEF ResumePersistent
<1>6. CASE ClientWakeup(c)
  BY <1>1, <1>6 DEF ClientWakeup
<1> QED
  BY <1>3, <1>4, <1>5, <1>6

(* A call that returned 0 has its job run or queued, whatever the threads  *)
(* do, when one client adds the persistent jobs.                           *)
THEOREM NoJobLostCorrect ==
  ASSUME OneAdder
  PROVE  Spec => []NoJobLost
<1>1. Init => KeptInv
  BY InitPool DEF Init, KeptInv, Lent, Granted
<1>2. KeptInv /\ [Next]_vars => KeptInv'
  <2> SUFFICES ASSUME KeptInv, [Next]_vars PROVE KeptInv'
    OBVIOUS
  <2>1. PoolInv'
    BY StepPool DEF KeptInv
  <2>2. ASSUME NEW c \in Clients, ClientStep(c) PROVE Lent' /\ Granted'
    BY <2>2, AddKept, ResumeKept DEF ClientStep
  <2>3. ASSUME NEW w \in Workers, WorkerStep(w) PROVE Lent' /\ Granted'
    <3>1. CASE WorkerTop(w)
      BY <3>1, DispatchKept DEF WorkerTop, WorkerFrame
    <3>2. CASE WorkerResume(w)
      BY <3>2, DispatchKept DEF WorkerResume, WorkerFrame
    <3>3. CASE WorkerStart(w) \/ WorkerTimeout(w) \/ JobReturns(w)
      BY <3>3, MoveKept DEF WorkerStart, WorkerTimeout, JobReturns, callVars
    <3> QED
      BY <2>3, <3>1, <3>2, <3>3 DEF WorkerStep
  <2>4. CASE UNCHANGED vars
    <3>1. UNCHANGED <<client, cjob, granted, started, jobQ, persistentJob>>
      BY <2>4 DEF vars, callVars
    <3>2. Lent' /\ Granted'
      BY <3>1, MoveKept
    <3> QED
      BY <2>1, <3>2 DEF KeptInv
  <2> QED
    BY <2>1, <2>2, <2>3, <2>4 DEF Next, KeptInv
<1>3. KeptInv => NoJobLost
  BY PoolRunsOnce DEF KeptInv, Granted, NoJobLost
<1> QED
  BY <1>1, <1>2, <1>3, PTL DEF Spec

=============================================================================
