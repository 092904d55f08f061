--------------------------- MODULE JobPriorities ---------------------------
(***************************************************************************)
(* The order in which the pool of ThreadPool.c takes jobs from its three   *)
(* queues, with the clock that BumpPriority reads.  A worker that finds    *)
(* work holds the mutex from BumpPriority to the pickup; one turn of       *)
(* BumpPriority's loop is one step.  ThreadPool leaves the clock out and   *)
(* lets any heads move.                                                    *)
(***************************************************************************)
EXTENDS Integers, Sequences

CONSTANTS
  StarvationTime, MaxIdleTime,   (* attr.starvationTime, attr.maxIdleTime    *)
  MaxJobs,       (* bound: jobs added                                        *)
  MaxClock       (* bound on the clock                                       *)

ASSUME TimeAssumption ==
  /\ StarvationTime \in Nat /\ MaxIdleTime \in Nat
  /\ MaxJobs \in Nat /\ MaxClock \in Nat

Queues == {"high", "med", "low"}

VARIABLES
  clock,         (* what gettimeofday would return                           *)
  queue,         (* highJobQ, medJobQ, lowJobQ: numbers of jobs              *)
  prio,          (* the priority each job was added with                     *)
  requestTime,   (* of each job                                              *)
  prioPc, now,   (* of the worker that holds the mutex; its local now        *)
  picked         (* jobs in the order they were picked up                    *)

prioVars == <<clock, queue, prio, requestTime, prioPc, now, picked>>

PrioInit ==
  /\ clock = 0 /\ now = 0 /\ prioPc = "free"
  /\ queue = [p \in Queues |-> <<>>]
  /\ prio = <<>> /\ requestTime = <<>> /\ picked = <<>>

(* The clock is the wall clock: it advances, and it can be set back.       *)
SetClock(t) ==
  /\ clock' = t
  /\ UNCHANGED <<queue, prio, requestTime, prioPc, now, picked>>

(* CreateThreadPoolJob and the ListAddTail of ThreadPoolAdd.               *)
AddJob(p) ==
  /\ prioPc = "free" /\ Len(prio) < MaxJobs
  /\ prio' = Append(prio, p)
  /\ requestTime' = Append(requestTime, clock)
  /\ queue' = [queue EXCEPT ![p] = Append(@, Len(prio) + 1)]
  /\ UNCHANGED <<clock, prioPc, now, picked>>

(* A worker finds a queue filled and enters BumpPriority.                  *)
BumpPriority ==
  /\ prioPc = "free" /\ \E p \in Queues : queue[p] # <<>>
  /\ prioPc' = "bump" /\ now' = clock
  /\ UNCHANGED <<clock, queue, prio, requestTime, picked>>

DiffMillis(p) == now - requestTime[Head(queue[p])]

MedStarved == queue["med"] # <<>> /\ DiffMillis("med") >= StarvationTime
LowStarved == queue["low"] # <<>> /\ DiffMillis("low") >= MaxIdleTime

(* ListDelNode and ListAddTail.                                            *)
Move(from, to) ==
  queue' = [queue EXCEPT ![from] = Tail(@), ![to] = Append(@, Head(queue[from]))]

(* Mutant of BumpMed: the job is put at the head of the queue.             *)
BumpMedToHead ==
  /\ prioPc = "bump" /\ MedStarved
  /\ queue' = [queue EXCEPT !["med"] = Tail(@), !["high"] = <<Head(queue["med"])>> \o @]
  /\ UNCHANGED <<clock, prio, requestTime, prioPc, now, picked>>

BumpMed ==
  /\ prioPc = "bump" /\ MedStarved
  /\ Move("med", "high")
  /\ UNCHANGED <<clock, prio, requestTime, prioPc, now, picked>>

BumpLow ==
  /\ prioPc = "bump" /\ ~MedStarved /\ LowStarved
  /\ Move("low", "med")
  /\ UNCHANGED <<clock, prio, requestTime, prioPc, now, picked>>

BumpDone ==
  /\ prioPc = "bump" /\ ~MedStarved /\ ~LowStarved
  /\ prioPc' = "pick"
  /\ UNCHANGED <<clock, queue, prio, requestTime, now, picked>>

(* The head of the first queue that has one.                               *)
Pick(p) ==
  /\ prioPc = "pick" /\ queue[p] # <<>>
  /\ p = "med" => queue["high"] = <<>>
  /\ p = "low" => queue["high"] = <<>> /\ queue["med"] = <<>>
  /\ picked' = Append(picked, Head(queue[p]))
  /\ queue' = [queue EXCEPT ![p] = Tail(@)]
  /\ prioPc' = "free"
  /\ UNCHANGED <<clock, prio, requestTime, now>>

Worker == BumpMed \/ BumpLow \/ BumpDone \/ \E p \in Queues : Pick(p)

PrioNext ==
  \/ \E t \in 0..MaxClock : SetClock(t)
  \/ \E p \in Queues : AddJob(p)
  \/ BumpPriority \/ Worker

PrioSpec == PrioInit /\ [][PrioNext]_prioVars

-----------------------------------------------------------------------------
(* The jobs in the order in which they leave if nothing more is bumped.    *)
Line == picked \o queue["high"] \o queue["med"] \o queue["low"]

(* BumpPriority moves jobs past others, but never past one that was added  *)
(* earlier with the same priority, whatever the wall clock does.           *)
SamePriorityInOrder ==
  \A i, j \in 1..Len(Line) :
    i < j /\ prio[Line[i]] = prio[Line[j]] => Line[i] < Line[j]

=============================================================================
