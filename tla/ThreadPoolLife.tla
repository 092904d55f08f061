--------------------------- MODULE ThreadPoolLife ---------------------------
(***************************************************************************)
(* The end of the thread pool: ThreadPoolShutdown, which tp_done calls,    *)
(* beside the calls and the workers of ThreadPool; and ThreadPoolRemove,   *)
(* the call that takes a job by its number.  No call is begun once the     *)
(* shutdown has, but calls under way go on.                                *)
(***************************************************************************)
EXTENDS ThreadPool

VARIABLES
  shutdown,      (* "no", "wait" while ThreadPoolShutdown waits, "done"      *)
  freed,         (* jobs given to their free_func                            *)
  removed        (* jobs taken out by ThreadPoolRemove                       *)

lifeVars == <<shutdown, freed, removed>>
allVars == <<vars, lifeVars>>

LifeInit ==
  /\ Init
  /\ shutdown = "no" /\ freed = {} /\ removed = {}

(* A step of the pool.  Once shutdown is set no call begins, and workers   *)
(* only finish what they run.                                              *)
PoolStep ==
  /\ \/ shutdown = "no" /\ Next
     \/ /\ shutdown = "wait"
        /\ \/ \E c \in Clients : \/ ResumePending(c) \/ ResumeStart(c)
                                 \/ ResumePersistent(c) \/ ClientWakeup(c)
           \/ \E w \in Workers : WorkerStart(w) \/ JobReturns(w)
  /\ UNCHANGED <<shutdown, freed, removed>>

InPool == QueuedCalls \cup ({persistentJob.call} \ {0})

(* ThreadPoolShutdown up to its wait: every waiting job is freed, every    *)
(* idle worker woken.                                                      *)
Shutdown ==
  /\ shutdown = "no"
  /\ freed' = freed \cup InPool
  /\ jobQ' = [p \in Priorities |-> <<>>]
  /\ persistentJob' = NoJob
  /\ shutdown' = "wait"
  /\ worker' = [w \in Workers |-> IF worker[w] = "idle" THEN "awake" ELSE worker[w]]
  /\ UNCHANGED <<countVars, wjob, wpersist, callVars, lastJobId, started,
                 granted, removed>>

(* Mutant of WorkerStops: a worker woken from its wait looks for a job     *)
(* only.                                                                   *)
WorkerStopsAtTop(w) ==
  /\ shutdown = "wait" /\ worker[w] = "top"
  /\ WorkerExit(w)
  /\ busyThreads' = IF wjob[w] # NoJob THEN busyThreads - 1 ELSE busyThreads
  /\ persistentThreads' = IF wpersist[w] = 1 THEN persistentThreads - 1
                          ELSE persistentThreads
  /\ UNCHANGED <<pendingWorkerThreadStart, client, cjob, cjobs, cthreads, calls,
                 lastJobId, granted, lifeVars>>

(* WorkerThread finds shutdown set, at the top of its loop or after a wait.*)
WorkerStops(w) ==
  /\ shutdown = "wait" /\ worker[w] \in {"top", "awake", "timedout"}
  /\ WorkerExit(w)
  /\ IF worker[w] = "top"
       THEN /\ busyThreads' = IF wjob[w] # NoJob THEN busyThreads - 1 ELSE busyThreads
            /\ persistentThreads' = IF wpersist[w] = 1 THEN persistentThreads - 1
                                    ELSE persistentThreads
       ELSE UNCHANGED <<busyThreads, persistentThreads>>
  /\ UNCHANGED <<pendingWorkerThreadStart, client, cjob, cjobs, cthreads, calls,
                 lastJobId, granted, lifeVars>>

(* The end of ThreadPoolShutdown: no thread counts, the conditions and the *)
(* mutex are destroyed.                                                    *)
Destroy ==
  /\ shutdown = "wait" /\ totalThreads = 0
  /\ shutdown' = "done"
  /\ UNCHANGED <<vars, freed, removed>>

(* The first job with the number n, in the order high, med, low.           *)
Matches(n) ==
  {x \in Priorities \X (1..MaxCalls) :
     x[2] <= Len(jobQ[x[1]]) /\ jobQ[x[1]][x[2]].id = n}
Before(x, y) ==
  LET rank == [high |-> 1, med |-> 2, low |-> 3]
  IN rank[x[1]] < rank[y[1]] \/ (x[1] = y[1] /\ x[2] < y[2])
Without(q, i) == SubSeq(q, 1, i - 1) \o SubSeq(q, i + 1, Len(q))

(* Mutant of Remove: ListDelNode is missing.                               *)
RemoveKeeps(n) ==
  /\ shutdown = "no"
  /\ IF Matches(n) # {}
       THEN \E x \in Matches(n) :
              /\ \A y \in Matches(n) \ {x} : Before(x, y)
              /\ removed' = removed \cup {jobQ[x[1]][x[2]].call}
              /\ UNCHANGED <<jobQ, persistentJob>>
       ELSE /\ persistentJob # NoJob /\ persistentJob.id = n
            /\ removed' = removed \cup {persistentJob.call}
            /\ persistentJob' = NoJob
            /\ UNCHANGED jobQ
  /\ UNCHANGED <<countVars, workVars, callVars, lastJobId, started, granted,
                 shutdown, freed>>

(* ThreadPoolRemove, for a number that it finds.                           *)
Remove(n) ==
  /\ shutdown = "no"
  /\ IF Matches(n) # {}
       THEN \E x \in Matches(n) :
              /\ \A y \in Matches(n) \ {x} : Before(x, y)
              /\ removed' = removed \cup {jobQ[x[1]][x[2]].call}
              /\ jobQ' = [jobQ EXCEPT ![x[1]] = Without(@, x[2])]
              /\ UNCHANGED persistentJob
       ELSE /\ persistentJob # NoJob /\ persistentJob.id = n
            /\ removed' = removed \cup {persistentJob.call}
            /\ persistentJob' = NoJob
            /\ UNCHANGED jobQ
  /\ UNCHANGED <<countVars, workVars, callVars, lastJobId, started, granted,
                 shutdown, freed>>

LifeNext ==
  \/ PoolStep \/ Shutdown \/ Destroy
  \/ \E w \in Workers : WorkerStops(w)
  \/ \E n \in 0..MaxCalls : Remove(n)

LifeSpec == LifeInit /\ [][LifeNext]_allVars

(* The kernel runs every thread, and every job returns.                    *)
LifeFair ==
  /\ LifeSpec
  /\ WF_allVars(Destroy)
  /\ \A w \in Workers :
       WF_allVars(WorkerStops(w) \/ (PoolStep /\ (WorkerStart(w) \/ JobReturns(w))))

-----------------------------------------------------------------------------
(* Every job has one fate: WorkerThread runs it, once, ThreadPoolShutdown  *)
(* frees it or ThreadPoolRemove takes it, and what has met its fate is     *)
(* nowhere in the pool.  ThreadPool.h: Remove "can only remove jobs which  *)
(* are not currently running".                                             *)
OneFate ==
  /\ RunsOnce
  /\ started \cap freed = {} /\ started \cap removed = {}
  /\ freed \cap removed = {}
  /\ InPool \cap (started \cup freed \cup removed) = {}

(* ThreadPoolShutdown returns when every job does, unless a call is stuck  *)
(* in the pool.                                                            *)
ShutdownEnds ==
  (shutdown = "wait" /\ \A c \in Clients : client[c] = "out")
    ~> (shutdown = "done")

(* ThreadPool.h of ThreadPoolShutdown: "Waits for all threads to finish."  *)
ShutdownWaits == shutdown = "done" => Starting = {}

=============================================================================
