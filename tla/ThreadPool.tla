----------------------------- MODULE ThreadPool -----------------------------
(***************************************************************************)
(* The thread pool of common/threadpool/ThreadPool.c, on which the server  *)
(* runs its core, HTTP and listener threads and one RTMP publisher per     *)
(* session.  Every operation holds tp->mutex and gives it up only in a     *)
(* condition wait, so a step is the code between two such points.          *)
(*                                                                         *)
(* Clients call ThreadPoolAddPersistent and ThreadPoolAdd; both may call   *)
(* CreateWorker, which waits on start_and_shutdown for the new thread.     *)
(***************************************************************************)
EXTENDS Integers, Sequences, FiniteSets

CONSTANTS
  Workers,        (* identities for pool threads                             *)
  Clients,        (* threads that call the pool                              *)
  Ops,            (* what each calls: "persistent" and priorities of Add     *)
  MinThreads,     (* attr.minThreads                                         *)
  MaxThreads,     (* attr.maxThreads                                         *)
  JobsPerThread,  (* attr.jobsPerThread                                      *)
  MaxJobs,        (* attr.maxJobsTotal                                       *)
  MaxCalls,       (* bound: calls made by all clients                        *)
  SpawnMayFail,   (* whether pthread_create can fail                         *)
  IdleIsLong      (* whether attr.maxIdleTime (5 s) outlasts the time a new  *)
                  (* thread or a woken client needs to run                   *)

Priorities == {"high", "med", "low"}

ASSUME PoolAssumption ==
  /\ IsFiniteSet(Workers)
  /\ Ops \in [Clients -> SUBSET (Priorities \cup {"persistent"})]
  /\ MinThreads \in Nat /\ MaxThreads \in Nat /\ MinThreads <= MaxThreads
  /\ MinThreads <= Cardinality(Workers)
  /\ JobsPerThread \in Nat \ {0} /\ MaxJobs \in Nat /\ MaxCalls \in Nat
  /\ SpawnMayFail \in BOOLEAN /\ IdleIsLong \in BOOLEAN

VARIABLES
  totalThreads, pendingWorkerThreadStart, busyThreads, persistentThreads,
  persistentJob,  (* the slot for one persistent job, or NoJob               *)
  jobQ,           (* highJobQ, medJobQ, lowJobQ                              *)
  lastJobId,
  worker,         (* state of each pool thread                               *)
  wjob,           (* its local job                                           *)
  wpersist,       (* its local persistent: -1, 0 or 1                        *)
  client,         (* where each client is                                    *)
  cjob,           (* the job it is adding                                    *)
  cjobs,          (* AddWorker's local jobs                                  *)
  cthreads,       (* AddWorker's local threads                               *)
  asleep,         (* clients blocked on start_and_shutdown                   *)
  calls,          (* calls so far                                            *)
  started,        (* jobs handed to a thread                                 *)
  granted         (* jobs whose call returned 0                              *)

countVars == <<totalThreads, pendingWorkerThreadStart, busyThreads, persistentThreads>>
workVars  == <<worker, wjob, wpersist>>
callVars  == <<client, cjob, cjobs, cthreads, asleep, calls>>
vars == <<countVars, workVars, callVars, persistentJob, jobQ, lastJobId, started, granted>>

(* A job is known by the call that made it; id is what the pool stores.    *)
NoJob == [call |-> 0, id |-> 0, op |-> "persistent"]
Job   == [call : 0..MaxCalls, id : Nat, op : Priorities \cup {"persistent"}]

WorkerStates == {"none", "starting", "top", "idle", "awake", "timedout", "run"}
ClientStates == {"out", "cw_pending", "cw_start", "ap_wait"}

(* A thread counts from its first critical section to its last.            *)
Alive    == {w \in Workers : worker[w] \notin {"none", "starting"}}
Starting == {w \in Workers : worker[w] = "starting"}
Busy     == {w \in Workers : wjob[w] # NoJob}
Persistent == {w \in Workers : wjob[w] # NoJob /\ wpersist[w] = 1}

TypeOK ==
  /\ totalThreads \in Nat /\ busyThreads \in Nat /\ persistentThreads \in Nat
  /\ pendingWorkerThreadStart \in 0..1
  /\ persistentJob \in Job
  /\ jobQ \in [Priorities -> Seq(Job)]
  /\ lastJobId \in Nat
  /\ worker \in [Workers -> WorkerStates]
  /\ wjob \in [Workers -> Job]
  /\ wpersist \in [Workers -> -1..1]
  /\ client \in [Clients -> ClientStates]
  /\ cjob \in [Clients -> Job]
  /\ cjobs \in [Clients -> Nat] /\ cthreads \in [Clients -> Int]
  /\ asleep \subseteq Clients
  /\ calls \in 0..MaxCalls
  /\ started \subseteq 1..MaxCalls /\ granted \subseteq 1..MaxCalls

(* ThreadPoolInit has succeeded: minThreads workers have started, nothing  *)
(* is queued.  With tp.c's minimum of 0 it creates no thread that could    *)
(* fail; a pool that cannot be initialised is shut down and never used.    *)
Init ==
  /\ \E S \in SUBSET Workers :
       /\ Cardinality(S) = MinThreads
       /\ worker = [w \in Workers |-> IF w \in S THEN "top" ELSE "none"]
  /\ totalThreads = MinThreads /\ pendingWorkerThreadStart = 0
  /\ busyThreads = 0 /\ persistentThreads = 0
  /\ persistentJob = NoJob
  /\ jobQ = [p \in Priorities |-> <<>>]
  /\ lastJobId = 0
  /\ wjob = [w \in Workers |-> NoJob]
  /\ wpersist = [w \in Workers |-> -1]
  /\ client = [c \in Clients |-> "out"]
  /\ cjob = [c \in Clients |-> NoJob]
  /\ cjobs = [c \in Clients |-> 0] /\ cthreads = [c \in Clients |-> 0]
  /\ asleep = {} /\ calls = 0 /\ started = {} /\ granted = {}

-----------------------------------------------------------------------------
(* ithread_cond_signal(&tp->condition): at most one waiting worker.        *)
Signal ==
  IF \E w \in Workers : worker[w] = "idle"
    THEN \E w \in Workers : worker[w] = "idle" /\ worker' = [worker EXCEPT ![w] = "awake"]
    ELSE UNCHANGED worker

(* Client c blocks on start_and_shutdown at label l.                       *)
Block(c, l) ==
  /\ client' = [client EXCEPT ![c] = l]
  /\ asleep' = asleep \cup {c}

(* The rest of ThreadPoolAddPersistent once a worker was made or found:    *)
(* the job goes into the slot, whatever the slot holds.                    *)
PutPersistent(c, j) ==
  /\ persistentJob' = [j EXCEPT !.id = lastJobId]
  /\ Signal
  /\ Block(c, "ap_wait")
  /\ cjob' = [cjob EXCEPT ![c] = j]
  /\ UNCHANGED <<lastJobId, granted, cjobs, cthreads, pendingWorkerThreadStart>>

(* The rest of ThreadPoolAdd after AddWorker.                              *)
AddDone(c, j) ==
  /\ Signal
  /\ lastJobId' = lastJobId + 1
  /\ granted' = granted \cup {j.call}
  /\ client' = [client EXCEPT ![c] = "out"]
  /\ cjob' = [cjob EXCEPT ![c] = NoJob]
  /\ cjobs' = [cjobs EXCEPT ![c] = 0] /\ cthreads' = [cthreads EXCEPT ![c] = 0]
  /\ UNCHANGED <<asleep, persistentJob, pendingWorkerThreadStart>>

(* CreateWorker returned an error: AddPersistent ignores it, AddWorker     *)
(* stops adding.                                                           *)
CreateFailed(c, j) ==
  IF j.op = "persistent" THEN PutPersistent(c, j) ELSE AddDone(c, j)

(* Mutant of CreateWorker: it does not wait for a worker that is starting. *)
CreateWorkerNoWait(c, j, q, n) ==
  \/ /\ totalThreads + 1 > MaxThreads \/ SpawnMayFail
     /\ CreateFailed(c, j)
  \/ /\ totalThreads + 1 <= MaxThreads
     /\ \E w \in Workers : worker[w] = "none" /\ worker' = [worker EXCEPT ![w] = "starting"]
     /\ pendingWorkerThreadStart' = 1
     /\ Block(c, "cw_start")
     /\ cjob' = [cjob EXCEPT ![c] = j]
     /\ cjobs' = [cjobs EXCEPT ![c] = q]
     /\ cthreads' = [cthreads EXCEPT ![c] = n]
     /\ UNCHANGED <<persistentJob, lastJobId, granted>>

(* CreateWorker.  AddWorker's locals q and n survive the wait.             *)
CreateWorker(c, j, q, n) ==
  \/ /\ pendingWorkerThreadStart = 1
     /\ Block(c, "cw_pending")
     /\ cjob' = [cjob EXCEPT ![c] = j]
     /\ cjobs' = [cjobs EXCEPT ![c] = q]
     /\ cthreads' = [cthreads EXCEPT ![c] = n]
     /\ UNCHANGED <<persistentJob, worker, lastJobId, granted, pendingWorkerThreadStart>>
  \/ /\ pendingWorkerThreadStart = 0
     /\ totalThreads + 1 > MaxThreads \/ SpawnMayFail
     /\ CreateFailed(c, j)
  \/ /\ pendingWorkerThreadStart = 0
     /\ totalThreads + 1 <= MaxThreads
     /\ \E w \in Workers : worker[w] = "none" /\ worker' = [worker EXCEPT ![w] = "starting"]
     /\ pendingWorkerThreadStart' = 1
     /\ Block(c, "cw_start")
     /\ cjob' = [cjob EXCEPT ![c] = j]
     /\ cjobs' = [cjobs EXCEPT ![c] = q]
     /\ cthreads' = [cthreads EXCEPT ![c] = n]
     /\ UNCHANGED <<persistentJob, lastJobId, granted>>

(* AddWorker's loop test, with q jobs queued and n threads not persistent. *)
(* Beyond q + 1 the test no longer depends on n, which is counted no       *)
(* further: a worker that starts and times out at once repeats the loop.   *)
AddWorker(c, j, q, n) ==
  IF n = 0 \/ q \div n >= JobsPerThread \/ totalThreads = busyThreads
    THEN CreateWorker(c, j, q, n)
    ELSE AddDone(c, j)

Queued == Len(jobQ["high"]) + Len(jobQ["med"]) + Len(jobQ["low"])

NewJob(op) == [call |-> calls + 1, id |-> lastJobId, op |-> op]

-----------------------------------------------------------------------------
AddPersistent(c) ==
  /\ "persistent" \in Ops[c]
  /\ client[c] = "out" /\ calls < MaxCalls
  /\ calls' = calls + 1
  /\ IF totalThreads < MaxThreads
       THEN CreateWorker(c, NewJob("persistent"), 0, 0)
       ELSE IF totalThreads - persistentThreads - 1 = 0
         THEN (* EMAXTHREADS *)
              UNCHANGED <<client, cjob, cjobs, cthreads, asleep, worker, persistentJob,
                          lastJobId, granted, pendingWorkerThreadStart>>
         ELSE PutPersistent(c, NewJob("persistent"))
  /\ UNCHANGED <<totalThreads, busyThreads, persistentThreads, jobQ, wjob, wpersist, started>>

Add(c, op) ==
  /\ op \in Ops[c]
  /\ client[c] = "out" /\ calls < MaxCalls
  /\ calls' = calls + 1
  /\ IF Queued >= MaxJobs
       THEN (* EOUTOFMEM *)
            UNCHANGED <<client, cjob, cjobs, cthreads, asleep, worker, persistentJob, jobQ,
                        lastJobId, granted, pendingWorkerThreadStart>>
       ELSE /\ jobQ' = [jobQ EXCEPT ![op] = Append(@, NewJob(op))]
            /\ AddWorker(c, NewJob(op), Queued + 1, totalThreads - persistentThreads)
  /\ UNCHANGED <<totalThreads, busyThreads, persistentThreads, wjob, wpersist, started>>

(* A client woken while it waits for someone else's worker to start.       *)
ResumePending(c) ==
  /\ client[c] = "cw_pending" /\ c \notin asleep
  /\ CreateWorker(c, cjob[c], cjobs[c], cthreads[c])
  /\ UNCHANGED <<totalThreads, busyThreads, persistentThreads, jobQ, wjob, wpersist, calls, started>>

(* A client woken while it waits for its own worker to start.              *)
ResumeStart(c) ==
  /\ client[c] = "cw_start" /\ c \notin asleep
  /\ IF pendingWorkerThreadStart = 1
       THEN /\ asleep' = asleep \cup {c}
            /\ UNCHANGED <<client, cjob, cjobs, cthreads, worker, persistentJob, lastJobId, granted,
                           pendingWorkerThreadStart>>
       ELSE IF cjob[c].op = "persistent"
         THEN PutPersistent(c, cjob[c])
         ELSE AddWorker(c, cjob[c], cjobs[c],
                        IF cthreads[c] > cjobs[c] THEN cthreads[c] ELSE cthreads[c] + 1)
  /\ UNCHANGED <<totalThreads, busyThreads, persistentThreads, jobQ, wjob, wpersist, calls, started>>

(* Mutant of ResumePersistent: an if where the code has a while.           *)
ResumePersistentOnce(c) ==
  /\ client[c] = "ap_wait" /\ c \notin asleep
  /\ lastJobId' = lastJobId + 1
  /\ granted' = granted \cup {cjob[c].call}
  /\ client' = [client EXCEPT ![c] = "out"]
  /\ cjob' = [cjob EXCEPT ![c] = NoJob]
  /\ UNCHANGED <<asleep, countVars, workVars, cjobs, cthreads, calls, persistentJob, jobQ, started>>

(* A client woken while it waits for the slot to be emptied.               *)
ResumePersistent(c) ==
  /\ client[c] = "ap_wait" /\ c \notin asleep
  /\ IF persistentJob # NoJob
       THEN /\ asleep' = asleep \cup {c}
            /\ UNCHANGED <<client, cjob, lastJobId, granted>>
       ELSE /\ lastJobId' = lastJobId + 1
            /\ granted' = granted \cup {cjob[c].call}
            /\ client' = [client EXCEPT ![c] = "out"]
            /\ cjob' = [cjob EXCEPT ![c] = NoJob]
            /\ UNCHANGED asleep
  /\ UNCHANGED <<countVars, workVars, cjobs, cthreads, calls, persistentJob, jobQ, started>>

(* The wait on start_and_shutdown ends spuriously.                         *)
ClientWakeup(c) ==
  /\ c \in asleep
  /\ asleep' = asleep \ {c}
  /\ UNCHANGED <<countVars, workVars, client, cjob, cjobs, cthreads, calls, persistentJob, jobQ,
                 lastJobId, started, granted>>

-----------------------------------------------------------------------------
(* WorkerThread.                                                           *)

WorkerStart(w) ==
  /\ worker[w] = "starting"
  /\ worker' = [worker EXCEPT ![w] = "top"]
  /\ totalThreads' = totalThreads + 1
  /\ pendingWorkerThreadStart' = 0
  /\ asleep' = {}
  /\ UNCHANGED <<busyThreads, persistentThreads, wjob, wpersist, client, cjob, cjobs, cthreads, calls,
                 persistentJob, jobQ, lastJobId, started, granted>>

NoWork == persistentJob = NoJob /\ \A p \in Priorities : jobQ[p] = <<>>

WorkerExit(w) ==
  /\ worker' = [worker EXCEPT ![w] = "none"]
  /\ totalThreads' = totalThreads - 1
  /\ asleep' = {}
  /\ wjob' = [wjob EXCEPT ![w] = NoJob]
  /\ wpersist' = [wpersist EXCEPT ![w] = -1]
  /\ UNCHANGED <<persistentJob, jobQ, started>>

WorkerWait(w) ==
  /\ worker' = [worker EXCEPT ![w] = "idle"]
  /\ wjob' = [wjob EXCEPT ![w] = NoJob]
  /\ UNCHANGED <<totalThreads, asleep, wpersist, persistentJob, jobQ, started>>

(* BumpPriority moves starved heads one queue up: i low heads to med, then *)
(* j med heads to high.  How many depends on the clock.                    *)
Bump(i, j) ==
  LET med == jobQ["med"] \o SubSeq(jobQ["low"], 1, i)
  IN  [high |-> jobQ["high"] \o SubSeq(med, 1, j),
       med  |-> SubSeq(med, j + 1, Len(med)),
       low  |-> SubSeq(jobQ["low"], i + 1, Len(jobQ["low"]))]

Bumped ==
  {Bump(b[1], b[2]) : b \in {d \in (0..Len(jobQ["low"])) \X (0..Queued) :
                               d[2] <= Len(jobQ["med"]) + d[1]}}

(* Mutant of PickPersistent: the caller is not told.                       *)
PickPersistentSilent(w) ==
  /\ wjob' = [wjob EXCEPT ![w] = persistentJob]
  /\ started' = started \cup {persistentJob.call}
  /\ persistentJob' = NoJob
  /\ wpersist' = [wpersist EXCEPT ![w] = 1]
  /\ worker' = [worker EXCEPT ![w] = "run"]
  /\ jobQ' \in Bumped
  /\ UNCHANGED <<asleep, totalThreads>>

PickPersistent(w) ==
  /\ wjob' = [wjob EXCEPT ![w] = persistentJob]
  /\ started' = started \cup {persistentJob.call}
  /\ persistentJob' = NoJob
  /\ wpersist' = [wpersist EXCEPT ![w] = 1]
  /\ worker' = [worker EXCEPT ![w] = "run"]
  /\ asleep' = {}
  /\ jobQ' \in Bumped
  /\ UNCHANGED totalThreads

(* The highest priority that has a job.                                    *)
Top(q) ==
  IF q["high"] # <<>> THEN "high" ELSE IF q["med"] # <<>> THEN "med" ELSE "low"

PickQueued(w) ==
  /\ \E q \in Bumped :
       /\ wjob' = [wjob EXCEPT ![w] = Head(q[Top(q)])]
       /\ started' = started \cup {Head(q[Top(q)]).call}
       /\ jobQ' = [p \in Priorities |-> IF p = Top(q) THEN Tail(q[p]) ELSE q[p]]
  /\ wpersist' = [wpersist EXCEPT ![w] = 0]
  /\ worker' = [worker EXCEPT ![w] = "run"]
  /\ UNCHANGED <<totalThreads, asleep, persistentJob>>

(* Mutant of Dispatch: a thread whose wait timed out dies without looking  *)
(* at the queues.                                                          *)
DispatchTimeoutFirst(w, timedOut, busy, persist) ==
  \/ /\ NoWork \/ (timedOut /\ totalThreads > MinThreads)
     /\ IF (timedOut /\ totalThreads > MinThreads) \/ totalThreads > MaxThreads
          THEN WorkerExit(w)
          ELSE WorkerWait(w)
     /\ busyThreads' = busy /\ persistentThreads' = persist
  \/ /\ persistentJob # NoJob
     /\ PickPersistent(w)
     /\ busyThreads' = busy + 1 /\ persistentThreads' = persist + 1
  \/ /\ persistentJob = NoJob /\ ~NoWork
     /\ PickQueued(w)
     /\ busyThreads' = busy + 1 /\ persistentThreads' = persist

(* The inner loop: with nothing to do the thread dies if its wait timed    *)
(* out and there are more than minThreads, or if there are too many;       *)
(* otherwise it waits.  A persistent job goes before the queues.           *)
Dispatch(w, timedOut, busy, persist) ==
  \/ /\ NoWork
     /\ IF (timedOut /\ totalThreads > MinThreads) \/ totalThreads > MaxThreads
          THEN WorkerExit(w)
          ELSE WorkerWait(w)
     /\ busyThreads' = busy /\ persistentThreads' = persist
  \/ /\ persistentJob # NoJob
     /\ PickPersistent(w)
     /\ busyThreads' = busy + 1 /\ persistentThreads' = persist + 1
  \/ /\ persistentJob = NoJob /\ ~NoWork
     /\ PickQueued(w)
     /\ busyThreads' = busy + 1 /\ persistentThreads' = persist

(* Mutant of WorkerTop: a thread without a job counts itself out as well.  *)
WorkerTopUnguarded(w) ==
  /\ worker[w] = "top"
  /\ Dispatch(w, FALSE, busyThreads - 1,
              IF wpersist[w] = 1 THEN persistentThreads - 1 ELSE persistentThreads)
  /\ UNCHANGED <<pendingWorkerThreadStart, client, cjob, cjobs, cthreads, calls, lastJobId, granted>>

(* Mutant of WorkerTop: a thread whose persistent job ended stays counted  *)
(* as persistent.                                                          *)
WorkerTopStaysPersistent(w) ==
  /\ worker[w] = "top"
  /\ Dispatch(w, FALSE, IF wjob[w] # NoJob THEN busyThreads - 1 ELSE busyThreads, persistentThreads)
  /\ UNCHANGED <<pendingWorkerThreadStart, client, cjob, cjobs, cthreads, calls, lastJobId, granted>>

(* The top of the outer loop: account for the job just done, look for the  *)
(* next.                                                                   *)
WorkerTop(w) ==
  /\ worker[w] = "top"
  /\ Dispatch(w, FALSE,
              IF wjob[w] # NoJob THEN busyThreads - 1 ELSE busyThreads,
              IF wpersist[w] = 1 THEN persistentThreads - 1 ELSE persistentThreads)
  /\ UNCHANGED <<pendingWorkerThreadStart, client, cjob, cjobs, cthreads, calls, lastJobId, granted>>

(* The wait on condition ends by itself: after maxIdleTime or spuriously.   *)
WorkerTimeout(w) ==
  /\ worker[w] = "idle"
  /\ \/ /\ IdleIsLong => Starting = {} /\ \A c \in Clients : client[c] = "out" \/ c \in asleep
        /\ worker' = [worker EXCEPT ![w] = "timedout"]
     \/ worker' = [worker EXCEPT ![w] = "awake"]
  /\ UNCHANGED <<countVars, wjob, wpersist, callVars, persistentJob, jobQ, lastJobId, started, granted>>

WorkerResume(w) ==
  /\ worker[w] \in {"awake", "timedout"}
  /\ Dispatch(w, worker[w] = "timedout", busyThreads, persistentThreads)
  /\ UNCHANGED <<pendingWorkerThreadStart, client, cjob, cjobs, cthreads, calls, lastJobId, granted>>

(* job->func returns.                                                      *)
JobReturns(w) ==
  /\ worker[w] = "run"
  /\ worker' = [worker EXCEPT ![w] = "top"]
  /\ UNCHANGED <<countVars, wjob, wpersist, callVars, persistentJob, jobQ, lastJobId, started, granted>>

-----------------------------------------------------------------------------
ClientStep(c) ==
  \/ AddPersistent(c) \/ \E op \in Priorities : Add(c, op)
  \/ ResumePending(c) \/ ResumeStart(c) \/ ResumePersistent(c) \/ ClientWakeup(c)

WorkerStep(w) ==
  \/ WorkerStart(w) \/ WorkerTop(w) \/ WorkerTimeout(w) \/ WorkerResume(w) \/ JobReturns(w)

Next == (\E c \in Clients : ClientStep(c)) \/ (\E w \in Workers : WorkerStep(w))

Spec == Init /\ [][Next]_vars

(* The kernel runs every thread that is not blocked, a timed wait ends, and*)
(* a short-term job returns.  A persistent job owes nothing.               *)
Fairness ==
  /\ \A c \in Clients :
       WF_vars(ResumePending(c) \/ ResumeStart(c) \/ ResumePersistent(c))
  /\ \A w \in Workers :
       /\ WF_vars(WorkerStart(w) \/ WorkerTop(w) \/ WorkerTimeout(w) \/ WorkerResume(w))
       /\ WF_vars(wpersist[w] = 0 /\ JobReturns(w))

FairSpec == Spec /\ Fairness

-----------------------------------------------------------------------------
(* ThreadPool.h: "ThreadPool will never have more than this number of      *)
(* threads", a thread on its way up included, and never fewer than         *)
(* minThreads; totalThreads and pendingWorkerThreadStart count the threads *)
(* exactly although CreateWorker gives up the mutex while it waits.        *)
ThreadBounds ==
  /\ totalThreads = Cardinality(Alive)
  /\ pendingWorkerThreadStart = Cardinality(Starting)
  /\ totalThreads + pendingWorkerThreadStart <= MaxThreads
  /\ totalThreads >= MinThreads

(* busyThreads and persistentThreads, on which AddWorker and the thread    *)
(* limit of AddPersistent decide, count the threads that run a job.        *)
BusyExact ==
  /\ busyThreads = Cardinality(Busy)
  /\ persistentThreads = Cardinality(Persistent)

QueuedCalls == UNION {{jobQ[p][i].call : i \in DOMAIN jobQ[p]} : p \in Priorities}

(* A job handed to a thread is in no queue, not in the slot, and on one    *)
(* thread only: BumpPriority and the pickup never duplicate a job.         *)
RunsOnce ==
  /\ started \cap (QueuedCalls \cup {persistentJob.call}) = {}
  /\ \A v, w \in Busy : wjob[v].call = wjob[w].call => v = w
  /\ \A p, q \in Priorities : \A i \in DOMAIN jobQ[p], k \in DOMAIN jobQ[q] :
       jobQ[p][i].call = jobQ[q][k].call => p = q /\ i = k

(* ThreadPool.h: a call that returns 0 has its job run: it was handed to a *)
(* thread or still is in a queue.                                          *)
NoJobLost == granted \subseteq started \cup QueuedCalls

(* Every thread the pool may have runs a persistent job.                   *)
Saturated == totalThreads = MaxThreads /\ persistentThreads = totalThreads

(* Every call returns, unless persistent jobs hold all the threads.        *)
CallReturns ==
  \A c \in Clients : (client[c] # "out") ~> (client[c] = "out" \/ Saturated)

(* Every queued job is started, unless persistent jobs hold all threads:   *)
(* one signal per Add, the re-check of the queues at the top of the loop   *)
(* and the timed wait leave no job behind.                                 *)
QueuedStarts ==
  \A n \in 1..MaxCalls : (n \in QueuedCalls) ~> (n \in started \/ Saturated)

=============================================================================
