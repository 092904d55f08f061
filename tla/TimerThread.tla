---------------------------- MODULE TimerThread ----------------------------
(***************************************************************************)
(* The timer of common/threadpool/TimerThread.c: callers schedule, remove  *)
(* and shut down; one persistent job of the thread pool, TimerThreadWorker,*)
(* hands events to the pool when their time has come.                      *)
(*                                                                         *)
(* timer->mutex makes each call one step, except that the time is computed *)
(* before it is locked, and that the worker keeps it while it waits in     *)
(* ThreadPoolAddPersistent for a thread to take the job.  The pool is what *)
(* the timer sees of it: a queue, the persistent slot, and threads, some   *)
(* of whose jobs use the timer themselves.  All jobs have a free_func and  *)
(* an argument.                                                            *)
(***************************************************************************)
EXTENDS Integers, Sequences, FiniteSets, SequencesExt

CONSTANTS
  Clients,       (* threads that call the timer                              *)
  Threads,       (* threads of the pool beside the timer's own               *)
  JobKinds,      (* the jobs clients schedule: whether persistent, and       *)
                 (* whether they use the timer themselves                    *)
  MaxEvents,     (* bound: events scheduled                                  *)
  MaxClock       (* bound on the clock, in seconds                           *)

ASSUME TimerAssumption ==
  /\ MaxEvents \in Nat /\ MaxClock \in Nat
  /\ JobKinds \subseteq [persistent : BOOLEAN, calls : BOOLEAN]

Forever == -1
NoCall == -1

VARIABLES
  clock,         (* time(NULL)                                               *)
  ev,            (* the events scheduled, the n-th one with id n - 1         *)
  eventQ,        (* timer->eventQ                                            *)
  shutdown,      (* timer->shutdown                                          *)
  mutex,         (* who keeps timer->mutex over a step: "worker" or "free"   *)
  wpc,           (* where the worker is                                      *)
  until,         (* how long it waits                                        *)
  client,        (* timeout of a client's TimerThreadSchedule before it locks*)
  closer,        (* progress of TimerThreadShutdown                          *)
  poolQ, slot,   (* the pool's queue and its persistentJob, 0 if none        *)
  thread,        (* event each thread of the pool runs, 0 if idle            *)
  started, removed, freed    (* events run, removed, given to free_func      *)

workVars == <<mutex, wpc, until>>
poolVars == <<poolQ, slot, thread, started>>
vars == <<clock, ev, eventQ, shutdown, workVars, client, closer, poolVars,
          removed, freed>>

(* An event: its time, what its job is like, and whether it was queued.    *)
Events == [time: 0..MaxClock, persistent: BOOLEAN, calls: BOOLEAN, ok: BOOLEAN]
Ids == 1..Len(ev)
InQueue == {eventQ[i] : i \in 1..Len(eventQ)}
InPool == {poolQ[i] : i \in 1..Len(poolQ)} \cup ({slot} \ {0})

TypeOK ==
  /\ clock \in 0..MaxClock
  /\ ev \in Seq(Events) /\ Len(ev) <= MaxEvents
  /\ eventQ \in Seq(Ids) /\ poolQ \in Seq(Ids) /\ slot \in Ids \cup {0}
  /\ shutdown \in {0, 1} /\ mutex \in {"free", "worker"}
  /\ wpc \in {"awake", "run", "adding", "wait", "exit"}
  /\ until \in 0..MaxClock \cup {Forever}
  /\ client \in [Clients -> 0..MaxClock \cup {NoCall}]
  /\ closer \in {"no", "wait", "awake", "done"}
  /\ thread \in [Threads -> Ids \cup {0}]
  /\ started \subseteq Ids /\ removed \subseteq Ids /\ freed \subseteq Ids

(* TimerThreadInit; the worker has been taken up by the pool.              *)
Init ==
  /\ clock = 0 /\ ev = <<>> /\ eventQ = <<>> /\ shutdown = 0
  /\ mutex = "free" /\ wpc = "awake" /\ until = Forever
  /\ client = [c \in Clients |-> NoCall] /\ closer = "no"
  /\ poolQ = <<>> /\ slot = 0 /\ thread = [t \in Threads |-> 0]
  /\ started = {} /\ removed = {} /\ freed = {}

Tick ==
  /\ clock < MaxClock
  /\ clock' = clock + 1
  /\ UNCHANGED <<ev, eventQ, shutdown, workVars, client, closer, poolVars,
                 removed, freed>>

-----------------------------------------------------------------------------
(* The calls.  After TimerThreadShutdown has returned there are no more.   *)

(* ithread_cond_signal: the worker waits on the condition, or the closer.  *)
SignalCondition ==
  IF wpc = "wait" THEN wpc' = "awake" /\ UNCHANGED closer
  ELSE IF closer = "wait" THEN closer' = "awake" /\ UNCHANGED wpc
  ELSE UNCHANGED <<wpc, closer>>

(* CalculateEventTime, before the mutex is locked.                         *)
CalculateEventTime(c, timeout) ==
  /\ client[c] = NoCall /\ Len(ev) < MaxEvents
  /\ timeout <= MaxClock
  /\ client' = [client EXCEPT ![c] = timeout]
  /\ UNCHANGED <<clock, ev, eventQ, shutdown, workVars, closer, poolVars,
                 removed, freed>>

(* The event goes in front of the first one that is not earlier.           *)
InsertBefore(id, time) ==
  \E k \in 1..Len(eventQ) + 1 :
    /\ \A j \in 1..k - 1 : ev[eventQ[j]].time < time
    /\ k <= Len(eventQ) => ev[eventQ[k]].time >= time
    /\ eventQ' = InsertAt(eventQ, k, id)

(* Mutant of Enqueue: the condition is not signalled.                      *)
EnqueueSilent(time, persistent, calls) ==
  /\ ev' = Append(ev, [time |-> time, persistent |-> persistent,
                       calls |-> calls, ok |-> TRUE])
  /\ InsertBefore(Len(ev) + 1, time)
  /\ UNCHANGED <<wpc, closer>>

(* The locked part of TimerThreadSchedule.                                 *)
Enqueue(time, persistent, calls) ==
  /\ ev' = Append(ev, [time |-> time, persistent |-> persistent,
                       calls |-> calls, ok |-> TRUE])
  /\ InsertBefore(Len(ev) + 1, time)
  /\ SignalCondition

TimerThreadSchedule(c, persistent, calls) ==
  /\ client[c] # NoCall /\ mutex = "free" /\ closer # "done"
  /\ Len(ev) < MaxEvents
  /\ Enqueue(client[c], persistent, calls)
  /\ client' = [client EXCEPT ![c] = NoCall]
  /\ UNCHANGED <<clock, shutdown, mutex, until, poolVars, removed, freed>>

(* The event cannot be allocated, or (id used up) its list node cannot.    *)
ScheduleFails(c) ==
  /\ client[c] # NoCall /\ mutex = "free" /\ closer # "done"
  /\ \/ UNCHANGED ev
     \/ /\ Len(ev) < MaxEvents
        /\ ev' = Append(ev, [time |-> client[c], persistent |-> FALSE,
                             calls |-> FALSE, ok |-> FALSE])
  /\ client' = [client EXCEPT ![c] = NoCall]
  /\ UNCHANGED <<clock, eventQ, shutdown, workVars, closer, poolVars, removed,
                 freed>>

(* TimerThreadRemove of an event that is still in the queue.               *)
TimerThreadRemove(id) ==
  /\ mutex = "free" /\ closer # "done"
  /\ \E k \in 1..Len(eventQ) :
       /\ eventQ[k] = id /\ \A j \in 1..k - 1 : eventQ[j] # id
       /\ eventQ' = RemoveAt(eventQ, k)
  /\ removed' = removed \cup {id}
  /\ UNCHANGED <<clock, ev, shutdown, workVars, client, closer, poolVars, freed>>

(* Mutant of TimerThreadShutdown: the worker is not woken.                 *)
TimerThreadShutdownSilent ==
  /\ closer = "no" /\ mutex = "free"
  /\ shutdown' = 1
  /\ freed' = freed \cup InQueue
  /\ eventQ' = <<>>
  /\ closer' = "wait"
  /\ UNCHANGED <<clock, ev, workVars, client, poolVars, removed>>

(* TimerThreadShutdown up to its wait.                                     *)
TimerThreadShutdown ==
  /\ closer = "no" /\ mutex = "free"
  /\ shutdown' = 1
  /\ freed' = freed \cup InQueue
  /\ eventQ' = <<>>
  /\ wpc' = IF wpc = "wait" THEN "awake" ELSE wpc
  /\ closer' = "wait"
  /\ UNCHANGED <<clock, ev, mutex, until, client, poolVars, removed>>

(* Woken, it waits again or destroys the condition and the mutex.          *)
ShutdownWoken ==
  /\ closer = "awake" /\ mutex = "free"
  /\ closer' = IF shutdown = 1 THEN "wait" ELSE "done"
  /\ UNCHANGED <<clock, ev, eventQ, shutdown, workVars, client, poolVars,
                 removed, freed>>

-----------------------------------------------------------------------------
(* TimerThreadWorker.                                                      *)

WorkerLock ==
  /\ wpc = "awake" /\ mutex = "free"
  /\ wpc' = "run" /\ mutex' = "worker"
  /\ UNCHANGED <<clock, ev, eventQ, shutdown, until, client, closer, poolVars,
                 removed, freed>>

WorkerExit ==
  /\ wpc = "run" /\ shutdown = 1
  /\ shutdown' = 0 /\ mutex' = "free" /\ wpc' = "exit"
  /\ closer' = IF closer = "wait" THEN "awake" ELSE closer
  /\ UNCHANGED <<clock, ev, eventQ, until, client, poolVars, removed, freed>>

Due == eventQ # <<>> /\ clock >= ev[Head(eventQ)].time

(* ThreadPoolAdd.                                                          *)
WorkerAdds ==
  /\ wpc = "run" /\ shutdown = 0 /\ Due /\ ~ev[Head(eventQ)].persistent
  /\ poolQ' = Append(poolQ, Head(eventQ))
  /\ eventQ' = Tail(eventQ)
  /\ UNCHANGED <<clock, ev, shutdown, workVars, client, closer, slot, thread,
                 started, removed, freed>>

(* Mutant of Accepts: without the test that keeps the last thread free.    *)
AcceptsAlways == TRUE

(* ThreadPoolAddPersistent goes on when it can make a thread, or when the  *)
(* threads without a persistent job are not just one.                      *)
Accepts ==
  \/ \E t \in Threads : thread[t] = 0
  \/ Cardinality({t \in Threads : thread[t] # 0 /\ ev[thread[t]].persistent})
       # Cardinality(Threads) - 1

(* Mutant of WorkerAddsPersistent: the mutex is unlocked around the call.  *)
WorkerAddsUnlocked ==
  /\ wpc = "run" /\ shutdown = 0 /\ Due /\ ev[Head(eventQ)].persistent
  /\ Accepts
  /\ slot' = Head(eventQ)
  /\ wpc' = "adding" /\ mutex' = "free"
  /\ UNCHANGED <<clock, ev, eventQ, shutdown, until, client, closer, poolQ,
                 thread, started, removed, freed>>

(* ThreadPoolAddPersistent puts the job into the slot and waits.           *)
WorkerAddsPersistent ==
  /\ wpc = "run" /\ shutdown = 0 /\ Due /\ ev[Head(eventQ)].persistent
  /\ Accepts
  /\ slot' = Head(eventQ)
  /\ wpc' = "adding"
  /\ UNCHANGED <<clock, ev, eventQ, shutdown, mutex, until, client, closer,
                 poolQ, thread, started, removed, freed>>

(* It returns when the slot is empty; the event leaves the queue.          *)
WorkerAdded ==
  /\ wpc = "adding" /\ slot = 0
  /\ eventQ' = Tail(eventQ)
  /\ wpc' = "run"
  /\ UNCHANGED <<clock, ev, shutdown, mutex, until, client, closer, poolVars,
                 removed, freed>>

(* The pool refuses the job: full, out of memory or out of threads.        *)
WorkerRefused ==
  /\ wpc = "run" /\ shutdown = 0 /\ Due
  /\ freed' = freed \cup {Head(eventQ)}
  /\ eventQ' = Tail(eventQ)
  /\ UNCHANGED <<clock, ev, shutdown, workVars, client, closer, poolVars,
                 removed>>

(* Nothing is due: wait for the condition, or for the head's time.         *)
WorkerWaits ==
  /\ wpc = "run" /\ shutdown = 0 /\ ~Due
  /\ until' = IF eventQ = <<>> THEN Forever ELSE ev[Head(eventQ)].time
  /\ wpc' = "wait" /\ mutex' = "free"
  /\ UNCHANGED <<clock, ev, eventQ, shutdown, client, closer, poolVars,
                 removed, freed>>

WorkerTimesOut ==
  /\ wpc = "wait" /\ until # Forever /\ clock >= until
  /\ wpc' = "awake"
  /\ UNCHANGED <<clock, ev, eventQ, shutdown, mutex, until, client, closer,
                 poolVars, removed, freed>>

(* A wakeup for no reason.                                                 *)
SpuriousWakeup ==
  /\ \/ wpc = "wait" /\ wpc' = "awake" /\ UNCHANGED closer
     \/ closer = "wait" /\ closer' = "awake" /\ UNCHANGED wpc
  /\ UNCHANGED <<clock, ev, eventQ, shutdown, mutex, until, client, poolVars,
                 removed, freed>>

Worker == \/ WorkerLock \/ WorkerExit \/ WorkerAdds \/ WorkerAddsPersistent
          \/ WorkerAdded \/ WorkerRefused \/ WorkerWaits \/ WorkerTimesOut

-----------------------------------------------------------------------------
(* The threads of the pool; a persistent job goes first.                   *)
PoolTakes(t) ==
  /\ thread[t] = 0
  /\ \/ /\ slot # 0
        /\ thread' = [thread EXCEPT ![t] = slot]
        /\ slot' = 0 /\ UNCHANGED poolQ
     \/ /\ slot = 0 /\ poolQ # <<>>
        /\ thread' = [thread EXCEPT ![t] = Head(poolQ)]
        /\ poolQ' = Tail(poolQ) /\ UNCHANGED slot
  /\ started' = started \cup {thread'[t]}
  /\ UNCHANGED <<clock, ev, eventQ, shutdown, workVars, client, closer, removed,
                 freed>>

(* A job returns.  One that uses the timer has to lock the mutex before.   *)
JobReturns(t) ==
  /\ thread[t] # 0
  /\ ~ev[thread[t]].calls
  /\ thread' = [thread EXCEPT ![t] = 0]
  /\ UNCHANGED <<clock, ev, eventQ, shutdown, workVars, client, closer, poolQ,
                 slot, started, removed, freed>>

(* Such a job schedules an event, relative to the present time.            *)
JobSchedules(t, delay) ==
  /\ thread[t] # 0 /\ ev[thread[t]].calls
  /\ mutex = "free"
  /\ thread' = [thread EXCEPT ![t] = 0]
  /\ IF Len(ev) < MaxEvents /\ clock + delay <= MaxClock /\ closer # "done"
       THEN Enqueue(clock + delay, FALSE, FALSE)
       ELSE UNCHANGED <<ev, eventQ, wpc, closer>>
  /\ UNCHANGED <<clock, shutdown, mutex, until, client, poolQ, slot, started,
                 removed, freed>>

PoolThread(t) ==
  PoolTakes(t) \/ JobReturns(t) \/ \E delay \in 0..1 : JobSchedules(t, delay)

Next ==
  \/ Tick \/ Worker \/ SpuriousWakeup
  \/ \E c \in Clients :
       \/ \E timeout \in {clock + d : d \in 0..MaxClock} \cup {0} :
            CalculateEventTime(c, timeout)
       \/ \E kind \in JobKinds :
            TimerThreadSchedule(c, kind.persistent, kind.calls)
       \/ ScheduleFails(c)
  \/ \E id \in InQueue : TimerThreadRemove(id)
  \/ TimerThreadShutdown \/ ShutdownWoken
  \/ \E t \in Threads : PoolThread(t)

Spec == Init /\ [][Next]_vars

(* A job that is not persistent is short and comes to its end.             *)
ShortJobEnds(t) ==
  /\ thread[t] # 0 /\ ~ev[thread[t]].persistent
  /\ JobReturns(t) \/ \E delay \in 0..1 : JobSchedules(t, delay)

(* Time passes, and the kernel runs every thread.  The worker gets the     *)
(* mutex, for all other calls hold it for a single step.  A persistent job *)
(* need not return.                                                        *)
FairSpec ==
  /\ Spec
  /\ WF_vars(Tick) /\ WF_vars(Worker) /\ WF_vars(ShutdownWoken)
  /\ \A t \in Threads : WF_vars(PoolTakes(t)) /\ WF_vars(ShortJobEnds(t))

-----------------------------------------------------------------------------
(* TimerThreadWorker never sleeps beyond the time of the head, and never   *)
(* without limit while there is an event.                                  *)
NeverOversleeps ==
  wpc = "wait" /\ eventQ # <<>> =>
    until # Forever /\ until <= ev[Head(eventQ)].time

(* An event that was queued waits or meets one fate: handed to the pool,   *)
(* removed, or freed.  What was removed never runs, TimerThread.h: "Events *)
(* can only be removed before they have been placed in the thread pool".   *)
OneFate ==
  /\ {n \in Ids : ev[n].ok}
       = InQueue \cup InPool \cup started \cup removed \cup freed
  /\ removed \cap freed = {}
  /\ (started \cup InPool) \cap (removed \cup freed) = {}
  /\ started \cap InPool = {}
  /\ InQueue \cap (removed \cup freed) = {}
  /\ wpc # "adding" => InQueue \cap (started \cup InPool) = {}

(* The worker waits, with the mutex, for a thread to take its persistent   *)
(* job, and none can: they run jobs that are persistent or wait for that   *)
(* mutex.  The test of ThreadPoolAddPersistent lets this happen only when  *)
(* all jobs are persistent, or two or more are not.                        *)
PoolBlocked ==
  /\ wpc = "adding" /\ slot # 0
  /\ \A t \in Threads :
       thread[t] # 0 /\ (ev[thread[t]].persistent \/ ev[thread[t]].calls)
  /\ Cardinality({t \in Threads : ~ev[thread[t]].persistent}) # 1

(* A due event leaves the queue, unless timer and pool stay blocked in     *)
(* TimerThreadWorker's call of ThreadPoolAddPersistent.                    *)
DueHandedOn ==
  []<>~PoolBlocked =>
    \A n \in 1..MaxEvents :
      (n \in InQueue /\ ev[n].time <= clock) ~> (n \notin InQueue \/ closer # "no")

(* TimerThreadShutdown returns once it has the mutex.                      *)
ShutdownReturns == closer = "wait" ~> closer = "done"

=============================================================================
