---------------------------- MODULE StreamStart ----------------------------
(***************************************************************************)
(* From a session's first packet to its RTMP connection: the URL query of  *)
(* UrlQuery, whose answer starts the publisher of RtmpPublisher inside the *)
(* HTTP thread's callback.  A session has one query and one publisher; all *)
(* publishers share the pool's threads, and all queries the HTTP thread,   *)
(* which waits inside its callback until the pool takes the publisher.     *)
(***************************************************************************)
EXTENDS UrlQuery, RtmpPublisher

(* A session has one query and one publisher.                              *)
ASSUME SessionAssumption == Nodes = Queries

startVars == <<vars, pubVars>>

StartInit == Init /\ PubInit

(* Mutant of PushStart: url_query_callback does not look at msg.           *)
PushStartAnyway(q) ==
  IF calls'[q] # calls[q] THEN Start(q) ELSE UNCHANGED pubVars

(* url_query_callback and rtmp_push_start: an answer with NODE_SUCCESS     *)
(* starts the publisher, every other step leaves it alone.                 *)
PushStart(q) ==
  IF outcome'[q] = "ok" /\ calls'[q] # calls[q]
    THEN Start(q) ELSE UNCHANGED pubVars

(* The HTTP thread is not waiting in ThreadPoolAddPersistent.              *)
HttpFree == \A q \in Queries : pc[q] # "slot"

Http(q) == HttpFree /\ HttpStep(q) /\ PushStart(q)
Caller(q) == CallerStep(q) /\ UNCHANGED pubVars
Publisher(q) == PubStep(q) /\ UNCHANGED vars

StartNext ==
  \/ HbaseStarts /\ UNCHANGED pubVars
  \/ \E q \in Queries : Caller(q) \/ Http(q) \/ Publisher(q)

StartSpec == StartInit /\ [][StartNext]_startVars

(* Every state of an HTTP connection has a timer behind it (the retry      *)
(* timer, or the 21 seconds of evhttp_connection_set_timeout), so its      *)
(* query moves on while the HTTP thread is free; a free pool thread takes  *)
(* the job in the slot; a publisher's thread runs and librtmp's blocking   *)
(* calls return; a closer that cleared cond makes its broadcast.  Nothing  *)
(* makes a session end, or wakes a publisher that waits.                   *)
StartFair ==
  /\ StartSpec
  /\ \A q \in Queries : /\ WF_startVars(Http(q))
                        /\ WF_startVars(TakeUp(q) /\ UNCHANGED vars)
                        /\ WF_startVars(Broadcast(q) /\ UNCHANGED vars)
                        /\ WF_startVars(ThreadStep(q) /\ UNCHANGED vars)

-----------------------------------------------------------------------------
(* Whatever order answers, refusals and closes come in, packets go out and *)
(* sockets are open only for sessions whose query named an H.264 channel.  *)
SendsOnlyH264 ==
  \A q \in Queries :
    sent[q] \/ q \in sockets => reply[q].property = "h264" /\ calls[q] = 1

(* A publisher waits in the slot for a thread, and the HTTP thread with    *)
(* it, while publishers hold all of the pool's threads.                    *)
PoolFull ==
  /\ \E q \in Queries : pc[q] = "slot"
  /\ Cardinality(Running) >= PoolThreads

(* A query under way leads to a publisher that has tried to connect, or    *)
(* the query failed, or the pool refused the publisher, unless the HTTP    *)
(* thread stays for ever in ThreadPoolAddPersistent on a full pool.        *)
QueryLeadsToPublisher ==
  []<>~PoolFull =>
    \A q \in Queries :
      outcome[q] = "pending" ~>
        \/ outcome[q] = "failed"
        \/ /\ outcome[q] = "ok"
           /\ pc[q] \notin {"slot", "create", "setup", "connect", "stream"}
=============================================================================
