--------------------------- MODULE StreamSession ---------------------------
(***************************************************************************)
(* One JT/T-1078 streaming session of the server: the node made by         *)
(* bll_h264_create (bll/bll_h264_stream.c), its socket's bufferevent, its   *)
(* NALU list, and the RTMP publisher node (mw/publish/rtmp_publish.c) that  *)
(* drains the list.                                                        *)
(*                                                                         *)
(* Three threads run the session's code:                                   *)
(*   "stream"  the stream server's event loop: the bufferevent callbacks;  *)
(*   "hbase"   the HTTP event loop: the answer of the URL query;           *)
(*   "pub"     the pool thread that runs rtmp_publish_thread.              *)
(* There is no lock but list_mutex, so a step is one access to the shared  *)
(* fields (or one critical section of list_mutex).  A step of a thread     *)
(* that touches a freed node is UseFreed: the fault is recorded and the    *)
(* thread stops.                                                           *)
(***************************************************************************)
EXTENDS Integers, Sequences

CONSTANTS
  MaxPackets,    (* bound: JT1078 packets the peer sends                     *)
  MaxNalus       (* bound: RTMP packages one video packet yields             *)

ASSUME BoundsAssumption == MaxPackets \in Nat /\ MaxNalus \in Nat

VARIABLES
  node,          (* the session's memory: "live" or "freed"                  *)
  pub,           (* the publisher node: "none", "live" or "freed"            *)
  cond,          (* PrivInfo.cond of the session: 1 until closing            *)
  running,       (* PrivInfo.running: 1 inside stream_input_handler          *)
  publish,       (* PrivInfo.publish: 1 when not NULL                        *)
  pcond,         (* PrivInfo.cond of the publisher                           *)
  connected,     (* pub.connected of the publisher                           *)
  sim,           (* 1 once the first packet gave PrivInfo.sim a value        *)
  query,         (* the URL query: "none", "pending", "lost", "answered"     *)
  bev,           (* the bufferevent: "on", "off" (reading disabled), "freed" *)
  input,         (* its input evbuffer: a sequence of packet kinds           *)
  rdPending,     (* readcb_pending of the deferred callback                  *)
  evPending,     (* eventcb_pending of the deferred callback                 *)
  rcvd,          (* packets received so far                                  *)
  batch,         (* stream_input_handler's len, in packets                   *)
  todo,          (* packages the current packet still has to queue           *)
  nalu_list,     (* nalu_head: package numbers in queueing order             *)
  list_size,     (* PrivInfo.list_size                                       *)
  added,         (* number of the last package queued                        *)
  popped,        (* number of the last package list_del_nalu returned        *)
  lastSent,      (* number of the last package given to RTMP_SendPacket      *)
  decs,          (* calls of handle_message_callback (client_cnt--)          *)
  fault,         (* 1 once a thread touched freed memory                     *)
  pc             (* where each thread is                                     *)

heapVars  == <<node, pub, fault>>
flagVars  == <<cond, running, publish, pcond, connected, decs>>
queryVars == <<sim, query>>
bevVars   == <<bev, input, rdPending, evPending, rcvd>>
localVars == <<batch, todo>>
listVars  == <<nalu_list, list_size, added, popped, lastSent>>
vars == <<heapVars, flagVars, queryVars, bevVars, localVars, listVars, pc>>

Threads == {"stream", "hbase", "pub"}

Kinds == {"video", "other", "bad"}

(* Labels of the closing code, which every thread may run.                 *)
CloseLabels == {"cc_cond", "cc_wait", "br", "pe_get", "pe_set", "pe_null",
                "pe_bcast"}
ReleaseLabels == {"rl_cb", "rl_bev", "rl_clear", "rl_delete"}

(* Labels whose step reads or writes the session node, and the publisher.  *)
NodeUse == {"rd_check", "rd_enter", "rd_proc", "rd_add", "rd_exit", "ev_cond",
            "ps_create", "ps_attach", "del_lock", "del_wait", "woken"}
           \cup (CloseLabels \ {"pe_set"}) \cup ReleaseLabels
PubUse  == {"ps_id", "connect", "main", "send", "exit", "pe_set"}

Labels == NodeUse \cup PubUse
          \cup {"idle", "ps_start", "off", "waiting", "done", "dead"}

TypeOK ==
  /\ node \in {"live", "freed"} /\ pub \in {"none", "live", "freed"}
  /\ cond \in 0..1 /\ running \in 0..1 /\ publish \in 0..1
  /\ pcond \in 0..1 /\ connected \in 0..1 /\ sim \in 0..1
  /\ query \in {"none", "pending", "lost", "answered"}
  /\ bev \in {"on", "off", "freed"}
  /\ input \in Seq(Kinds)
  /\ rdPending \in 0..1 /\ evPending \in 0..1
  /\ rcvd \in 0..MaxPackets /\ batch \in Int /\ todo \in 0..MaxNalus
  /\ nalu_list \in Seq(Nat) /\ list_size \in Int
  /\ added \in Nat /\ popped \in Nat /\ lastSent \in Nat
  /\ decs \in Nat /\ fault \in 0..1
  /\ pc \in [Threads -> Labels]

(* bll_h264_create, then bll_h264_start: cond is 1, the rest zero, the     *)
(* bufferevent registered and reading.                                     *)
Init ==
  /\ node = "live" /\ pub = "none" /\ fault = 0
  /\ cond = 1 /\ running = 0 /\ publish = 0
  /\ pcond = 0 /\ connected = 0 /\ decs = 0
  /\ sim = 0 /\ query = "none"
  /\ bev = "on" /\ input = <<>> /\ rdPending = 0 /\ evPending = 0 /\ rcvd = 0
  /\ batch = 0 /\ todo = 0
  /\ nalu_list = <<>> /\ list_size = 0 /\ added = 0 /\ popped = 0 /\ lastSent = 0
  /\ pc = [t \in Threads |-> IF t = "pub" THEN "off" ELSE "idle"]

(* Thread t is at label l and what the step touches is still allocated.    *)
At(t, l) ==
  /\ pc[t] = l
  /\ l \in NodeUse => node = "live"
  /\ l \in PubUse => pub = "live"

Goto(t, l) == pc' = [pc EXCEPT ![t] = l]

(* pthread_cond_broadcast(&cond_empty) by thread t, which goes on to l.    *)
GotoAndWake(t, l) ==
  pc' = [pc EXCEPT ![t] = l,
                   !["pub"] = IF t = "pub" THEN l
                              ELSE IF @ = "waiting" THEN "woken" ELSE @]

(* list_mutex is held across steps only between list_del_nalu's test and   *)
(* pthread_cond_wait, which releases it.                                   *)
MutexFree == pc["pub"] # "del_wait"

(* Any step that dereferences a freed node, or hands the bufferevent that  *)
(* h264_stream_release freed and cleared to client_connection_close.       *)
UseFreed(t) ==
  /\ \/ pc[t] \in NodeUse /\ node = "freed"
     \/ pc[t] = "cc_cond" /\ bev = "freed"
     \/ pc[t] \in PubUse /\ pub = "freed"
  /\ fault' = 1
  /\ Goto(t, "dead")
  /\ UNCHANGED <<node, pub, flagVars, queryVars, bevVars, localVars, listVars>>

-----------------------------------------------------------------------------
(* The event loop of the stream server thread: libevent reads the socket   *)
(* and defers the callbacks.                                               *)

Receive(k) ==
  /\ pc["stream"] = "idle" /\ bev = "on" /\ rcvd < MaxPackets
  /\ input' = Append(input, k)
  /\ rcvd' = rcvd + 1
  /\ rdPending' = 1
  /\ UNCHANGED <<bev, evPending, pc, heapVars, flagVars, queryVars, localVars, listVars>>

(* End of file, a socket error, or 60 s without data.                      *)
PeerClose ==
  /\ pc["stream"] = "idle" /\ bev = "on"
  /\ bev' = "off"
  /\ evPending' = 1
  /\ UNCHANGED <<input, rdPending, rcvd, pc, heapVars, flagVars, queryVars, localVars, listVars>>

ReadCallback ==
  /\ pc["stream"] = "idle" /\ bev # "freed" /\ rdPending = 1
  /\ rdPending' = 0
  /\ Goto("stream", "rd_check")
  /\ UNCHANGED <<bev, input, evPending, rcvd, heapVars, flagVars, queryVars, localVars, listVars>>

EventCallback ==
  /\ pc["stream"] = "idle" /\ bev # "freed" /\ rdPending = 0 /\ evPending = 1
  /\ evPending' = 0
  /\ Goto("stream", "ev_cond")
  /\ UNCHANGED <<bev, input, rdPending, rcvd, heapVars, flagVars, queryVars, localVars, listVars>>

-----------------------------------------------------------------------------
(* stream_input_handler, with media_stream_proc and h264_stream_proc.      *)

RdCheck ==
  /\ At("stream", "rd_check")
  /\ Goto("stream", IF cond = 0 THEN "idle" ELSE "rd_enter")
  /\ UNCHANGED <<heapVars, flagVars, queryVars, bevVars, localVars, listVars>>

RdEnter ==
  /\ At("stream", "rd_enter")
  /\ running' = 1
  /\ batch' = Len(input)
  /\ Goto("stream", "rd_proc")
  /\ UNCHANGED <<cond, publish, pcond, connected, decs, todo, heapVars, queryVars, bevVars, listVars>>

(* packet_jt1078_parse returns 0 on less than one packet (also for a body  *)
(* beyond JT1078_STREAM_PACKAGE_SIZE) and -1 on a bad magic; neither is    *)
(* drained, and the handler stops.                                         *)
RdStop ==
  /\ At("stream", "rd_proc")
  /\ input = <<>> \/ Head(input) = "bad"
  /\ Goto("stream", "rd_exit")
  /\ UNCHANGED <<heapVars, flagVars, queryVars, bevVars, localVars, listVars>>

(* stream_url_query: the request is under way, or was dropped without a    *)
(* callback, which nobody looks at.                                        *)
QueryStarts == {"pending", "lost"}

(* h264_stream_proc: how many packages a packet of kind k puts on the list *)
(* (metadata, key frames and slices; none before the first metadata).      *)
Packages(k) == IF k = "video" THEN 0..MaxNalus ELSE {0}

(* The first packet names the session and starts the URL query.            *)
RdPacket ==
  /\ At("stream", "rd_proc")
  /\ input # <<>> /\ Head(input) # "bad"
  /\ sim' = 1
  /\ IF sim = 0 THEN query' \in QueryStarts ELSE UNCHANGED query
  /\ todo' \in Packages(Head(input))
  /\ Goto("stream", "rd_add")
  /\ UNCHANGED <<batch, heapVars, flagVars, bevVars, listVars>>

(* list_add_nalu: broadcast only when the list was empty.                  *)
ListAddNalu ==
  /\ At("stream", "rd_add") /\ todo > 0 /\ MutexFree
  /\ added' = added + 1
  /\ nalu_list' = Append(nalu_list, added + 1)
  /\ list_size' = list_size + 1
  /\ IF list_size = 0 THEN GotoAndWake("stream", "rd_add") ELSE UNCHANGED pc
  /\ todo' = todo - 1
  /\ UNCHANGED <<popped, lastSent, batch, heapVars, flagVars, queryVars, bevVars>>

(* evbuffer_remove of the packet, then the loop test.                      *)
RdNext ==
  /\ At("stream", "rd_add") /\ todo = 0
  /\ input' = Tail(input)
  /\ batch' = batch - 1
  /\ Goto("stream", IF batch - 1 > 0 /\ cond = 1 THEN "rd_proc" ELSE "rd_exit")
  /\ UNCHANGED <<bev, rdPending, evPending, rcvd, todo, heapVars, flagVars, queryVars, listVars>>

RdExit ==
  /\ At("stream", "rd_exit")
  /\ running' = 0
  /\ Goto("stream", "idle")
  /\ UNCHANGED <<cond, publish, pcond, connected, decs, heapVars, queryVars, bevVars, localVars, listVars>>

-----------------------------------------------------------------------------
(* Closing.  stream_socket_eventcb (thread "stream") clears cond and       *)
(* branches at once; client_connection_close ("hbase" after a failed       *)
(* query, "pub" after a failed send) also waits for running to be 0.       *)

DisableBev == bev' = IF bev = "on" THEN "off" ELSE bev

(* Mutant of EvCond: the session is not marked as closing.                 *)
EvCondUnmarked ==
  /\ At("stream", "ev_cond")
  /\ DisableBev
  /\ Goto("stream", "br")
  /\ UNCHANGED <<flagVars, input, rdPending, evPending, rcvd,
                 heapVars, queryVars, localVars, listVars>>

EvCond ==
  /\ At("stream", "ev_cond")
  /\ DisableBev
  /\ cond' = 0
  /\ Goto("stream", "br")
  /\ UNCHANGED <<running, publish, pcond, connected, decs, input, rdPending, evPending, rcvd,
                 heapVars, queryVars, localVars, listVars>>

CcCond(t) ==
  /\ At(t, "cc_cond") /\ bev # "freed"
  /\ DisableBev
  /\ cond' = 0
  /\ Goto(t, "cc_wait")
  /\ UNCHANGED <<running, publish, pcond, connected, decs, input, rdPending, evPending, rcvd,
                 heapVars, queryVars, localVars, listVars>>

(* Only the failed query closes with immediately = 1.                      *)
CcWait(t) ==
  /\ At(t, "cc_wait")
  /\ running = 0
  /\ Goto(t, IF t = "hbase" THEN "rl_cb" ELSE "br")
  /\ UNCHANGED <<heapVars, flagVars, queryVars, bevVars, localVars, listVars>>

CloseBranch(t) ==
  /\ At(t, "br")
  /\ Goto(t, IF publish = 1 THEN "pe_get" ELSE "rl_cb")
  /\ UNCHANGED <<heapVars, flagVars, queryVars, bevVars, localVars, listVars>>

(* Where a closing procedure returns to in thread t.                       *)
Return(t) ==
  IF t = "stream" THEN "idle"
  ELSE IF t = "pub" /\ pub # "freed" THEN "main" ELSE "done"

(* rtmp_push_end: read publish, clear the publisher's cond, forget the     *)
(* publisher, broadcast (without list_mutex).                              *)
PushEndGet(t) ==
  /\ At(t, "pe_get")
  /\ Goto(t, IF publish = 1 THEN "pe_set" ELSE "pe_bcast")
  /\ UNCHANGED <<heapVars, flagVars, queryVars, bevVars, localVars, listVars>>

PushEndSet(t) ==
  /\ At(t, "pe_set")
  /\ pcond' = 0
  /\ Goto(t, "pe_null")
  /\ UNCHANGED <<cond, running, publish, connected, decs, heapVars, queryVars, bevVars, localVars, listVars>>

PushEndNull(t) ==
  /\ At(t, "pe_null")
  /\ publish' = 0
  /\ Goto(t, "pe_bcast")
  /\ UNCHANGED <<cond, running, pcond, connected, decs, heapVars, queryVars, bevVars, localVars, listVars>>

(* Mutant of PushEndBroadcast: no broadcast.                               *)
PushEndSilent(t) ==
  /\ At(t, "pe_bcast")
  /\ Goto(t, Return(t))
  /\ UNCHANGED <<heapVars, flagVars, queryVars, bevVars, localVars, listVars>>

(* Mutant of PushEndBroadcast: the caller goes on to release the session   *)
(* that the publisher will release.                                        *)
PushEndThenRelease(t) ==
  /\ At(t, "pe_bcast")
  /\ GotoAndWake(t, IF t = "stream" THEN "rl_cb" ELSE Return(t))
  /\ UNCHANGED <<heapVars, flagVars, queryVars, bevVars, localVars, listVars>>

PushEndBroadcast(t) ==
  /\ At(t, "pe_bcast")
  /\ GotoAndWake(t, Return(t))
  /\ UNCHANGED <<heapVars, flagVars, queryVars, bevVars, localVars, listVars>>

(* h264_stream_release: count the client out, free the bufferevent, empty  *)
(* the list, free the node.                                                *)
ReleaseCallback(t) ==
  /\ At(t, "rl_cb")
  /\ decs' = decs + 1
  /\ Goto(t, "rl_bev")
  /\ UNCHANGED <<cond, running, publish, pcond, connected, heapVars, queryVars, bevVars, localVars, listVars>>

(* Mutant of ReleaseBev: bufferevent_free is missing.                      *)
ReleaseKeepsBev(t) ==
  /\ At(t, "rl_bev")
  /\ Goto(t, "rl_clear")
  /\ UNCHANGED <<bevVars, heapVars, flagVars, queryVars, localVars, listVars>>

ReleaseBev(t) ==
  /\ At(t, "rl_bev")
  /\ bev' = "freed"
  /\ Goto(t, "rl_clear")
  /\ UNCHANGED <<input, rdPending, evPending, rcvd, heapVars, flagVars, queryVars, localVars, listVars>>

(* Mutant of ListClearOut: list_size keeps its value.                      *)
ListClearOutKeepsSize(t) ==
  /\ At(t, "rl_clear") /\ MutexFree
  /\ nalu_list' = <<>>
  /\ Goto(t, "rl_delete")
  /\ UNCHANGED <<list_size, added, popped, lastSent, heapVars, flagVars, queryVars, bevVars, localVars>>

ListClearOut(t) ==
  /\ At(t, "rl_clear") /\ MutexFree
  /\ nalu_list' = <<>>
  /\ list_size' = list_size - Len(nalu_list)
  /\ Goto(t, "rl_delete")
  /\ UNCHANGED <<added, popped, lastSent, heapVars, flagVars, queryVars, bevVars, localVars>>

ReleaseDelete(t) ==
  /\ At(t, "rl_delete")
  /\ node' = "freed"
  /\ Goto(t, Return(t))
  /\ UNCHANGED <<pub, fault, flagVars, queryVars, bevVars, localVars, listVars>>

Closing(t) ==
  \/ CcCond(t) \/ CcWait(t) \/ CloseBranch(t)
  \/ PushEndGet(t) \/ PushEndSet(t) \/ PushEndNull(t) \/ PushEndBroadcast(t)
  \/ ReleaseCallback(t) \/ ReleaseBev(t) \/ ListClearOut(t) \/ ReleaseDelete(t)

-----------------------------------------------------------------------------
(* The HTTP thread: url_query_callback and rtmp_push_start.                *)

QueryAnswer ==
  /\ pc["hbase"] = "idle" /\ query = "pending"
  /\ query' = "answered"
  /\ \E l \in {"ps_create", "cc_cond"} : Goto("hbase", l)
  /\ UNCHANGED <<sim, heapVars, flagVars, bevVars, localVars, listVars>>

PushCreate ==
  /\ At("hbase", "ps_create")
  /\ pub' = "live"
  /\ pcond' = 1
  /\ Goto("hbase", "ps_start")
  /\ UNCHANGED <<node, fault, cond, running, publish, connected, decs, queryVars, bevVars, localVars, listVars>>

(* ThreadPoolAddPersistent returns once the job is picked up, or refuses   *)
(* it at the thread limit; rtmp_publish_start ignores which.               *)
PushStart ==
  /\ pc["hbase"] = "ps_start"
  /\ \E l \in {"connect", "off"} :
       pc' = [pc EXCEPT !["hbase"] = "ps_id", !["pub"] = l]
  /\ UNCHANGED <<heapVars, flagVars, queryVars, bevVars, localVars, listVars>>

(* thiz->id = job.jobId, a write to the publisher after it was started.    *)
PushJobId ==
  /\ At("hbase", "ps_id")
  /\ Goto("hbase", "ps_attach")
  /\ UNCHANGED <<heapVars, flagVars, queryVars, bevVars, localVars, listVars>>

PushAttach ==
  /\ At("hbase", "ps_attach")
  /\ publish' = 1
  /\ Goto("hbase", "done")
  /\ UNCHANGED <<cond, running, pcond, connected, decs, heapVars, queryVars, bevVars, localVars, listVars>>

-----------------------------------------------------------------------------
(* rtmp_publish_thread, with list_traverse and list_del_nalu.              *)

PubConnect ==
  /\ At("pub", "connect")
  /\ connected' \in 0..1
  /\ Goto("pub", "main")
  /\ UNCHANGED <<cond, running, publish, pcond, decs, heapVars, queryVars, bevVars, localVars, listVars>>

PubLoop ==
  /\ At("pub", "main")
  /\ Goto("pub", IF pcond = 1 THEN "del_lock" ELSE "exit")
  /\ UNCHANGED <<heapVars, flagVars, queryVars, bevVars, localVars, listVars>>

PopNalu ==
  /\ popped' = Head(nalu_list)
  /\ nalu_list' = Tail(nalu_list)
  /\ list_size' = list_size - 1
  /\ Goto("pub", "send")
  /\ UNCHANGED <<added, lastSent>>

ListDelNalu ==
  /\ At("pub", "del_lock")
  /\ IF nalu_list = <<>>
       THEN Goto("pub", "del_wait") /\ UNCHANGED listVars
       ELSE PopNalu
  /\ UNCHANGED <<heapVars, flagVars, queryVars, bevVars, localVars>>

CondWait ==
  /\ At("pub", "del_wait")
  /\ Goto("pub", "waiting")
  /\ UNCHANGED <<heapVars, flagVars, queryVars, bevVars, localVars, listVars>>

SpuriousWakeup ==
  /\ pc["pub"] = "waiting"
  /\ Goto("pub", "woken")
  /\ UNCHANGED <<heapVars, flagVars, queryVars, bevVars, localVars, listVars>>

(* cond_wait returned with the mutex; one if, no loop.                     *)
ListDelWoken ==
  /\ At("pub", "woken")
  /\ IF list_size > 0
       THEN PopNalu
       ELSE Goto("pub", "main") /\ UNCHANGED listVars
  /\ UNCHANGED <<heapVars, flagVars, queryVars, bevVars, localVars>>

PubSend ==
  /\ At("pub", "send") /\ connected = 1
  /\ lastSent' = popped
  /\ Goto("pub", "main")
  /\ UNCHANGED <<nalu_list, list_size, added, popped, heapVars, flagVars, queryVars, bevVars, localVars>>

(* Mutant of PubSendFail: a failed send is only logged.                    *)
PubSendFailIgnored ==
  /\ At("pub", "send")
  /\ Goto("pub", "main")
  /\ UNCHANGED <<heapVars, flagVars, queryVars, bevVars, localVars, listVars>>

(* tima_rtmp_send returns -1: not connected, or the connection broke.      *)
PubSendFail ==
  /\ At("pub", "send")
  /\ Goto("pub", "cc_cond")
  /\ UNCHANGED <<heapVars, flagVars, queryVars, bevVars, localVars, listVars>>

(* rtmp_publish_release up to the callback, which releases the session.    *)
PubExit ==
  /\ At("pub", "exit")
  /\ pub' = "freed"
  /\ connected' = 0
  /\ Goto("pub", "rl_cb")
  /\ UNCHANGED <<node, fault, cond, running, publish, pcond, decs, queryVars, bevVars, localVars, listVars>>

-----------------------------------------------------------------------------
Peer == PeerClose \/ \E k \in Kinds : Receive(k)

StreamThread ==
  \/ ReadCallback \/ EventCallback
  \/ RdCheck \/ RdEnter \/ RdStop \/ RdPacket \/ ListAddNalu \/ RdNext \/ RdExit
  \/ EvCond \/ Closing("stream") \/ UseFreed("stream")

HbaseThread ==
  \/ QueryAnswer \/ PushCreate \/ PushStart \/ PushJobId \/ PushAttach
  \/ Closing("hbase") \/ UseFreed("hbase")

PubThread ==
  \/ PubConnect \/ PubLoop \/ ListDelNalu \/ CondWait \/ ListDelWoken
  \/ PubSend \/ PubSendFail \/ PubExit
  \/ Closing("pub") \/ UseFreed("pub")

Next == Peer \/ StreamThread \/ HbaseThread \/ PubThread \/ SpuriousWakeup

Spec == Init /\ [][Next]_vars

-----------------------------------------------------------------------------
(* The list is exactly the newest packages: list_size counts it, the       *)
(* numbers are consecutive up to the last one queued, and everything the   *)
(* publisher took came before them (list_add_nalu, list_del_nalu and       *)
(* list_clear_out keep the counter and the links in step).                 *)
QueueInOrder ==
  /\ list_size = Len(nalu_list)
  /\ Len(nalu_list) <= added
  /\ \A i \in 1..Len(nalu_list) : nalu_list[i] = added - Len(nalu_list) + i
  /\ popped <= added - Len(nalu_list)
  /\ lastSent <= popped

(* What reaches the RTMP server has no gap and no repetition: a package is *)
(* sent right after its predecessor, whatever races or failures happen     *)
(* (list_traverse closes the session at the first failed send).            *)
GaplessStream == [][lastSent' = lastSent + 1]_lastSent

(* bll_core.c: "client_cnt++; need lock and -- at release": a session is   *)
(* counted out once, h264_stream_release being its only release.           *)
ReleasedOnce == decs <= 1

=============================================================================
