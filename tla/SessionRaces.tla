---------------------------- MODULE SessionRaces ----------------------------
(***************************************************************************)
(* StreamSession watched for the interleavings its threads do not exclude. *)
(* The history variable raced collects the names of the race windows a     *)
(* behaviour went through; it never restrains a step.  The properties say  *)
(* that these windows are the only ways the session's code can touch freed *)
(* memory, release a session twice, or fail to release it.                 *)
(***************************************************************************)
EXTENDS StreamSession

VARIABLE raced

mvars == <<vars, raced>>

(* The closing code, from the first write of cond to the last free.        *)
ClosingPart == {"ev_cond"} \cup CloseLabels \cup ReleaseLabels

(* A thread other than t holds, or will be handed, the session's pointer:  *)
(* the URL query is outstanding or being answered, or the publisher runs.  *)
OwnedElsewhere(t) ==
  \/ query = "pending"
  \/ pc["hbase"] \in {"ps_create", "ps_start", "ps_id", "ps_attach"}
  \/ t # "pub" /\ pc["pub"] \notin {"off", "done"}

(* A closing thread finds publish NULL and releases the session although   *)
(* another thread will still use it: the peer closed before the URL came   *)
(* (stream_socket_eventcb), or the first send failed before rtmp_push_start*)
(* stored the publisher it had started.                                    *)
ReleasedBeforeAttach ==
  \E t \in {"stream", "pub"} :
    pc[t] = "br" /\ publish = 0 /\ OwnedElsewhere(t)

(* A second thread starts closing a session that is being or was closed:   *)
(* the event callback and a failed send, or the event callback and a       *)
(* failed query.                                                           *)
ClosedTwice ==
  \E t \in Threads :
    /\ pc[t] \in {"ev_cond", "cc_cond"}
    /\ \/ cond = 0
       \/ \E u \in Threads \ {t} : pc[u] \in {"ev_cond", "cc_cond"}

(* The publisher sees its cond cleared and frees both nodes before the     *)
(* event callback's rtmp_push_end has stored NULL and broadcast.           *)
PushEndOvertaken ==
  pc["stream"] \in {"pe_null", "pe_bcast"} /\ pub = "freed"

(* A read callback is on its way in although the closer saw running = 0:   *)
(* 5 ms of sleep is all that separates the two.                            *)
HandlerEntered ==
  /\ pc["stream"] \in {"rd_check", "rd_enter", "rd_proc", "rd_add", "rd_exit"}
  /\ \E t \in {"hbase", "pub"} : pc[t] \in ClosingPart \ {"cc_cond", "cc_wait"}

(* The broadcast comes when the publisher is past its test of cond and not *)
(* yet waiting: nothing will wake it.                                      *)
WakeupLost ==
  pc["stream"] = "pe_bcast" /\ pc["pub"] \in {"del_lock", "del_wait"}

MemoryWindows == {"released_before_attach", "closed_twice", "push_end_overtaken",
                  "handler_entered"}

Open(w) ==
  \/ w = "released_before_attach" /\ ReleasedBeforeAttach
  \/ w = "closed_twice"           /\ ClosedTwice
  \/ w = "push_end_overtaken"     /\ PushEndOvertaken
  \/ w = "handler_entered"        /\ HandlerEntered
  \/ w = "wakeup_lost"            /\ WakeupLost

Watch == raced' = raced \cup {w \in MemoryWindows \cup {"wakeup_lost"} : Open(w)'}

MInit == Init /\ raced = {}

MNext == Next /\ Watch

(* A thread that waits for list_mutex gets it: the publisher holds it for  *)
(* a few instructions.                                                     *)
LockSteps == ListAddNalu \/ \E t \in Threads : ListClearOut(t)

(* Every thread that can go on does (the kernel schedules it), and an HTTP *)
(* request ends: tima_http_handle gives it a timeout.  The peer owes       *)
(* nothing, and no spurious wakeup is owed either.                         *)
MSpec ==
  /\ MInit /\ [][MNext]_mvars
  /\ WF_mvars(StreamThread /\ Watch)
  /\ WF_mvars(HbaseThread /\ Watch)
  /\ WF_mvars(PubThread /\ Watch)
  /\ SF_mvars(LockSteps /\ Watch)

-----------------------------------------------------------------------------
(* No thread touches freed memory unless one of the four memory windows    *)
(* was open: the flags cond, running and publish and the order of          *)
(* h264_stream_release and rtmp_publish_release are enough everywhere else.*)
FaultNeedsRace == fault = 1 => raced \cap MemoryWindows # {}

(* A session is counted out of client_cnt at most once, and only a counted *)
(* out session is freed, unless a memory window was open                   *)
(* (h264_stream_release reached from two closing paths).                   *)
ReleasedOnceUnlessRaced ==
  raced \cap MemoryWindows = {} => decs <= 1 /\ (node = "freed" => decs = 1)

(* rtmp_publish_start was refused by the pool, which nobody looks at: the  *)
(* session waits for a publisher that does not exist.                      *)
PublisherRefused == pub = "live" /\ pc["hbase"] = "done" /\ pc["pub"] = "off"

(* A session whose connection ended (peer gone, failed query or failed     *)
(* send) is released in the end, publisher thread included, unless a       *)
(* window was open or the pool refused the publisher.                      *)
EventuallyReleased ==
  (bev # "on") ~> \/ node = "freed" /\ pc["pub"] \in {"off", "done"}
                  \/ raced # {}
                  \/ PublisherRefused

(* The session's life: cond closes it and free releases it, unless a       *)
(* memory window was open.                                                 *)
Life ==
  IF raced \cap MemoryWindows # {} THEN "broken"
  ELSE IF node = "freed" THEN "released"
  ELSE IF cond = 0 THEN "closing" ELSE "open"

Promise == INSTANCE SessionLife
             WITH queued <- added, sent <- lastSent, counted <- decs, life <- Life

(* A session keeps its promise in every interleaving of its threads: it    *)
(* sends what it queued in order, is closed before it is counted out, and  *)
(* counted out before it is released; nothing is queued or sent behind the *)
(* release (stream_input_handler, list_traverse, h264_stream_release).     *)
SessionSpec == Promise!Spec

=============================================================================
