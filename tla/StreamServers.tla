--------------------------- MODULE StreamServers ---------------------------
(***************************************************************************)
(* The TCP listener thread and the stream server threads it starts         *)
(* (mw/server/server_listener.c), and how the core node turns a relayed    *)
(* connection into a session (bll/bll_core.c).                             *)
(*                                                                         *)
(* The listener thread creates the server threads and listens at once: the *)
(* barrier_wait between the two is commented out.  A server thread makes   *)
(* its event base and a bufferevent pair; the listener writes each         *)
(* connection into out_buf and the server's loop reads it from in_buf.     *)
(* The pair has one lock, so what libevent does under it is one step.  The *)
(* counters flowid and client_cnt have no lock: x++ is a load and a store. *)
(* A NULL dereference ends the process, and with it every step.            *)
(***************************************************************************)
EXTENDS Integers, Sequences, FiniteSets

CONSTANTS
  NumServers,    (* MAX_STREAM_SERVER_NUM, 8 in the code                     *)
  Conns,         (* the connections clients make                             *)
  CountMod,      (* range of the unsigned int client_cnt, 2^32 in the code   *)
  CallsMayFail   (* whether pthread_create, bind and evbuffer_add can fail   *)

ASSUME ServersAssumption ==
  /\ NumServers \in Nat \ {0}
  /\ IsFiniteSet(Conns)
  /\ CountMod \in Nat /\ CountMod > Cardinality(Conns)
  /\ CallsMayFail \in BOOLEAN

Servers == 1..NumServers

VARIABLES
  lpc,           (* where the listener thread is                             *)
  made,          (* server threads created so far                            *)
  hand,          (* ls->conn: the connection being handed over               *)
  spc,           (* where each server thread is                              *)
  eventBase,     (* server->event_base: 1 when not NULL                      *)
  outBuf,        (* server->out_buf: 1 when not NULL                         *)
  readCb,        (* readcb of in_buf: 1 when set                             *)
  enabled,       (* 1 once in_buf reads                                      *)
  pending,       (* readcb_pending of in_buf                                 *)
  output,        (* messages in the output of out_buf                        *)
  input,         (* messages in the input of in_buf                          *)
  taken,         (* messages relay_receive_message removed                   *)
  relayed,       (* messages send_socket_to_core added                       *)
  conn,          (* state of each connection                                 *)
  home,          (* the server a connection was given to, 0 before           *)
  flow,          (* req.flowid of the connection's session                   *)
  flowid,        (* PrivInfo.flowid of the core node                         *)
  client_cnt,    (* server->client_cnt                                       *)
  freg,          (* register of each server thread: flowid loaded            *)
  creg,          (* register of each server thread: client_cnt loaded        *)
  dreg,          (* register of the thread releasing a connection's session  *)
  early,         (* connections accepted before their server was set up      *)
  crowded,       (* servers whose client_cnt was changed by two threads at   *)
                 (* once; 0 stands for the flowid of the core node           *)
  fault          (* the call whose failure or NULL argument ended the        *)
                 (* process, or "none"                                       *)

listenVars == <<lpc, made, hand, early>>
setupVars  == <<eventBase, outBuf, readCb, enabled>>
pairVars   == <<pending, output, input, taken, relayed>>
connVars   == <<conn, home, flow>>
countVars  == <<flowid, client_cnt, freg, creg, dreg>>
vars == <<listenVars, spc, setupVars, pairVars, connVars, countVars, crowded, fault>>

SetupLabels  == {"base", "pair", "setcb", "enable"}
HandleLabels == {"flow_ld", "flow_st", "count_ld", "count_st", "start"}
ServerLabels == {"off", "loop", "drain", "release"} \cup SetupLabels \cup HandleLabels

ConnStates == {"backlog", "accepted", "relayed", "dropped", "handled", "counted",
               "started", "served", "releasing_own", "releasing", "released"}

(* What is written into the pair: the vmp_connection_t, of which the       *)
(* socket's event_base was read when the connection was accepted.          *)
Message == [conn : Conns, base : 0..1]

TypeOK ==
  /\ lpc \in {"create", "listen", "loop", "relay"}
  /\ made \in 0..NumServers
  /\ hand \in Message \cup {<<>>}
  /\ spc \in [Servers -> ServerLabels]
  /\ eventBase \in [Servers -> 0..1] /\ outBuf \in [Servers -> 0..1]
  /\ readCb \in [Servers -> 0..1] /\ enabled \in [Servers -> 0..1]
  /\ pending \in [Servers -> 0..1]
  /\ output \in [Servers -> Seq(Message)] /\ input \in [Servers -> Seq(Message)]
  /\ taken \in [Servers -> Seq(Message)] /\ relayed \in [Servers -> Seq(Message)]
  /\ conn \in [Conns -> ConnStates]
  /\ home \in [Conns -> 0..NumServers]
  /\ flow \in [Conns -> Nat] /\ flowid \in Nat
  /\ client_cnt \in [Servers -> 0..(CountMod - 1)]
  /\ freg \in [Servers -> Nat]
  /\ creg \in [Servers -> 0..(CountMod - 1)] /\ dreg \in [Conns -> 0..(CountMod - 1)]
  /\ early \subseteq Conns /\ crowded \subseteq 0..NumServers
  /\ fault \in {"none", "pthread_detach", "run_listener_server",
                "bufferevent_get_output", "bufferevent_socket_new"}

(* server_listener_thread before stream_server_general; the servers are    *)
(* calloc'ed.                                                              *)
Init ==
  /\ lpc = "create" /\ made = 0 /\ hand = <<>> /\ early = {}
  /\ spc = [s \in Servers |-> "off"]
  /\ eventBase = [s \in Servers |-> 0] /\ outBuf = [s \in Servers |-> 0]
  /\ readCb = [s \in Servers |-> 0] /\ enabled = [s \in Servers |-> 0]
  /\ pending = [s \in Servers |-> 0]
  /\ output = [s \in Servers |-> <<>>] /\ input = [s \in Servers |-> <<>>]
  /\ taken = [s \in Servers |-> <<>>] /\ relayed = [s \in Servers |-> <<>>]
  /\ conn = [c \in Conns |-> "backlog"] /\ home = [c \in Conns |-> 0]
  /\ flow = [c \in Conns |-> 0] /\ flowid = 0
  /\ client_cnt = [s \in Servers |-> 0]
  /\ freg = [s \in Servers |-> 0] /\ creg = [s \in Servers |-> 0]
  /\ dreg = [c \in Conns |-> 0]
  /\ crowded = {} /\ fault = "none"

Goto(s, l) == spc' = [spc EXCEPT ![s] = l]

Fail(call) ==
  /\ fault' = call
  /\ UNCHANGED <<listenVars, spc, setupVars, pairVars, connVars, countVars>>

-----------------------------------------------------------------------------
(* The listener thread.                                                    *)

CreateServer ==
  /\ lpc = "create"
  /\ made' = made + 1
  /\ Goto(made + 1, "base")
  /\ lpc' = IF made + 1 = NumServers THEN "listen" ELSE lpc
  /\ UNCHANGED <<hand, early, setupVars, pairVars, connVars, countVars, fault>>

(* pthread_create failed: only logged, and the thread that does not exist  *)
(* is detached.                                                            *)
CreateServerFails ==
  /\ lpc = "create" /\ CallsMayFail
  /\ Fail("pthread_detach")

Listen ==
  /\ lpc = "listen"
  /\ lpc' = "loop"
  /\ UNCHANGED <<made, hand, early, spc, setupVars, pairVars, connVars, countVars, fault>>

(* evconnlistener_new_bind failed: create_tcp_listener_server returns NULL *)
(* and run_listener_server dereferences it.                                *)
ListenFails ==
  /\ lpc = "listen" /\ CallsMayFail
  /\ Fail("run_listener_server")

(* server_accept_handler up to on_connect, which is always set; the hash   *)
(* of the descriptor gives any server.                                     *)
Accept(c, s) ==
  /\ lpc = "loop" /\ conn[c] = "backlog"
  /\ hand' = [conn |-> c, base |-> eventBase[s]]
  /\ home' = [home EXCEPT ![c] = s]
  /\ conn' = [conn EXCEPT ![c] = "accepted"]
  /\ early' = IF spc[s] \in SetupLabels THEN early \cup {c} ELSE early
  /\ lpc' = "relay"
  /\ UNCHANGED <<made, spc, setupVars, pairVars, flow, countVars, fault>>

(* The partner of s reads as soon as in_buf is enabled: be_pair_transfer   *)
(* moves all of out, and triggers the deferred callback if there is one.   *)
Transfer(s, out) ==
  /\ input' = [input EXCEPT ![s] = @ \o out]
  /\ output' = [output EXCEPT ![s] = <<>>]
  /\ pending' = [pending EXCEPT ![s] = IF readCb[s] = 1 THEN 1 ELSE @]

(* send_socket_to_core: evbuffer_add, and with it be_pair_outbuf_cb.       *)
Relay ==
  /\ lpc = "relay"
  /\ LET s == home[hand.conn] IN
       /\ outBuf[s] = 1
       /\ relayed' = [relayed EXCEPT ![s] = Append(@, hand)]
       /\ IF enabled[s] = 1
          THEN Transfer(s, Append(output[s], hand))
          ELSE /\ output' = [output EXCEPT ![s] = Append(@, hand)]
               /\ UNCHANGED <<input, pending>>
  /\ conn' = [conn EXCEPT ![hand.conn] = "relayed"]
  /\ lpc' = "loop" /\ hand' = <<>>
  /\ UNCHANGED <<made, early, spc, setupVars, taken, home, flow, countVars, fault>>

(* evbuffer_add found no memory: -1 is returned and logged, and the socket *)
(* stays open (close(fd) is commented out).                                *)
RelayFails ==
  /\ lpc = "relay" /\ CallsMayFail
  /\ outBuf[home[hand.conn]] = 1
  /\ conn' = [conn EXCEPT ![hand.conn] = "dropped"]
  /\ lpc' = "loop" /\ hand' = <<>>
  /\ UNCHANGED <<made, early, spc, setupVars, pairVars, home, flow, countVars, fault>>

(* The server thread has not come to out_buf yet.                          *)
RelayTooEarly ==
  /\ lpc = "relay"
  /\ outBuf[home[hand.conn]] = 0
  /\ Fail("bufferevent_get_output")

-----------------------------------------------------------------------------
(* setup_server on the server's own thread.                                *)

(* Mutant of SetupBase: the event base stays in a local variable.          *)
SetupBaseLocal(s) ==
  /\ spc[s] = "base"
  /\ Goto(s, "pair")
  /\ UNCHANGED <<setupVars, listenVars, pairVars, connVars, countVars, fault>>

(* event_base_new is stored in the server.                                 *)
SetupBase(s) ==
  /\ spc[s] = "base"
  /\ eventBase' = [eventBase EXCEPT ![s] = 1]
  /\ Goto(s, "pair")
  /\ UNCHANGED <<outBuf, readCb, enabled, listenVars, pairVars, connVars, countVars, fault>>

(* bufferevent_pair_new and the two assignments; nobody else reads in_buf. *)
SetupPair(s) ==
  /\ spc[s] = "pair"
  /\ outBuf' = [outBuf EXCEPT ![s] = 1]
  /\ Goto(s, "setcb")
  /\ UNCHANGED <<eventBase, readCb, enabled, listenVars, pairVars, connVars, countVars, fault>>

SetupCallback(s) ==
  /\ spc[s] = "setcb"
  /\ readCb' = [readCb EXCEPT ![s] = 1]
  /\ Goto(s, "enable")
  /\ UNCHANGED <<eventBase, outBuf, enabled, listenVars, pairVars, connVars, countVars, fault>>

(* Mutant of SetupEnable: what the listener wrote earlier is not fetched.  *)
SetupEnableOnly(s) ==
  /\ spc[s] = "enable"
  /\ enabled' = [enabled EXCEPT ![s] = 1]
  /\ Goto(s, "loop")
  /\ UNCHANGED <<eventBase, outBuf, readCb, pairVars, listenVars, connVars,
                 countVars, fault>>

(* bufferevent_enable, then stream_server_task_set and the event loop.     *)
(* be_pair_enable fetches what the listener has already written.           *)
SetupEnable(s) ==
  /\ spc[s] = "enable"
  /\ enabled' = [enabled EXCEPT ![s] = 1]
  /\ IF output[s] # <<>>
     THEN Transfer(s, output[s])
     ELSE UNCHANGED <<input, output, pending>>
  /\ Goto(s, "loop")
  /\ UNCHANGED <<eventBase, outBuf, readCb, taken, relayed, listenVars, connVars,
                 countVars, fault>>

-----------------------------------------------------------------------------
(* The server's event loop.                                                *)

(* bufferevent_run_deferred_callbacks_unlocked calls relay_receive_message.*)
RelayCallback(s) ==
  /\ spc[s] = "loop" /\ pending[s] = 1
  /\ pending' = [pending EXCEPT ![s] = 0]
  /\ Goto(s, "drain")
  /\ UNCHANGED <<output, input, taken, relayed, listenVars, setupVars, connVars,
                 countVars, fault>>

(* Mutant of ReceiveOne: evbuffer_remove removes the rest as well.         *)
ReceiveOneDropsRest(s) ==
  /\ spc[s] = "drain" /\ input[s] # <<>>
  /\ taken' = [taken EXCEPT ![s] = Append(@, Head(input[s]))]
  /\ input' = [input EXCEPT ![s] = <<>>]
  /\ conn' = [conn EXCEPT ![Head(input[s]).conn] = "handled"]
  /\ Goto(s, "flow_ld")
  /\ UNCHANGED <<pending, output, relayed, listenVars, setupVars, home, flow,
                 countVars, fault>>

(* One turn of its loop: evbuffer_remove and the entry of handle_message.  *)
ReceiveOne(s) ==
  /\ spc[s] = "drain" /\ input[s] # <<>>
  /\ taken' = [taken EXCEPT ![s] = Append(@, Head(input[s]))]
  /\ input' = [input EXCEPT ![s] = Tail(@)]
  /\ conn' = [conn EXCEPT ![Head(input[s]).conn] = "handled"]
  /\ Goto(s, "flow_ld")
  /\ UNCHANGED <<pending, output, relayed, listenVars, setupVars, home, flow,
                 countVars, fault>>

(* The input buffer is empty: the callback returns.                        *)
ReceiveDone(s) ==
  /\ spc[s] = "drain" /\ input[s] = <<>>
  /\ Goto(s, "loop")
  /\ UNCHANGED <<listenVars, setupVars, pairVars, connVars, countVars, fault>>

(* The message handle_message works on: the last one removed.              *)
Current(s) == taken[s][Len(taken[s])]

(* thiz->flowid++                                                          *)
FlowLoad(s) ==
  /\ spc[s] = "flow_ld"
  /\ freg' = [freg EXCEPT ![s] = flowid]
  /\ Goto(s, "flow_st")
  /\ UNCHANGED <<flowid, client_cnt, creg, dreg, listenVars, setupVars, pairVars,
                 connVars, fault>>

(* Mutant of FlowStore: flowid is not incremented.                         *)
FlowStoreSame(s) ==
  /\ spc[s] = "flow_st"
  /\ Goto(s, "count_ld")
  /\ UNCHANGED <<countVars, listenVars, setupVars, pairVars, connVars, fault>>

FlowStore(s) ==
  /\ spc[s] = "flow_st"
  /\ flowid' = freg[s] + 1
  /\ Goto(s, "count_ld")
  /\ UNCHANGED <<client_cnt, freg, creg, dreg, listenVars, setupVars, pairVars,
                 connVars, fault>>

(* ss->client_cnt++                                                        *)
CountLoad(s) ==
  /\ spc[s] = "count_ld"
  /\ creg' = [creg EXCEPT ![s] = client_cnt[s]]
  /\ Goto(s, "count_st")
  /\ UNCHANGED <<flowid, client_cnt, freg, dreg, listenVars, setupVars, pairVars,
                 connVars, fault>>

CountStore(s) ==
  /\ spc[s] = "count_st"
  /\ client_cnt' = [client_cnt EXCEPT ![s] = (creg[s] + 1) % CountMod]
  /\ conn' = [conn EXCEPT ![Current(s).conn] = "counted"]
  /\ Goto(s, "start")
  /\ UNCHANGED <<flowid, freg, creg, dreg, listenVars, setupVars, pairVars, home,
                 flow, fault>>

(* Mutant of StartSession: relay_receive_message has an if, not a while.   *)
StartSessionOnce(s) ==
  /\ spc[s] = "start" /\ Current(s).base = 1
  /\ flow' = [flow EXCEPT ![Current(s).conn] = flowid]
  /\ conn' = [conn EXCEPT ![Current(s).conn] = "started"]
  /\ Goto(s, "loop")
  /\ UNCHANGED <<listenVars, setupVars, pairVars, home, countVars, fault>>

(* req.flowid is read again; pfn_set and pfn_start run the session's       *)
(* client_connection_register on the event base found at accept.           *)
StartSession(s) ==
  /\ spc[s] = "start" /\ Current(s).base = 1
  /\ flow' = [flow EXCEPT ![Current(s).conn] = flowid]
  /\ conn' = [conn EXCEPT ![Current(s).conn] = "started"]
  /\ Goto(s, "drain")
  /\ UNCHANGED <<listenVars, setupVars, pairVars, home, countVars, fault>>

(* bufferevent_init_common_ asks a NULL event base for its priorities.     *)
StartWithoutBase(s) ==
  /\ spc[s] = "start" /\ Current(s).base = 0
  /\ Fail("bufferevent_socket_new")

(* The session's first packet starts its URL query (StreamSession): from   *)
(* now on the HTTP thread and a publisher thread may close it too.         *)
Serve(c) ==
  /\ conn[c] = "started" /\ spc[home[c]] = "loop"
  /\ conn' = [conn EXCEPT ![c] = "served"]
  /\ UNCHANGED <<listenVars, spc, setupVars, pairVars, home, flow, countVars, fault>>

(* h264_stream_release calls handle_message_callback, client_cnt--, on the *)
(* server's thread (the peer closed) ...                                   *)
ReleaseOwnLoad(c) ==
  /\ conn[c] \in {"started", "served"} /\ spc[home[c]] = "loop"
  /\ dreg' = [dreg EXCEPT ![c] = client_cnt[home[c]]]
  /\ conn' = [conn EXCEPT ![c] = "releasing_own"]
  /\ Goto(home[c], "release")
  /\ UNCHANGED <<flowid, client_cnt, freg, creg, listenVars, setupVars, pairVars,
                 home, flow, fault>>

(* ... or on the HTTP or publisher thread.                                 *)
ReleaseLoad(c) ==
  /\ conn[c] = "served"
  /\ dreg' = [dreg EXCEPT ![c] = client_cnt[home[c]]]
  /\ conn' = [conn EXCEPT ![c] = "releasing"]
  /\ UNCHANGED <<flowid, client_cnt, freg, creg, listenVars, spc, setupVars, pairVars,
                 home, flow, fault>>

(* Mutant of ReleaseStore: a release that is not reported to the core.     *)
ReleaseStoreSkipped(c) ==
  /\ conn[c] \in {"releasing_own", "releasing"}
  /\ conn' = [conn EXCEPT ![c] = "released"]
  /\ IF conn[c] = "releasing_own" THEN Goto(home[c], "loop") ELSE UNCHANGED spc
  /\ UNCHANGED <<countVars, listenVars, setupVars, pairVars, home, flow, fault>>

ReleaseStore(c) ==
  /\ conn[c] \in {"releasing_own", "releasing"}
  /\ client_cnt' = [client_cnt EXCEPT ![home[c]] = (dreg[c] - 1) % CountMod]
  /\ conn' = [conn EXCEPT ![c] = "released"]
  /\ IF conn[c] = "releasing_own" THEN Goto(home[c], "loop") ELSE UNCHANGED spc
  /\ UNCHANGED <<flowid, freg, creg, dreg, listenVars, setupVars, pairVars, home,
                 flow, fault>>

-----------------------------------------------------------------------------
(* The session of c is between the load and the store of client_cnt--.      *)
Decrementing(c) == conn[c] \in {"releasing_own", "releasing"}

(* Two threads change the client_cnt of server s at once.                  *)
CountCrowded(s) ==
  \E c \in Conns :
    /\ home[c] = s /\ Decrementing(c)
    /\ \/ spc[s] = "count_st"
       \/ \E d \in Conns \ {c} : home[d] = s /\ Decrementing(d)

(* Servers between the load of flowid and its use in the request.          *)
FlowUsers == {s \in Servers : spc[s] \in HandleLabels \ {"flow_ld"}}

FlowCrowded == \E s, t \in FlowUsers : s # t

Crowd == {s \in Servers : CountCrowded(s)} \cup {z \in {0} : FlowCrowded}

Watch == crowded' = crowded \cup Crowd'

ListenerStart == CreateServer \/ CreateServerFails \/ Listen \/ ListenFails

HandOver == Relay \/ RelayFails \/ RelayTooEarly

ServerSetup(s) == SetupBase(s) \/ SetupPair(s) \/ SetupCallback(s) \/ SetupEnable(s)

HandleMessage(s) ==
  \/ FlowLoad(s) \/ FlowStore(s) \/ CountLoad(s) \/ CountStore(s)
  \/ StartSession(s) \/ StartWithoutBase(s)

ServerThread(s) ==
  \/ ServerSetup(s)
  \/ RelayCallback(s) \/ ReceiveOne(s) \/ ReceiveDone(s)
  \/ HandleMessage(s)

Release(c) == ReleaseOwnLoad(c) \/ ReleaseLoad(c) \/ ReleaseStore(c)

Next ==
  /\ fault = "none"
  /\ \/ ListenerStart
     \/ \E c \in Conns, s \in Servers : Accept(c, s)
     \/ HandOver
     \/ \E s \in Servers : ServerThread(s)
     \/ \E c \in Conns : Serve(c) \/ Release(c)
  /\ Watch

Spec == Init /\ [][Next]_vars

(* Threads that can go on do.  Nothing is owed by the clients: neither new *)
(* connections, nor packets, nor the end of a session.                     *)
FairSpec ==
  /\ Spec
  /\ WF_vars(Next /\ HandOver)
  /\ \A s \in Servers : WF_vars(Next /\ ServerThread(s))
  /\ \A c \in Conns : WF_vars(Next /\ ReleaseStore(c))

-----------------------------------------------------------------------------
(* The connections whose handling ended the process on a NULL pointer were *)
(* accepted before their server thread had finished setup_server: the      *)
(* window the commented-out barrier_wait leaves is the only one.  The      *)
(* fault may come later and on the server's thread, from the NULL          *)
(* event_base that server_accept_handler copied.                           *)
FaultNeedsEarlyAccept ==
  /\ fault = "bufferevent_get_output" => hand.conn \in early
  /\ fault = "bufferevent_socket_new" =>
       \E s \in Servers : spc[s] = "start" /\ Current(s).conn \in early

(* Nothing send_socket_to_core wrote is lost, repeated or overtaken between*)
(* the listener and relay_receive_message, whether it was written before   *)
(* or after in_buf was enabled.                                            *)
RelayInOrder ==
  \A s \in Servers : relayed[s] = taken[s] \o input[s] \o output[s]

(* A message in in_buf has its callback pending or running, and a message  *)
(* stays in out_buf only until the server enables in_buf: no wakeup is lost*)
(* between readcb_pending = 0 and the last evbuffer_remove.                *)
NotificationKept ==
  \A s \in Servers :
    /\ input[s] # <<>> => pending[s] = 1 \/ spc[s] \in {"drain"} \cup HandleLabels
    /\ output[s] # <<>> => spc[s] \in {"setcb", "enable"}

(* Sessions counted in for server s and not yet counted out.               *)
Counted(s) ==
  {c \in Conns : home[c] = s /\ conn[c] \in {"counted", "started", "served"}}

(* No thread is inside client_cnt++ or client_cnt-- of server s.           *)
CountSettled(s) ==
  spc[s] # "count_st" /\ \A c \in Conns : home[c] = s => ~Decrementing(c)

(* client_cnt is the number of the server's sessions whenever no thread is *)
(* changing it, at least for a server on which no two threads ever changed *)
(* it at once: the comments at both places ask for a lock.                 *)
CountExactUnlessCrowded ==
  \A s \in Servers \ crowded :
    CountSettled(s) => client_cnt[s] = Cardinality(Counted(s))

(* Connections that became a session.                                      *)
Sessions ==
  {c \in Conns : conn[c] \in {"started", "served", "releasing_own", "releasing", "released"}}

(* Two sessions never get the same flowid unless two server threads were   *)
(* between flowid++ and its second read at the same time.                  *)
FlowIdsDistinct ==
  0 \notin crowded => \A c, d \in Sessions : c # d => flow[c] # flow[d]

(* Every accepted connection gets its session, unless the relay had no     *)
(* memory for it or the process ended.                                     *)
EveryConnServed ==
  \A c \in Conns :
    conn[c] = "accepted" ~> \/ conn[c] \notin {"accepted", "relayed", "handled", "counted"}
                           \/ fault # "none"

=============================================================================
