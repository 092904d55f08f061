--------------------------- MODULE RtmpPublisher ---------------------------
(***************************************************************************)
(* What a publisher node holds of the outside world: the TimaRTMPPublisher *)
(* of mw/protocol/tima_rtmp_publisher.c with its socket, made, used and    *)
(* given back by rtmp_publish_thread, and the pool thread that runs it.    *)
(* Every step of the connection may fail.  The session is the environment: *)
(* its list has a package for the publisher or none, and it ends the       *)
(* publisher on the first failed send, or for reasons of its own; what the *)
(* closing threads do to the memory they share is StreamSession's.  Start  *)
(* is the environment's too: the URL query's answer in StreamStart, which  *)
(* is where this module is checked.                                        *)
(***************************************************************************)
EXTENDS Integers, FiniteSets

CONSTANTS
  Nodes,             (* publisher nodes                                      *)
  PoolThreads        (* threads the pool has for publishers                  *)

ASSUME PoolAssumption == PoolThreads \in Nat

VARIABLES
  pc,                (* of rtmp_publish_thread; "slot": still persistentJob  *)
  cond,              (* thiz->cond                                           *)
  signalled,         (* rtmp_push_end has broadcast cond_empty               *)
  publisher,         (* "none", "live" or "freed"                            *)
  connected,         (* pub.connected                                        *)
  sockets,           (* nodes whose RTMP socket is open                      *)
  sent               (* whether a packet went out                            *)

pubVars == <<pc, cond, signalled, publisher, connected, sockets, sent>>

PubInit ==
  /\ pc = [p \in Nodes |-> "none"]
  /\ cond = [p \in Nodes |-> TRUE]
  /\ signalled = [p \in Nodes |-> FALSE]
  /\ publisher = [p \in Nodes |-> "none"]
  /\ connected = [p \in Nodes |-> FALSE]
  /\ sockets = {}
  /\ sent = [p \in Nodes |-> FALSE]

Goto(p, there) == pc' = [pc EXCEPT ![p] = there]

(* Publishers that occupy a thread of the pool.                            *)
Running == {p \in Nodes : pc[p] \notin {"none", "slot", "ended"}}

(* rtmp_publish_start: ThreadPoolAddPersistent puts rtmp_publish_thread    *)
(* into the pool's slot and waits there, or refuses it, which nobody       *)
(* learns.                                                                 *)
Start(p) ==
  /\ pc[p] = "none"
  /\ \E there \in {"slot", "none"} : Goto(p, there)
  /\ UNCHANGED <<cond, signalled, publisher, connected, sockets, sent>>

(* A thread of the pool takes the job out of the slot.  When all of them   *)
(* run publishers none comes: the test for that at ThreadPool.c:790 sees   *)
(* -1 and lets the caller wait.                                            *)
TakeUp(p) ==
  /\ pc[p] = "slot" /\ Cardinality(Running) < PoolThreads
  /\ Goto(p, "create")
  /\ UNCHANGED <<cond, signalled, publisher, connected, sockets, sent>>

(* rtmp_push_end, first half: rtmp_publish_set, at any time after the      *)
(* publisher was started.                                                  *)
Set(p) ==
  /\ p \in Running /\ cond[p]
  /\ cond' = [cond EXCEPT ![p] = FALSE]
  /\ UNCHANGED <<pc, signalled, publisher, connected, sockets, sent>>

(* Second half: the broadcast without list_mutex wakes the publisher if it *)
(* is already waiting.                                                     *)
Broadcast(p) ==
  /\ ~cond[p] /\ ~signalled[p]
  /\ signalled' = [signalled EXCEPT ![p] = TRUE]
  /\ Goto(p, IF pc[p] = "wait" THEN "woken" ELSE pc[p])
  /\ UNCHANGED <<cond, publisher, connected, sockets, sent>>

(* tima_rtmp_create, which may find no memory.                             *)
Create(p) ==
  /\ pc[p] = "create"
  /\ \/ publisher' = [publisher EXCEPT ![p] = "live"] /\ Goto(p, "setup")
     \/ Goto(p, "loop") /\ UNCHANGED publisher
  /\ UNCHANGED <<cond, signalled, connected, sockets, sent>>

(* RTMP_SetupURL.                                                          *)
Setup(p) ==
  /\ pc[p] = "setup"
  /\ \E there \in {"connect", "loop"} : Goto(p, there)
  /\ UNCHANGED <<cond, signalled, publisher, connected, sockets, sent>>

(* RTMP_Connect: it closes its socket when it fails.                       *)
Connect(p) ==
  /\ pc[p] = "connect"
  /\ \/ sockets' = sockets \cup {p} /\ Goto(p, "stream")
     \/ Goto(p, "loop") /\ UNCHANGED sockets
  /\ UNCHANGED <<cond, signalled, publisher, connected, sent>>

(* Mutant of ConnectStream: without the RTMP_Close of the error path.      *)
ConnectStreamLeaves(p) ==
  /\ pc[p] = "stream"
  /\ \E ok \in BOOLEAN : connected' = [connected EXCEPT ![p] = ok]
  /\ Goto(p, "loop")
  /\ UNCHANGED <<cond, signalled, publisher, sockets, sent>>

(* RTMP_ConnectStream; on failure RTMP_Close.                              *)
ConnectStream(p) ==
  /\ pc[p] = "stream"
  /\ \/ connected' = [connected EXCEPT ![p] = TRUE] /\ UNCHANGED sockets
     \/ sockets' = sockets \ {p} /\ UNCHANGED connected
  /\ Goto(p, "loop")
  /\ UNCHANGED <<cond, signalled, publisher, sent>>

(* The loop's test of cond; rtma_publish_proc goes into list_del_nalu.     *)
Traverse(p) ==
  /\ pc[p] = "loop" /\ cond[p]
  /\ Goto(p, "list")
  /\ UNCHANGED <<cond, signalled, publisher, connected, sockets, sent>>

(* list_del_nalu finds the list empty and waits on cond_empty; it does not *)
(* look at cond.                                                           *)
CondWait(p) ==
  /\ pc[p] = "list"
  /\ Goto(p, "wait")
  /\ UNCHANGED <<cond, signalled, publisher, connected, sockets, sent>>

(* list_add_nalu's broadcast, or a spurious wakeup.                        *)
Wakeup(p) ==
  /\ pc[p] = "wait"
  /\ Goto(p, "woken")
  /\ UNCHANGED <<cond, signalled, publisher, connected, sockets, sent>>

(* Woken with nothing in the list: list_traverse has nothing to do.        *)
ListEmpty(p) ==
  /\ pc[p] = "woken"
  /\ Goto(p, "loop")
  /\ UNCHANGED <<cond, signalled, publisher, connected, sockets, sent>>

(* list_traverse with a package: tima_rtmp_send goes through.              *)
Send(p) ==
  /\ pc[p] \in {"list", "woken"}
  /\ publisher[p] = "live" /\ p \in sockets
  /\ sent' = [sent EXCEPT ![p] = TRUE]
  /\ Goto(p, "loop")
  /\ UNCHANGED <<cond, signalled, publisher, connected, sockets>>

(* tima_rtmp_send returns -1, without a publisher or a connection, or as   *)
(* the connection breaks, which librtmp may close by itself; list_traverse *)
(* closes the session, whose rtmp_push_end ends the publisher unless the   *)
(* session has let go of it, or has not stored it yet.                     *)
SendFails(p) ==
  /\ pc[p] \in {"list", "woken"}
  /\ \/ /\ cond[p]
        /\ cond' = [cond EXCEPT ![p] = FALSE]
        /\ signalled' = [signalled EXCEPT ![p] = TRUE]
     \/ UNCHANGED <<cond, signalled>>
  /\ \E broken \in SUBSET {p} : sockets' = sockets \ broken
  /\ Goto(p, "loop")
  /\ UNCHANGED <<publisher, connected, sent>>

(* rtmp_publish_disconnect and tima_rtmp_destory.                          *)
Disconnect(p) ==
  \/ /\ connected[p]
     /\ publisher' = [publisher EXCEPT ![p] = "freed"]
     /\ sockets' = sockets \ {p}
     /\ connected' = [connected EXCEPT ![p] = FALSE]
  \/ ~connected[p] /\ UNCHANGED <<publisher, sockets, connected>>

(* The loop is left: rtmp_publish_release frees the node.                  *)
Release(p) ==
  /\ pc[p] = "loop" /\ ~cond[p]
  /\ Disconnect(p)
  /\ Goto(p, "ended")
  /\ UNCHANGED <<cond, signalled, sent>>

(* The steps of the publisher's thread while it is not waiting.            *)
ThreadStep(p) ==
  \/ Create(p) \/ Setup(p) \/ Connect(p) \/ ConnectStream(p)
  \/ Traverse(p) \/ CondWait(p) \/ ListEmpty(p) \/ Send(p) \/ SendFails(p)
  \/ Release(p)

PubStep(p) == TakeUp(p) \/ Set(p) \/ Broadcast(p) \/ Wakeup(p) \/ ThreadStep(p)

-----------------------------------------------------------------------------
(* The publisher waits although the broadcast that was to end it has been  *)
(* made: it read cond before, and took list_mutex after.                   *)
LostWakeup(p) == pc[p] = "wait" /\ signalled[p]

(* A publisher whose session has ended leaves its loop, gives its socket   *)
(* back and frees its thread, unless it is left in LostWakeup for ever.    *)
SocketReturned ==
  \A p \in Nodes :
    []<>~LostWakeup(p) => (~cond[p] ~> p \notin sockets /\ pc[p] = "ended")

(* An open socket belongs to a thread that will close it: one that has     *)
(* just connected, or whose disconnect will find connected set.  No socket *)
(* outlives its publisher.                                                 *)
SocketsOwned ==
  \A p \in sockets :
    \/ pc[p] = "stream"
    \/ connected[p] /\ pc[p] \in {"loop", "list", "wait", "woken"}
=============================================================================
