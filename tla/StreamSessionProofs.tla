------------------------ MODULE StreamSessionProofs ------------------------
(***************************************************************************)
(* For every number of packets and packages: the session's variables keep  *)
(* their types, the NALU list stays exact and in order, and what is sent   *)
(* has no gap, through every interleaving of the three threads, the racy   *)
(* ones included; and without one of the four memory windows no thread     *)
(* touches freed memory and a session is released at most once.  Together: *)
(* the watched session implements SessionLife.                             *)
(***************************************************************************)
EXTENDS SessionRaces, TLAPS

(* A packet is being queued only while it is still in the input buffer.    *)
PacketHeld == pc["stream"] = "rd_add" => input # <<>>

IInv == TypeOK /\ QueueInOrder /\ PacketHeld

(* A thread moves between labels.                                          *)
LEMMA GotoType ==
  ASSUME pc \in [Threads -> Labels], NEW t \in Threads, NEW l \in Labels, Goto(t, l)
  PROVE  /\ pc' \in [Threads -> Labels]
         /\ pc'[t] = l
         /\ \A u \in Threads \ {t} : pc'[u] = pc[u]
  BY DEF Goto

(* A broadcast moves the caller and at most the waiting publisher.         *)
LEMMA WakeType ==
  ASSUME pc \in [Threads -> Labels], NEW t \in Threads, NEW l \in Labels, GotoAndWake(t, l)
  PROVE  /\ pc' \in [Threads -> Labels]
         /\ pc'[t] = l
         /\ t = "stream" \/ pc'["stream"] = pc["stream"]
  BY DEF GotoAndWake, Threads, Labels, NodeUse

(* Closing never returns into the middle of a packet.                      *)
LEMMA ReturnType ==
  ASSUME NEW t \in Threads
  PROVE  Return(t) \in Labels /\ Return(t) # "rd_add"
  BY DEF Return, Threads, Labels, PubUse

(* A session as bll_h264_create and bll_h264_start leave it satisfies the  *)
(* inductive invariant.                                                    *)
THEOREM InitIInv == Init => IInv
  BY BoundsAssumption DEF Init, IInv, TypeOK, QueueInOrder, PacketHeld,
     Threads, Labels, Kinds

(* Taking the head leaves the tail of the newest packages.                 *)
LEMMA PopIInv ==
  ASSUME IInv, PopNalu, nalu_list # <<>>,
         UNCHANGED <<heapVars, flagVars, queryVars, bevVars, localVars>>
  PROVE  IInv'
<1>1. pc' \in [Threads -> Labels] /\ pc'["stream"] = pc["stream"]
  BY GotoType DEF PopNalu, IInv, TypeOK, Threads, Labels, PubUse
<1>2. /\ Len(nalu_list) \in Nat \ {0}
      /\ Len(nalu_list') = Len(nalu_list) - 1
      /\ \A i \in 1..Len(nalu_list') : nalu_list'[i] = nalu_list[i + 1]
      /\ nalu_list' \in Seq(Nat)
      /\ popped' = nalu_list[1]
  BY DEF PopNalu, IInv, TypeOK
<1>3. TypeOK' /\ PacketHeld'
  BY <1>1, <1>2 DEF PopNalu, IInv, TypeOK, QueueInOrder, PacketHeld, heapVars, flagVars,
     queryVars, bevVars, localVars
<1>4. \A i \in 1..Len(nalu_list') : nalu_list'[i] = added' - Len(nalu_list') + i
  BY <1>2 DEF PopNalu, IInv, TypeOK, QueueInOrder
<1>5. popped' = added - Len(nalu_list')
  BY <1>2 DEF IInv, TypeOK, QueueInOrder
<1>6. QueueInOrder'
  BY <1>2, <1>4, <1>5 DEF PopNalu, IInv, TypeOK, QueueInOrder
<1> QED
  BY <1>3, <1>6 DEF IInv

(* Every step of Next preserves the inductive invariant.                   *)
LEMMA StepIInv == IInv /\ [Next]_vars => IInv'
<1> SUFFICES ASSUME IInv, [Next]_vars PROVE IInv'
  OBVIOUS
<1> USE BoundsAssumption
<1>t. /\ pc \in [Threads -> Labels]
      /\ "stream" \in Threads /\ "hbase" \in Threads /\ "pub" \in Threads
  BY DEF IInv, TypeOK, Threads
<1>l. \A l \in {"rd_check", "rd_enter", "rd_proc", "rd_add", "rd_exit", "ev_cond",
       "ps_create", "ps_attach", "del_lock", "del_wait", "woken", "ps_id", "connect", "main",
       "send", "exit", "idle", "ps_start", "off", "waiting", "done", "dead"} : l \in Labels
  BY DEF Labels, NodeUse, PubUse
<1>r. \A l \in {"cc_cond", "cc_wait", "br", "pe_get", "pe_set", "pe_null", "pe_bcast",
              "rl_cb", "rl_bev", "rl_clear", "rl_delete"} : l \in Labels
  BY DEF Labels, NodeUse, PubUse, CloseLabels, ReleaseLabels
<1>1. CASE PeerClose
  BY <1>1 DEF PeerClose, IInv, TypeOK, QueueInOrder, PacketHeld, heapVars, flagVars,
     queryVars, localVars, listVars
<1>2. ASSUME NEW k \in Kinds, Receive(k) PROVE IInv'
  BY <1>2 DEF Receive, IInv, TypeOK, QueueInOrder, PacketHeld, heapVars, flagVars,
     queryVars, localVars, listVars
<1>3. CASE ReadCallback
  <2>1. Goto("stream", "rd_check")
    BY <1>3 DEF ReadCallback
  <2> QED
    BY <1>3, <2>1, <1>t, <1>l, <1>r, GotoType DEF ReadCallback,
       IInv, TypeOK, QueueInOrder, PacketHeld,
       heapVars, flagVars, queryVars, bevVars, localVars, listVars
<1>4. CASE EventCallback
  <2>1. Goto("stream", "ev_cond")
    BY <1>4 DEF EventCallback
  <2> QED
    BY <1>4, <2>1, <1>t, <1>l, <1>r, GotoType DEF EventCallback,
       IInv, TypeOK, QueueInOrder, PacketHeld,
       heapVars, flagVars, queryVars, bevVars, localVars, listVars
<1>5. CASE RdCheck
  <2>1. Goto("stream", IF cond = 0 THEN "idle" ELSE "rd_enter")
    BY <1>5 DEF RdCheck, At
  <2> QED
    BY <1>5, <2>1, <1>t, <1>l, <1>r, GotoType DEF RdCheck, At,
       IInv, TypeOK, QueueInOrder, PacketHeld,
       heapVars, flagVars, queryVars, bevVars, localVars, listVars
<1>6. CASE RdEnter
  <2>1. Goto("stream", "rd_proc")
    BY <1>6 DEF RdEnter, At
  <2> QED
    BY <1>6, <2>1, <1>t, <1>l, <1>r, GotoType DEF RdEnter, At,
       IInv, TypeOK, QueueInOrder, PacketHeld,
       heapVars, flagVars, queryVars, bevVars, localVars, listVars
<1>7. CASE RdStop
  <2>1. Goto("stream", "rd_exit")
    BY <1>7 DEF RdStop, At
  <2> QED
    BY <1>7, <2>1, <1>t, <1>l, <1>r, GotoType DEF RdStop, At,
       IInv, TypeOK, QueueInOrder, PacketHeld,
       heapVars, flagVars, queryVars, bevVars, localVars, listVars
<1>8. CASE RdPacket
  <2>1. Goto("stream", "rd_add")
    BY <1>8 DEF RdPacket, At
  <2> QED
    BY <1>8, <2>1, <1>t, <1>l, <1>r, GotoType DEF RdPacket, QueryStarts, Packages, At,
       IInv, TypeOK, QueueInOrder, PacketHeld,
       heapVars, flagVars, queryVars, bevVars, localVars, listVars
<1>9. CASE ListAddNalu
  <2>1. pc' \in [Threads -> Labels] /\ pc'["stream"] = "rd_add"
    BY <1>9, <1>t, <1>l, WakeType DEF ListAddNalu, At
  <2>2. TypeOK' /\ PacketHeld'
    BY <1>9, <2>1 DEF ListAddNalu, At, IInv, TypeOK, PacketHeld, heapVars, flagVars,
       queryVars, bevVars
  <2>3. /\ Len(nalu_list) \in Nat
        /\ Len(nalu_list') = Len(nalu_list) + 1
        /\ nalu_list'[Len(nalu_list) + 1] = added + 1
        /\ \A i \in 1..Len(nalu_list) : nalu_list'[i] = nalu_list[i]
    BY <1>9 DEF ListAddNalu, IInv, TypeOK
  <2>4. \A i \in 1..Len(nalu_list') : nalu_list'[i] = added' - Len(nalu_list') + i
    <3>1. added \in Nat /\ added' = added + 1
      BY <1>9 DEF ListAddNalu, IInv, TypeOK
    <3>2. \A i \in 1..Len(nalu_list) : nalu_list[i] = added - Len(nalu_list) + i
      BY DEF IInv, QueueInOrder
    <3> TAKE i \in 1..Len(nalu_list')
    <3>3. CASE i = Len(nalu_list) + 1
      BY <2>3, <3>1, <3>3
    <3>4. CASE i \in 1..Len(nalu_list)
      BY <2>3, <3>1, <3>2, <3>4
    <3> QED
      BY <2>3, <3>3, <3>4
  <2>5. QueueInOrder'
    BY <1>9, <2>3, <2>4 DEF ListAddNalu, IInv, TypeOK, QueueInOrder
  <2> QED
    BY <2>2, <2>5 DEF IInv
<1>10. CASE RdNext
  <2>1. Goto("stream", IF batch - 1 > 0 /\ cond = 1 THEN "rd_proc" ELSE "rd_exit")
    BY <1>10 DEF RdNext, At
  <2> QED
    BY <1>10, <2>1, <1>t, <1>l, <1>r, GotoType DEF RdNext, At,
       IInv, TypeOK, QueueInOrder, PacketHeld,
       heapVars, flagVars, queryVars, bevVars, localVars, listVars
<1>11. CASE RdExit
  <2>1. Goto("stream", "idle")
    BY <1>11 DEF RdExit, At
  <2> QED
    BY <1>11, <2>1, <1>t, <1>l, <1>r, GotoType DEF RdExit, At,
       IInv, TypeOK, QueueInOrder, PacketHeld,
       heapVars, flagVars, queryVars, bevVars, localVars, listVars
<1>12. CASE EvCond
  <2>1. Goto("stream", "br")
    BY <1>12 DEF EvCond, At, DisableBev
  <2> QED
    BY <1>12, <2>1, <1>t, <1>l, <1>r, GotoType DEF EvCond, At, DisableBev,
       IInv, TypeOK, QueueInOrder, PacketHeld,
       heapVars, flagVars, queryVars, bevVars, localVars, listVars
<1>13. ASSUME NEW t \in Threads, CcCond(t) PROVE IInv'
  <2>1. Goto(t, "cc_wait")
    BY <1>13 DEF CcCond, At, DisableBev
  <2> QED
    BY <1>13, <2>1, <1>t, <1>l, <1>r, GotoType DEF CcCond, At, DisableBev,
       IInv, TypeOK, QueueInOrder, PacketHeld,
       heapVars, flagVars, queryVars, bevVars, localVars, listVars
<1>14. ASSUME NEW t \in Threads, CcWait(t) PROVE IInv'
  <2>1. Goto(t, IF t = "hbase" THEN "rl_cb" ELSE "br")
    BY <1>14 DEF CcWait, At
  <2> QED
    BY <1>14, <2>1, <1>t, <1>l, <1>r, GotoType DEF CcWait, At,
       IInv, TypeOK, QueueInOrder, PacketHeld,
       heapVars, flagVars, queryVars, bevVars, localVars, listVars
<1>15. ASSUME NEW t \in Threads, CloseBranch(t) PROVE IInv'
  <2>1. Goto(t, IF publish = 1 THEN "pe_get" ELSE "rl_cb")
    BY <1>15 DEF CloseBranch, At
  <2> QED
    BY <1>15, <2>1, <1>t, <1>l, <1>r, GotoType DEF CloseBranch, At,
       IInv, TypeOK, QueueInOrder, PacketHeld,
       heapVars, flagVars, queryVars, bevVars, localVars, listVars
<1>16. ASSUME NEW t \in Threads, PushEndGet(t) PROVE IInv'
  <2>1. Goto(t, IF publish = 1 THEN "pe_set" ELSE "pe_bcast")
    BY <1>16 DEF PushEndGet, At
  <2> QED
    BY <1>16, <2>1, <1>t, <1>l, <1>r, GotoType DEF PushEndGet, At,
       IInv, TypeOK, QueueInOrder, PacketHeld,
       heapVars, flagVars, queryVars, bevVars, localVars, listVars
<1>17. ASSUME NEW t \in Threads, PushEndSet(t) PROVE IInv'
  <2>1. Goto(t, "pe_null")
    BY <1>17 DEF PushEndSet, At
  <2> QED
    BY <1>17, <2>1, <1>t, <1>l, <1>r, GotoType DEF PushEndSet, At,
       IInv, TypeOK, QueueInOrder, PacketHeld,
       heapVars, flagVars, queryVars, bevVars, localVars, listVars
<1>18. ASSUME NEW t \in Threads, PushEndNull(t) PROVE IInv'
  <2>1. Goto(t, "pe_bcast")
    BY <1>18 DEF PushEndNull, At
  <2> QED
    BY <1>18, <2>1, <1>t, <1>l, <1>r, GotoType DEF PushEndNull, At,
       IInv, TypeOK, QueueInOrder, PacketHeld,
       heapVars, flagVars, queryVars, bevVars, localVars, listVars
<1>19. ASSUME NEW t \in Threads, PushEndBroadcast(t) PROVE IInv'
  <2>1. GotoAndWake(t, Return(t))
    BY <1>19 DEF PushEndBroadcast, At
  <2> QED
    BY <1>19, <2>1, <1>t, <1>l, <1>r, WakeType, ReturnType DEF PushEndBroadcast, At,
       IInv, TypeOK, QueueInOrder, PacketHeld,
       heapVars, flagVars, queryVars, bevVars, localVars, listVars
<1>20. ASSUME NEW t \in Threads, ReleaseCallback(t) PROVE IInv'
  <2>1. Goto(t, "rl_bev")
    BY <1>20 DEF ReleaseCallback, At
  <2> QED
    BY <1>20, <2>1, <1>t, <1>l, <1>r, GotoType DEF ReleaseCallback, At,
       IInv, TypeOK, QueueInOrder, PacketHeld,
       heapVars, flagVars, queryVars, bevVars, localVars, listVars
<1>21. ASSUME NEW t \in Threads, ReleaseBev(t) PROVE IInv'
  <2>1. Goto(t, "rl_clear")
    BY <1>21 DEF ReleaseBev, At
  <2> QED
    BY <1>21, <2>1, <1>t, <1>l, <1>r, GotoType DEF ReleaseBev, At,
       IInv, TypeOK, QueueInOrder, PacketHeld,
       heapVars, flagVars, queryVars, bevVars, localVars, listVars
<1>22. ASSUME NEW t \in Threads, ListClearOut(t) PROVE IInv'
  <2>1. Goto(t, "rl_delete")
    BY <1>22 DEF ListClearOut, At
  <2> QED
    BY <1>22, <2>1, <1>t, <1>l, <1>r, GotoType DEF ListClearOut, At,
       IInv, TypeOK, QueueInOrder, PacketHeld,
       heapVars, flagVars, queryVars, bevVars, localVars, listVars
<1>23. ASSUME NEW t \in Threads, ReleaseDelete(t) PROVE IInv'
  <2>1. Goto(t, Return(t))
    BY <1>23 DEF ReleaseDelete, At
  <2> QED
    BY <1>23, <2>1, <1>t, <1>l, <1>r, GotoType, ReturnType DEF ReleaseDelete, At,
       IInv, TypeOK, QueueInOrder, PacketHeld,
       heapVars, flagVars, queryVars, bevVars, localVars, listVars
<1>24. ASSUME NEW t \in Threads, UseFreed(t) PROVE IInv'
  <2>1. Goto(t, "dead")
    BY <1>24 DEF UseFreed
  <2> QED
    BY <1>24, <2>1, <1>t, <1>l, <1>r, GotoType DEF UseFreed,
       IInv, TypeOK, QueueInOrder, PacketHeld,
       heapVars, flagVars, queryVars, bevVars, localVars, listVars
<1>25. CASE QueryAnswer
  <2>1. PICK l \in {"ps_create", "cc_cond"} : Goto("hbase", l)
    BY <1>25 DEF QueryAnswer
  <2> QED
    BY <1>25, <2>1, <1>t, <1>l, <1>r, GotoType DEF QueryAnswer,
       IInv, TypeOK, QueueInOrder, PacketHeld,
       heapVars, flagVars, queryVars, bevVars, localVars, listVars
<1>26. CASE PushCreate
  <2>1. Goto("hbase", "ps_start")
    BY <1>26 DEF PushCreate, At
  <2> QED
    BY <1>26, <2>1, <1>t, <1>l, <1>r, GotoType DEF PushCreate, At,
       IInv, TypeOK, QueueInOrder, PacketHeld,
       heapVars, flagVars, queryVars, bevVars, localVars, listVars
<1>27. CASE PushStart
  <2>1. PICK l \in {"connect", "off"} :
          pc' = [pc EXCEPT !["hbase"] = "ps_id", !["pub"] = l]
    BY <1>27 DEF PushStart
  <2>2. pc' \in [Threads -> Labels] /\ pc'["stream"] = pc["stream"]
    BY <2>1, <1>t, <1>l DEF Threads
  <2> QED
    BY <1>27, <2>2 DEF PushStart, IInv, TypeOK, QueueInOrder, PacketHeld,
       heapVars, flagVars, queryVars, bevVars, localVars, listVars
<1>28. CASE PushJobId
  <2>1. Goto("hbase", "ps_attach")
    BY <1>28 DEF PushJobId, At
  <2> QED
    BY <1>28, <2>1, <1>t, <1>l, <1>r, GotoType DEF PushJobId, At,
       IInv, TypeOK, QueueInOrder, PacketHeld,
       heapVars, flagVars, queryVars, bevVars, localVars, listVars
<1>29. CASE PushAttach
  <2>1. Goto("hbase", "done")
    BY <1>29 DEF PushAttach, At
  <2> QED
    BY <1>29, <2>1, <1>t, <1>l, <1>r, GotoType DEF PushAttach, At,
       IInv, TypeOK, QueueInOrder, PacketHeld,
       heapVars, flagVars, queryVars, bevVars, localVars, listVars
<1>30. CASE PubConnect
  <2>1. Goto("pub", "main")
    BY <1>30 DEF PubConnect, At
  <2> QED
    BY <1>30, <2>1, <1>t, <1>l, <1>r, GotoType DEF PubConnect, At,
       IInv, TypeOK, QueueInOrder, PacketHeld,
       heapVars, flagVars, queryVars, bevVars, localVars, listVars
<1>31. CASE PubLoop
  <2>1. Goto("pub", IF pcond = 1 THEN "del_lock" ELSE "exit")
    BY <1>31 DEF PubLoop, At
  <2> QED
    BY <1>31, <2>1, <1>t, <1>l, <1>r, GotoType DEF PubLoop, At,
       IInv, TypeOK, QueueInOrder, PacketHeld,
       heapVars, flagVars, queryVars, bevVars, localVars, listVars
<1>32. CASE ListDelNalu
  <2>1. CASE PopNalu
    <3>1. nalu_list # <<>>
      BY <1>32, <2>1 DEF ListDelNalu, PopNalu, IInv, TypeOK, QueueInOrder, Goto, listVars
    <3> QED
      BY <1>32, <2>1, <3>1, PopIInv DEF ListDelNalu, At
  <2>2. CASE Goto("pub", "del_wait") /\ UNCHANGED listVars
    BY <1>32, <2>2, <1>t, <1>l, GotoType DEF ListDelNalu, IInv, TypeOK, QueueInOrder, PacketHeld,
       heapVars, flagVars, queryVars, bevVars, localVars, listVars
  <2> QED
    BY <1>32, <2>1, <2>2 DEF ListDelNalu
<1>33. CASE CondWait
  <2>1. Goto("pub", "waiting")
    BY <1>33 DEF CondWait, At
  <2> QED
    BY <1>33, <2>1, <1>t, <1>l, <1>r, GotoType DEF CondWait, At,
       IInv, TypeOK, QueueInOrder, PacketHeld,
       heapVars, flagVars, queryVars, bevVars, localVars, listVars
<1>34. CASE SpuriousWakeup
  <2>1. Goto("pub", "woken")
    BY <1>34 DEF SpuriousWakeup
  <2> QED
    BY <1>34, <2>1, <1>t, <1>l, <1>r, GotoType DEF SpuriousWakeup,
       IInv, TypeOK, QueueInOrder, PacketHeld,
       heapVars, flagVars, queryVars, bevVars, localVars, listVars
<1>35. CASE ListDelWoken
  <2>1. CASE PopNalu
    <3>1. nalu_list # <<>>
      BY <1>35, <2>1 DEF ListDelWoken, PopNalu, IInv, TypeOK, QueueInOrder, Goto, listVars
    <3> QED
      BY <1>35, <2>1, <3>1, PopIInv DEF ListDelWoken, At
  <2>2. CASE Goto("pub", "main") /\ UNCHANGED listVars
    BY <1>35, <2>2, <1>t, <1>l, GotoType DEF ListDelWoken, IInv, TypeOK, QueueInOrder, PacketHeld,
       heapVars, flagVars, queryVars, bevVars, localVars, listVars
  <2> QED
    BY <1>35, <2>1, <2>2 DEF ListDelWoken
<1>36. CASE PubSend
  <2>1. Goto("pub", "main")
    BY <1>36 DEF PubSend, At
  <2> QED
    BY <1>36, <2>1, <1>t, <1>l, <1>r, GotoType DEF PubSend, At,
       IInv, TypeOK, QueueInOrder, PacketHeld,
       heapVars, flagVars, queryVars, bevVars, localVars, listVars
<1>37. CASE PubSendFail
  <2>1. Goto("pub", "cc_cond")
    BY <1>37 DEF PubSendFail, At
  <2> QED
    BY <1>37, <2>1, <1>t, <1>l, <1>r, GotoType DEF PubSendFail, At,
       IInv, TypeOK, QueueInOrder, PacketHeld,
       heapVars, flagVars, queryVars, bevVars, localVars, listVars
<1>38. CASE PubExit
  <2>1. Goto("pub", "rl_cb")
    BY <1>38 DEF PubExit, At
  <2> QED
    BY <1>38, <2>1, <1>t, <1>l, <1>r, GotoType DEF PubExit, At,
       IInv, TypeOK, QueueInOrder, PacketHeld,
       heapVars, flagVars, queryVars, bevVars, localVars, listVars
<1>39. CASE UNCHANGED vars
  BY <1>39 DEF vars, IInv, TypeOK, QueueInOrder, PacketHeld,
     heapVars, flagVars, queryVars, bevVars, localVars, listVars
<1> QED
  BY <1>1, <1>2, <1>3, <1>4, <1>5, <1>6, <1>7, <1>8, <1>9, <1>10, <1>11, <1>12, <1>13, <1>14, <1>15, <1>16, <1>17, <1>18, <1>19, <1>20, <1>21, <1>22, <1>23, <1>24, <1>25, <1>26, <1>27, <1>28, <1>29, <1>30, <1>31, <1>32, <1>33, <1>34, <1>35, <1>36, <1>37, <1>38, <1>39, <1>t
  DEF Next, Peer, StreamThread, HbaseThread, PubThread, Closing

(* The session's variables keep their types, whatever the threads do.      *)
THEOREM TypeCorrect == Spec => []TypeOK
<1>1. IInv => TypeOK
  BY DEF IInv
<1> QED
  BY InitIInv, StepIInv, <1>1, PTL DEF Spec

(* list_add_nalu, list_del_nalu and list_clear_out keep the NALU list      *)
(* exact and in order under every interleaving of the three threads.       *)
THEOREM QueueCorrect == Spec => []QueueInOrder
<1>1. IInv => QueueInOrder
  BY DEF IInv
<1> QED
  BY InitIInv, StepIInv, <1>1, PTL DEF Spec
-----------------------------------------------------------------------------
(* The order of the stream.  From its start to its last pop the publisher  *)
(* sends what it pops, and pops the oldest package that was ever queued    *)
(* and not popped; whoever cuts this short has cleared the publisher's     *)
(* cond or is about to free the node.                                      *)

PushEndLabels == {"pe_get", "pe_set", "pe_null", "pe_bcast"}

(* The publisher is started once, by the answer of the query, and told to  *)
(* end only after rtmp_push_start stored it.                               *)
StartOrder ==
  /\ pc["hbase"] \in {"idle", "ps_create", "ps_start"} \cup CloseLabels \cup ReleaseLabels
       => pc["pub"] = "off"
  /\ publish = 1 => pc["hbase"] = "done"
  /\ pc["hbase"] # "br"
  /\ \A t \in Threads : pc[t] \in PushEndLabels => t # "hbase" /\ pc["hbase"] = "done"

(* rtmp_push_end returns only when the publisher's cond is cleared.        *)
EndOrder ==
  \A t \in Threads :
    /\ pc[t] \in {"pe_null", "pe_bcast"} => pcond = 0
    /\ pc[t] = "pe_get" => publish = 1 \/ pcond = 0

(* The publisher will take another package if there is one.                *)
WillPop ==
  pc["pub"] \in {"del_lock", "del_wait", "waiting", "woken"} \/ (pc["pub"] = "main" /\ pcond = 1)

SentWhatPopped ==
  /\ pc["pub"] \in {"off", "connect"} => lastSent = popped
  /\ node = "live" /\ WillPop => lastSent = popped
  /\ pc["pub"] = "send" => popped = lastSent + 1

OldestNext ==
  /\ node = "live"
  /\ \/ WillPop \/ pc["pub"] \in {"connect", "send"}
     \/ pc["hbase"] \in {"idle", "ps_create", "ps_start"}
  => \/ popped = added - Len(nalu_list)
     \/ pc["stream"] = "rl_delete" /\ nalu_list = <<>>

Ordered == StartOrder /\ EndOrder /\ SentWhatPopped /\ OldestNext

(* The list's head is the package after the last one popped, so that it is *)
(* popped next and will be sent next.                                      *)
LEMMA PopOrdered ==
  ASSUME IInv, Ordered, PopNalu, nalu_list # <<>>, node = "live",
         pc["pub"] \in {"del_lock", "woken"},
         UNCHANGED <<heapVars, flagVars, queryVars, bevVars, localVars>>
  PROVE  Ordered'
<1>1. /\ Len(nalu_list) \in Nat \ {0} /\ Len(nalu_list') = Len(nalu_list) - 1
      /\ popped' = nalu_list[1]
  BY DEF PopNalu, IInv, TypeOK
<1>2. /\ popped' = added - Len(nalu_list')
      /\ added \in Nat /\ added' = added
      /\ popped \in Nat /\ lastSent \in Nat /\ lastSent' = lastSent
  BY <1>1 DEF PopNalu, IInv, TypeOK, QueueInOrder
<1>3. lastSent = popped /\ popped = added - Len(nalu_list)
  BY DEF Ordered, SentWhatPopped, OldestNext, WillPop
<1>4. popped' = lastSent' + 1
  BY <1>1, <1>2, <1>3
<1>5. /\ pc \in [Threads -> Labels] /\ Threads = {"stream", "hbase", "pub"}
      /\ pc' = [pc EXCEPT !["pub"] = "send"]
  BY DEF PopNalu, Goto, IInv, TypeOK, Threads
<1>6. StartOrder' /\ EndOrder'
  BY <1>5 DEF Ordered, StartOrder, EndOrder, PushEndLabels, CloseLabels, ReleaseLabels, flagVars
<1> QED
  BY <1>2, <1>4, <1>5, <1>6 DEF Ordered, SentWhatPopped, OldestNext, WillPop

(* Every step of Next keeps the order of the stream.                       *)
LEMMA StepOrdered == ASSUME IInv, Ordered, Next PROVE Ordered'
<1>t. /\ pc \in [Threads -> Labels] /\ Threads = {"stream", "hbase", "pub"}
      /\ popped \in Nat /\ lastSent \in Nat /\ added \in Nat
  BY DEF IInv, TypeOK, Threads
<1> USE DEF Ordered, StartOrder, EndOrder, SentWhatPopped, OldestNext, WillPop,
            PushEndLabels, CloseLabels, ReleaseLabels
<1>1. CASE PeerClose
  BY <1>1, <1>t DEF PeerClose, heapVars, flagVars, queryVars, localVars, listVars
<1>2. ASSUME NEW k \in Kinds, Receive(k) PROVE Ordered'
  BY <1>2, <1>t DEF Receive, heapVars, flagVars, queryVars, localVars, listVars
<1>3. CASE ReadCallback
  BY <1>3, <1>t DEF ReadCallback, Goto, heapVars, flagVars, queryVars, localVars,
     listVars
<1>4. CASE EventCallback
  BY <1>4, <1>t DEF EventCallback, Goto, heapVars, flagVars, queryVars, localVars,
     listVars
<1>5. CASE RdCheck
  BY <1>5, <1>t DEF RdCheck, At, NodeUse, PubUse, Goto, heapVars, flagVars, queryVars,
     bevVars, localVars, listVars
<1>6. CASE RdEnter
  BY <1>6, <1>t DEF RdEnter, At, NodeUse, PubUse, Goto, heapVars, queryVars, bevVars,
     listVars
<1>7. CASE RdStop
  BY <1>7, <1>t DEF RdStop, At, NodeUse, PubUse, Goto, heapVars, flagVars, queryVars,
     bevVars, localVars, listVars
<1>8. CASE RdPacket
  BY <1>8, <1>t DEF RdPacket, At, NodeUse, PubUse, Goto, QueryStarts, heapVars,
     flagVars, bevVars, listVars
<1>9. CASE ListAddNalu
  BY <1>9, <1>t DEF ListAddNalu, At, NodeUse, PubUse, GotoAndWake, MutexFree, heapVars,
     flagVars, queryVars, bevVars
<1>10. CASE RdNext
  BY <1>10, <1>t DEF RdNext, At, NodeUse, PubUse, Goto, heapVars, flagVars, queryVars,
     listVars
<1>11. CASE RdExit
  BY <1>11, <1>t DEF RdExit, At, NodeUse, PubUse, Goto, heapVars, queryVars, bevVars,
     localVars, listVars
<1>12. CASE EvCond
  BY <1>12, <1>t DEF EvCond, At, NodeUse, PubUse, DisableBev, Goto, heapVars, queryVars,
     localVars, listVars
<1>13. ASSUME NEW t \in Threads, CcCond(t) PROVE Ordered'
  BY <1>13, <1>t DEF CcCond, At, NodeUse, PubUse, DisableBev, Goto, heapVars, queryVars,
     localVars, listVars
<1>14. ASSUME NEW t \in Threads, CcWait(t) PROVE Ordered'
  BY <1>14, <1>t DEF CcWait, At, NodeUse, PubUse, Goto, heapVars, flagVars, queryVars,
     bevVars, localVars, listVars
<1>15. ASSUME NEW t \in Threads, CloseBranch(t) PROVE Ordered'
  BY <1>15, <1>t DEF CloseBranch, At, NodeUse, PubUse, Goto, heapVars, flagVars,
     queryVars, bevVars, localVars, listVars
<1>16. ASSUME NEW t \in Threads, PushEndGet(t) PROVE Ordered'
  BY <1>16, <1>t DEF PushEndGet, At, NodeUse, PubUse, Goto, heapVars, flagVars,
     queryVars, bevVars, localVars, listVars
<1>17. ASSUME NEW t \in Threads, PushEndSet(t) PROVE Ordered'
  BY <1>17, <1>t DEF PushEndSet, At, NodeUse, PubUse, Goto, heapVars, queryVars,
     bevVars, localVars, listVars
<1>18. ASSUME NEW t \in Threads, PushEndNull(t) PROVE Ordered'
  BY <1>18, <1>t DEF PushEndNull, At, NodeUse, PubUse, Goto, heapVars, queryVars,
     bevVars, localVars, listVars
<1>19. ASSUME NEW t \in Threads, PushEndBroadcast(t) PROVE Ordered'
  BY <1>19, <1>t DEF PushEndBroadcast, At, NodeUse, PubUse, GotoAndWake, Return,
     heapVars, flagVars, queryVars, bevVars, localVars, listVars
<1>20. ASSUME NEW t \in Threads, ReleaseCallback(t) PROVE Ordered'
  BY <1>20, <1>t DEF ReleaseCallback, At, NodeUse, PubUse, Goto, heapVars, queryVars,
     bevVars, localVars, listVars
<1>21. ASSUME NEW t \in Threads, ReleaseBev(t) PROVE Ordered'
  BY <1>21, <1>t DEF ReleaseBev, At, NodeUse, PubUse, Goto, heapVars, flagVars,
     queryVars, localVars, listVars
<1>22. ASSUME NEW t \in Threads, ListClearOut(t) PROVE Ordered'
  BY <1>22, <1>t DEF ListClearOut, At, NodeUse, PubUse, Goto, MutexFree, heapVars,
     flagVars, queryVars, bevVars, localVars
<1>23. ASSUME NEW t \in Threads, ReleaseDelete(t) PROVE Ordered'
  BY <1>23, <1>t DEF ReleaseDelete, At, NodeUse, PubUse, Goto, Return, flagVars,
     queryVars, bevVars, localVars, listVars
<1>24. ASSUME NEW t \in Threads, UseFreed(t) PROVE Ordered'
  BY <1>24, <1>t DEF UseFreed, NodeUse, PubUse, Goto, flagVars, queryVars, bevVars,
     localVars, listVars
<1>25. CASE QueryAnswer
  BY <1>25, <1>t DEF QueryAnswer, Goto, heapVars, flagVars, bevVars, localVars, listVars
<1>26. CASE PushCreate
  BY <1>26, <1>t DEF PushCreate, At, NodeUse, PubUse, Goto, queryVars, bevVars,
     localVars, listVars
<1>27. CASE PushStart
  BY <1>27, <1>t DEF PushStart, heapVars, flagVars, queryVars, bevVars, localVars,
     listVars
<1>28. CASE PushJobId
  BY <1>28, <1>t DEF PushJobId, At, NodeUse, PubUse, Goto, heapVars, flagVars,
     queryVars, bevVars, localVars, listVars
<1>29. CASE PushAttach
  BY <1>29, <1>t DEF PushAttach, At, NodeUse, PubUse, Goto, heapVars, queryVars,
     bevVars, localVars, listVars
<1>30. CASE PubConnect
  BY <1>30, <1>t DEF PubConnect, At, NodeUse, PubUse, Goto, heapVars, queryVars,
     bevVars, localVars, listVars
<1>31. CASE PubLoop
  BY <1>31, <1>t DEF PubLoop, At, NodeUse, PubUse, Goto, heapVars, flagVars, queryVars,
     bevVars, localVars, listVars
<1>32. CASE ListDelNalu
  <2>1. CASE PopNalu
    <3>1. nalu_list # <<>>
      BY <1>32, <2>1 DEF ListDelNalu, PopNalu, IInv, TypeOK, QueueInOrder, Goto, listVars
    <3>2. node = "live" /\ pc["pub"] \in {"del_lock", "woken"}
      BY <1>32 DEF ListDelNalu, At, NodeUse
    <3>3. UNCHANGED <<heapVars, flagVars, queryVars, bevVars, localVars>>
      BY <1>32 DEF ListDelNalu
    <3> HIDE DEF Ordered
    <3> QED
      BY <2>1, <3>1, <3>2, <3>3, PopOrdered
  <2>2. CASE Goto("pub", "del_wait") /\ UNCHANGED listVars
    BY <1>32, <2>2, <1>t DEF ListDelNalu, At, Goto, heapVars, flagVars, listVars
  <2> QED
    BY <1>32, <2>1, <2>2 DEF ListDelNalu
<1>33. CASE CondWait
  BY <1>33, <1>t DEF CondWait, At, NodeUse, PubUse, Goto, heapVars, flagVars, queryVars,
     bevVars, localVars, listVars
<1>34. CASE SpuriousWakeup
  BY <1>34, <1>t DEF SpuriousWakeup, Goto, heapVars, flagVars, queryVars, bevVars,
     localVars, listVars
<1>35. CASE ListDelWoken
  <2>1. CASE PopNalu
    <3>1. nalu_list # <<>>
      BY <1>35, <2>1 DEF ListDelWoken, PopNalu, IInv, TypeOK, QueueInOrder, Goto, listVars
    <3>2. node = "live" /\ pc["pub"] \in {"del_lock", "woken"}
      BY <1>35 DEF ListDelWoken, At, NodeUse
    <3>3. UNCHANGED <<heapVars, flagVars, queryVars, bevVars, localVars>>
      BY <1>35 DEF ListDelWoken
    <3> HIDE DEF Ordered
    <3> QED
      BY <2>1, <3>1, <3>2, <3>3, PopOrdered
  <2>2. CASE Goto("pub", "main") /\ UNCHANGED listVars
    BY <1>35, <2>2, <1>t DEF ListDelWoken, At, Goto, heapVars, flagVars, listVars
  <2> QED
    BY <1>35, <2>1, <2>2 DEF ListDelWoken
<1>36. CASE PubSend
  BY <1>36, <1>t DEF PubSend, At, NodeUse, PubUse, Goto, heapVars, flagVars, queryVars,
     bevVars, localVars
<1>37. CASE PubSendFail
  BY <1>37, <1>t DEF PubSendFail, At, NodeUse, PubUse, Goto, heapVars, flagVars,
     queryVars, bevVars, localVars, listVars
<1>38. CASE PubExit
  BY <1>38, <1>t DEF PubExit, At, NodeUse, PubUse, Goto, queryVars, bevVars, localVars,
     listVars
<1> QED
  BY <1>1, <1>2, <1>3, <1>4, <1>5, <1>6, <1>7, <1>8, <1>9, <1>10, <1>11, <1>12, <1>13,
     <1>14, <1>15, <1>16, <1>17, <1>18, <1>19, <1>20, <1>21, <1>22, <1>23, <1>24, <1>25,
     <1>26, <1>27, <1>28, <1>29, <1>30, <1>31, <1>32, <1>33, <1>34, <1>35, <1>36, <1>37,
     <1>38, <1>t DEF Next, Peer, StreamThread, HbaseThread, PubThread, Closing

(* A session without a publisher has sent nothing and queued nothing yet.  *)
LEMMA InitOrdered == Init => Ordered
<1> SUFFICES ASSUME Init PROVE Ordered
  OBVIOUS
<1>1. /\ pc["stream"] = "idle" /\ pc["hbase"] = "idle" /\ pc["pub"] = "off"
      /\ Threads = {"stream", "hbase", "pub"}
  BY DEF Init, Threads
<1>2. StartOrder /\ EndOrder
  BY <1>1 DEF Init, StartOrder, EndOrder, PushEndLabels
<1>3. lastSent = popped /\ popped = 0 /\ added = 0 /\ Len(nalu_list) = 0
  BY DEF Init
<1>4. popped = added - Len(nalu_list)
  BY <1>3
<1>5. SentWhatPopped /\ OldestNext
  BY <1>1, <1>3, <1>4 DEF SentWhatPopped, OldestNext, WillPop
<1> QED
  BY <1>2, <1>5 DEF Ordered

(* The order of the stream is an invariant of every behaviour.             *)
LEMMA OrderInvariant == Spec => [](IInv /\ Ordered)
<1>1. Init => IInv /\ Ordered
  BY InitIInv, InitOrdered
<1>2. IInv /\ Ordered /\ [Next]_vars => (IInv /\ Ordered)'
  <2> SUFFICES ASSUME IInv, Ordered, [Next]_vars PROVE IInv' /\ Ordered'
    OBVIOUS
  <2>1. IInv'
    BY StepIInv
  <2>2. CASE UNCHANGED vars
    BY <2>1, <2>2 DEF vars, heapVars, flagVars, listVars, Ordered, StartOrder, EndOrder,
       SentWhatPopped, OldestNext, WillPop
  <2> QED
    BY <2>1, <2>2, StepOrdered
<1> QED
  BY <1>1, <1>2, PTL DEF Spec

(* list_del_nalu and list_traverse: what reaches the RTMP server has no    *)
(* gap and no repetition, in every interleaving of the three threads.      *)
THEOREM GaplessCorrect == Spec => GaplessStream
<1>1. IInv /\ Ordered /\ [Next]_vars => [lastSent' = lastSent + 1]_lastSent
  <2> SUFFICES ASSUME IInv, Ordered, [Next]_vars, lastSent' # lastSent
               PROVE  lastSent' = lastSent + 1
    OBVIOUS
  <2>1. PubSend
    BY DEF vars, listVars, Next, Peer, StreamThread, HbaseThread, PubThread, Closing,
       PeerClose, Receive, ReadCallback, EventCallback, RdCheck, RdEnter, RdStop, RdPacket,
       ListAddNalu, RdNext, RdExit, EvCond, CcCond, CcWait, CloseBranch, PushEndGet,
       PushEndSet, PushEndNull, PushEndBroadcast, ReleaseCallback, ReleaseBev, ListClearOut,
       ReleaseDelete, UseFreed, QueryAnswer, PushCreate, PushStart, PushJobId, PushAttach,
       PubConnect, PubLoop, ListDelNalu, PopNalu, CondWait, SpuriousWakeup, ListDelWoken,
       PubSendFail, PubExit
  <2> QED
    BY <2>1 DEF PubSend, At, Ordered, SentWhatPopped
<1> QED
  BY OrderInvariant, <1>1, PTL DEF Spec, GaplessStream

-----------------------------------------------------------------------------
(* Without a memory window.  The flags and the order of the closing code   *)
(* then let one thread at a time decide the session's end, and a session   *)
(* is always in one of six phases.                                         *)

Reading == {"rd_check", "rd_enter", "rd_proc", "rd_add", "rd_exit"}
Working == {"connect", "main", "del_lock", "del_wait", "waiting", "woken", "send"}

(* How far h264_stream_release is, by the label of the thread that runs it.*)
Fresh == node = "live" /\ decs = 0 /\ bev # "freed"

Releasing(l) ==
  \/ l = "rl_cb" /\ Fresh
  \/ l = "rl_bev" /\ node = "live" /\ decs = 1 /\ bev # "freed"
  \/ l \in {"rl_clear", "rl_delete"} /\ node = "live" /\ decs = 1 /\ bev = "freed"

Gone == node = "freed" /\ decs = 1 /\ bev = "freed"

(* How far url_query_callback is with the publisher.                       *)
Unpublished == pub = "none" /\ publish = 0 /\ pc["pub"] = "off"
Publishing ==
  \/ pc["hbase"] \in {"ps_id", "ps_attach"} /\ pub = "live" /\ pcond = 1 /\ publish = 0
  \/ pc["hbase"] = "done" /\ pub = "live" /\ pcond = 1 /\ publish = 1

(* Nobody has closed the session yet.                                      *)
PhaseOpen ==
  /\ cond = 1 /\ Fresh
  /\ pc["stream"] \in {"idle", "ev_cond"} \cup Reading
  /\ pc["pub"] \in {"off", "cc_cond"} \cup Working
  /\ \/ pc["hbase"] \in {"idle", "ps_create", "cc_cond"} /\ Unpublished
     \/ /\ pc["hbase"] = "ps_start" /\ pub = "live" /\ pcond = 1
        /\ publish = 0 /\ pc["pub"] = "off"
     \/ Publishing

(* The failed query closes it: there is no publisher.                      *)
PhaseQuery ==
  /\ cond = 0 /\ Unpublished
  /\ \/ pc["hbase"] = "cc_wait" /\ Fresh /\ pc["stream"] \in {"idle"} \cup Reading
     \/ pc["hbase"] \in ReleaseLabels /\ Releasing(pc["hbase"]) /\ pc["stream"] = "idle"
     \/ pc["hbase"] = "done" /\ Gone /\ pc["stream"] = "idle"

(* The failed send closes it, and ends its own publisher.                  *)
PhaseSend ==
  /\ cond = 0 /\ Fresh /\ pub = "live"
  /\ \/ pc["pub"] = "cc_wait" /\ Publishing /\ pc["stream"] \in {"idle"} \cup Reading
     \/ /\ pc["hbase"] = "done" /\ pc["stream"] = "idle"
        /\ \/ pc["pub"] \in {"br", "pe_get", "pe_set"} /\ publish = 1
           \/ pc["pub"] = "pe_null" /\ publish = 1 /\ pcond = 0
           \/ pc["pub"] = "pe_bcast" /\ publish = 0 /\ pcond = 0

(* The peer closes it before there is a query under way.                   *)
PhaseAlone ==
  /\ cond = 0 /\ pc["hbase"] = "idle" /\ query # "pending" /\ Unpublished
  /\ \/ pc["stream"] = "br" /\ Fresh
     \/ pc["stream"] \in ReleaseLabels /\ Releasing(pc["stream"])
     \/ pc["stream"] = "idle" /\ Gone

(* The peer closes it and ends the publisher.                              *)
PhasePeer ==
  /\ cond = 0 /\ pc["hbase"] = "done" /\ pub = "live" /\ Fresh
  /\ \/ /\ pc["stream"] \in {"br", "pe_get", "pe_set"} /\ publish = 1 /\ pcond = 1
        /\ pc["pub"] \in {"off"} \cup Working
     \/ /\ pc["stream"] = "pe_null" /\ publish = 1 /\ pcond = 0
        /\ pc["pub"] \in {"off", "exit"} \cup Working
     \/ /\ pc["stream"] = "pe_bcast" /\ publish = 0 /\ pcond = 0
        /\ pc["pub"] \in {"off", "exit"} \cup Working

(* The publisher was told to end, and releases the session when it does.   *)
PhaseEnding ==
  /\ cond = 0 /\ pc["hbase"] = "done" /\ publish = 0 /\ pcond = 0
  /\ \/ /\ pub = "live" /\ Fresh /\ pc["pub"] \in {"off", "exit"} \cup Working
        /\ pc["stream"] \in {"idle", "rd_check"}
     \/ /\ pub = "freed" /\ pc["stream"] = "idle"
        /\ \/ pc["pub"] \in ReleaseLabels /\ Releasing(pc["pub"])
           \/ pc["pub"] = "done" /\ Gone

InPhase ==
  PhaseOpen \/ PhaseQuery \/ PhaseSend \/ PhaseAlone \/ PhasePeer \/ PhaseEnding

(* No memory window is open; none has been open so far.                    *)
NoWindow == ~ReleasedBeforeAttach /\ ~ClosedTwice /\ ~PushEndOvertaken /\ ~HandlerEntered

Calm == raced \cap MemoryWindows = {}

RInv == IInv /\ (Calm => fault = 0 /\ InPhase)

(* A step that opens no memory window leads from a phase to a phase, and   *)
(* touches nothing that was freed.                                         *)
LEMMA PhaseStep ==
  ASSUME IInv, InPhase, NoWindow', Next
  PROVE  InPhase' /\ fault' = fault
<1>t. pc \in [Threads -> Labels] /\ Threads = {"stream", "hbase", "pub"}
  BY DEF IInv, TypeOK, Threads
<1> USE DEF InPhase, PhaseOpen, PhaseQuery, PhaseSend, PhaseAlone, PhasePeer, PhaseEnding,
            Fresh, Releasing, Gone, Unpublished, Publishing, Reading, Working, ReleaseLabels
<1>1. CASE PeerClose
  BY <1>1, <1>t DEF PeerClose, heapVars, flagVars, queryVars, localVars, listVars
<1>2. ASSUME NEW k \in Kinds, Receive(k) PROVE InPhase' /\ fault' = fault
  BY <1>2, <1>t DEF Receive, heapVars, flagVars, queryVars, localVars, listVars
<1>3. CASE ReadCallback
  BY <1>3, <1>t DEF ReadCallback, Goto, heapVars, flagVars, queryVars, localVars,
     listVars, NoWindow, HandlerEntered, ClosingPart, CloseLabels
<1>4. CASE EventCallback
  BY <1>4, <1>t DEF EventCallback, Goto, heapVars, flagVars, queryVars, localVars,
     listVars, NoWindow, ClosedTwice
<1>5. CASE RdCheck
  BY <1>5, <1>t DEF RdCheck, At, NodeUse, PubUse, Goto, heapVars, flagVars, queryVars,
     bevVars, localVars, listVars
<1>6. CASE RdEnter
  BY <1>6, <1>t DEF RdEnter, At, NodeUse, PubUse, Goto, heapVars, queryVars, bevVars,
     listVars
<1>7. CASE RdStop
  BY <1>7, <1>t DEF RdStop, At, NodeUse, PubUse, Goto, heapVars, flagVars, queryVars,
     bevVars, localVars, listVars
<1>8. CASE RdPacket
  BY <1>8, <1>t DEF RdPacket, At, NodeUse, PubUse, Goto, QueryStarts, heapVars,
     flagVars, bevVars, listVars
<1>9. CASE ListAddNalu
  BY <1>9, <1>t DEF ListAddNalu, At, NodeUse, PubUse, GotoAndWake, MutexFree, heapVars,
     flagVars, queryVars, bevVars
<1>10. CASE RdNext
  BY <1>10, <1>t DEF RdNext, At, NodeUse, PubUse, Goto, heapVars, flagVars, queryVars,
     listVars
<1>11. CASE RdExit
  BY <1>11, <1>t DEF RdExit, At, NodeUse, PubUse, Goto, heapVars, queryVars, bevVars,
     localVars, listVars
<1>12. CASE EvCond
  BY <1>12, <1>t DEF EvCond, At, NodeUse, PubUse, DisableBev, Goto, heapVars, queryVars,
     localVars, listVars, NoWindow, ReleasedBeforeAttach, OwnedElsewhere, ClosedTwice
<1>13. ASSUME NEW t \in Threads, CcCond(t) PROVE InPhase' /\ fault' = fault
  BY <1>13, <1>t DEF CcCond, At, NodeUse, PubUse, DisableBev, Goto, heapVars, queryVars,
     localVars, listVars, NoWindow, ClosedTwice
<1>14. ASSUME NEW t \in Threads, CcWait(t) PROVE InPhase' /\ fault' = fault
  BY <1>14, <1>t DEF CcWait, At, NodeUse, PubUse, Goto, heapVars, flagVars, queryVars,
     bevVars, localVars, listVars, NoWindow, ReleasedBeforeAttach, OwnedElsewhere,
     HandlerEntered, ClosingPart, CloseLabels
<1>15. ASSUME NEW t \in Threads, CloseBranch(t) PROVE InPhase' /\ fault' = fault
  BY <1>15, <1>t DEF CloseBranch, At, NodeUse, PubUse, Goto, heapVars, flagVars,
     queryVars, bevVars, localVars, listVars
<1>16. ASSUME NEW t \in Threads, PushEndGet(t) PROVE InPhase' /\ fault' = fault
  BY <1>16, <1>t DEF PushEndGet, At, NodeUse, PubUse, Goto, heapVars, flagVars,
     queryVars, bevVars, localVars, listVars
<1>17. ASSUME NEW t \in Threads, PushEndSet(t) PROVE InPhase' /\ fault' = fault
  BY <1>17, <1>t DEF PushEndSet, At, NodeUse, PubUse, Goto, heapVars, queryVars,
     bevVars, localVars, listVars
<1>18. ASSUME NEW t \in Threads, PushEndNull(t) PROVE InPhase' /\ fault' = fault
  BY <1>18, <1>t DEF PushEndNull, At, NodeUse, PubUse, Goto, heapVars, queryVars,
     bevVars, localVars, listVars
<1>19. ASSUME NEW t \in Threads, PushEndBroadcast(t) PROVE InPhase' /\ fault' = fault
  BY <1>19, <1>t DEF PushEndBroadcast, At, NodeUse, PubUse, GotoAndWake, Return,
     heapVars, flagVars, queryVars, bevVars, localVars, listVars
<1>20. ASSUME NEW t \in Threads, ReleaseCallback(t) PROVE InPhase' /\ fault' = fault
  BY <1>20, <1>t DEF ReleaseCallback, At, NodeUse, PubUse, Goto, heapVars, queryVars,
     bevVars, localVars, listVars
<1>21. ASSUME NEW t \in Threads, ReleaseBev(t) PROVE InPhase' /\ fault' = fault
  BY <1>21, <1>t DEF ReleaseBev, At, NodeUse, PubUse, Goto, heapVars, flagVars,
     queryVars, localVars, listVars
<1>22. ASSUME NEW t \in Threads, ListClearOut(t) PROVE InPhase' /\ fault' = fault
  BY <1>22, <1>t DEF ListClearOut, At, NodeUse, PubUse, Goto, MutexFree, heapVars,
     flagVars, queryVars, bevVars, localVars
<1>23. ASSUME NEW t \in Threads, ReleaseDelete(t) PROVE InPhase' /\ fault' = fault
  BY <1>23, <1>t DEF ReleaseDelete, At, NodeUse, PubUse, Goto, Return, flagVars,
     queryVars, bevVars, localVars, listVars
<1>24. ASSUME NEW t \in Threads, UseFreed(t) PROVE InPhase' /\ fault' = fault
  BY <1>24, <1>t DEF UseFreed, NodeUse, PubUse, Goto, flagVars, queryVars, bevVars,
     localVars, listVars, CloseLabels
<1>25. CASE QueryAnswer
  BY <1>25, <1>t DEF QueryAnswer, Goto, heapVars, flagVars, bevVars, localVars, listVars
<1>26. CASE PushCreate
  BY <1>26, <1>t DEF PushCreate, At, NodeUse, PubUse, Goto, queryVars, bevVars,
     localVars, listVars
<1>27. CASE PushStart
  BY <1>27, <1>t DEF PushStart, heapVars, flagVars, queryVars, bevVars, localVars,
     listVars
<1>28. CASE PushJobId
  BY <1>28, <1>t DEF PushJobId, At, NodeUse, PubUse, Goto, heapVars, flagVars,
     queryVars, bevVars, localVars, listVars
<1>29. CASE PushAttach
  BY <1>29, <1>t DEF PushAttach, At, NodeUse, PubUse, Goto, heapVars, queryVars,
     bevVars, localVars, listVars
<1>30. CASE PubConnect
  BY <1>30, <1>t DEF PubConnect, At, NodeUse, PubUse, Goto, heapVars, queryVars,
     bevVars, localVars, listVars
<1>31. CASE PubLoop
  BY <1>31, <1>t DEF PubLoop, At, NodeUse, PubUse, Goto, heapVars, flagVars, queryVars,
     bevVars, localVars, listVars
<1>32. CASE ListDelNalu
  BY <1>32, <1>t DEF ListDelNalu, At, NodeUse, PubUse, Goto, PopNalu, heapVars,
     flagVars, queryVars, bevVars, localVars, listVars
<1>33. CASE CondWait
  BY <1>33, <1>t DEF CondWait, At, NodeUse, PubUse, Goto, heapVars, flagVars, queryVars,
     bevVars, localVars, listVars
<1>34. CASE SpuriousWakeup
  BY <1>34, <1>t DEF SpuriousWakeup, Goto, heapVars, flagVars, queryVars, bevVars,
     localVars, listVars
<1>35. CASE ListDelWoken
  BY <1>35, <1>t DEF ListDelWoken, At, NodeUse, PubUse, Goto, PopNalu, heapVars,
     flagVars, queryVars, bevVars, localVars, listVars
<1>36. CASE PubSend
  BY <1>36, <1>t DEF PubSend, At, NodeUse, PubUse, Goto, heapVars, flagVars, queryVars,
     bevVars, localVars
<1>37. CASE PubSendFail
  BY <1>37, <1>t DEF PubSendFail, At, NodeUse, PubUse, Goto, heapVars, flagVars,
     queryVars, bevVars, localVars, listVars, NoWindow, ClosedTwice
<1>38. CASE PubExit
  BY <1>38, <1>t DEF PubExit, At, NodeUse, PubUse, Goto, queryVars, bevVars, localVars,
     listVars, NoWindow, PushEndOvertaken, HandlerEntered, ClosingPart, CloseLabels
<1> QED
  BY <1>1, <1>2, <1>3, <1>4, <1>5, <1>6, <1>7, <1>8, <1>9, <1>10, <1>11, <1>12, <1>13,
     <1>14, <1>15, <1>16, <1>17, <1>18, <1>19, <1>20, <1>21, <1>22, <1>23, <1>24, <1>25,
     <1>26, <1>27, <1>28, <1>29, <1>30, <1>31, <1>32, <1>33, <1>34, <1>35, <1>36, <1>37,
     <1>38, <1>t DEF Next, Peer, StreamThread, HbaseThread, PubThread, Closing

(* The history variable records every memory window that is open after a   *)
(* step, and forgets none.                                                 *)
LEMMA WatchCalm ==
  ASSUME Watch, Calm'
  PROVE  Calm /\ NoWindow'
<1>1. raced' = raced \cup {w \in MemoryWindows \cup {"wakeup_lost"} : Open(w)'}
  BY DEF Watch
<1>2. \A w \in MemoryWindows : ~Open(w)'
  BY <1>1 DEF Calm
<1>3. Calm
  BY <1>1 DEF Calm
<1>4. ~ReleasedBeforeAttach'
  BY <1>2 DEF MemoryWindows, Open
<1>5. ~ClosedTwice'
  BY <1>2 DEF MemoryWindows, Open
<1>6. ~PushEndOvertaken'
  BY <1>2 DEF MemoryWindows, Open
<1>7. ~HandlerEntered'
  BY <1>2 DEF MemoryWindows, Open
<1> QED
  BY <1>3, <1>4, <1>5, <1>6, <1>7 DEF NoWindow

(* Without a memory window a session is always in a phase and no thread    *)
(* has touched freed memory.                                               *)
LEMMA RaceInvariant == MInit /\ [][MNext]_mvars => []RInv
<1>1. MInit => RInv
  <2> SUFFICES ASSUME MInit PROVE RInv
    OBVIOUS
  <2>1. IInv
    BY InitIInv DEF MInit
  <2>2. PhaseOpen
    BY DEF MInit, Init, PhaseOpen, Fresh, Unpublished, Reading, Working, Threads
  <2> QED
    BY <2>1, <2>2 DEF RInv, InPhase, MInit, Init
<1>2. RInv /\ [MNext]_mvars => RInv'
  <2> SUFFICES ASSUME RInv, [MNext]_mvars PROVE RInv'
    OBVIOUS
  <2>1. IInv'
    BY StepIInv DEF RInv, MNext, mvars
  <2>2. CASE UNCHANGED mvars
    <3>1. UNCHANGED <<node, pub, cond, publish, pcond, query, bev, decs, fault, pc, raced>>
      BY <2>2 DEF mvars, vars, heapVars, flagVars, queryVars, bevVars
    <3>2. InPhase => InPhase'
      BY <3>1 DEF InPhase, PhaseOpen, PhaseQuery, PhaseSend, PhaseAlone, PhasePeer,
         PhaseEnding, Fresh, Releasing, Gone, Unpublished, Publishing
    <3> QED
      BY <2>1, <3>1, <3>2 DEF RInv, Calm
  <2>3. CASE MNext
    <3> SUFFICES ASSUME Calm' PROVE fault' = 0 /\ InPhase'
      BY <2>1 DEF RInv
    <3>1. Calm /\ NoWindow'
      BY <2>3, WatchCalm DEF MNext
    <3>2. IInv /\ InPhase /\ fault = 0
      BY <3>1 DEF RInv
    <3> QED
      BY <2>3, <3>1, <3>2, PhaseStep DEF MNext
  <2> QED
    BY <2>2, <2>3
<1> QED
  BY <1>1, <1>2, PTL

(* The flags cond, running and publish and the order of the closing code   *)
(* keep every thread away from freed memory, unless a memory window was    *)
(* open (h264_stream_release, rtmp_publish_release, rtmp_push_end).        *)
THEOREM FaultCorrect == MSpec => []FaultNeedsRace
<1>1. RInv => FaultNeedsRace
  BY DEF RInv, Calm, FaultNeedsRace
<1> QED
  BY RaceInvariant, <1>1, PTL DEF MSpec

(* h264_stream_release: a session is counted out at most once, and only a  *)
(* session counted out is freed, unless a memory window was open.          *)
THEOREM ReleaseCorrect == MSpec => []ReleasedOnceUnlessRaced
<1>1. RInv => ReleasedOnceUnlessRaced
  BY DEF RInv, Calm, ReleasedOnceUnlessRaced, InPhase, PhaseOpen, PhaseQuery, PhaseSend,
     PhaseAlone, PhasePeer, PhaseEnding, Fresh, Releasing, Gone, ReleaseLabels
<1> QED
  BY RaceInvariant, <1>1, PTL DEF MSpec

(* Watching restrains no step: every watched behaviour is one of Spec, so  *)
(* that the list is in order and the stream gapless there too.             *)
THEOREM WatchedIsSession == MSpec => Spec /\ []QueueInOrder /\ GaplessStream
<1>1. MInit => Init
  BY DEF MInit
<1>2. [MNext]_mvars => [Next]_vars
  BY DEF MNext, mvars
<1>3. MSpec => Spec
  BY <1>1, <1>2, PTL DEF MSpec, Spec
<1> QED
  BY <1>3, QueueCorrect, GaplessCorrect, PTL

-----------------------------------------------------------------------------
(* The session keeps the promise of SessionLife.                           *)

(* As long as none was open, none is open.                                 *)
WInv == Calm => NoWindow

(* No window is open at first.                                             *)
LEMMA InitWInv == MInit => WInv
<1> SUFFICES ASSUME MInit PROVE NoWindow
  BY DEF WInv
<1>1. /\ pc["stream"] = "idle" /\ pc["hbase"] = "idle" /\ pc["pub"] = "off"
      /\ Threads = {"stream", "hbase", "pub"}
  BY DEF MInit, Init, Threads
<1> QED
  BY <1>1 DEF NoWindow, ReleasedBeforeAttach, ClosedTwice, PushEndOvertaken, HandlerEntered

(* Watch records what a step opens.                                        *)
LEMMA StepWInv == WInv /\ [MNext]_mvars => WInv'
<1> SUFFICES ASSUME WInv, [MNext]_mvars, Calm' PROVE NoWindow'
  BY DEF WInv
<1>1. CASE MNext
  BY <1>1, WatchCalm DEF MNext
<1>2. CASE UNCHANGED mvars
  <2>1. UNCHANGED <<node, pub, cond, publish, query, pc, raced>>
    BY <1>2 DEF mvars, vars, heapVars, flagVars, queryVars
  <2> QED
    BY <2>1 DEF WInv, Calm, NoWindow, ReleasedBeforeAttach, OwnedElsewhere, ClosedTwice,
       PushEndOvertaken, HandlerEntered
<1> QED
  BY <1>1, <1>2

(* Where no window opens, the life stays unbroken.                         *)
LEMMA StaysCalm ==
  ASSUME Watch, Calm, NoWindow'
  PROVE  Calm'
<1>1. raced' = raced \cup {w \in MemoryWindows \cup {"wakeup_lost"} : Open(w)'}
  BY DEF Watch
<1>2. \A w \in MemoryWindows : ~Open(w)'
  BY DEF NoWindow, MemoryWindows, Open
<1> QED
  BY <1>1, <1>2 DEF Calm

(* Queueing, sending and counting out open no window.                      *)
LEMMA QuietSteps ==
  ASSUME IInv, InPhase, NoWindow,
         ListAddNalu \/ PubSend \/ \E t \in Threads : ReleaseCallback(t)
  PROVE  NoWindow'
<1>t. pc \in [Threads -> Labels] /\ Threads = {"stream", "hbase", "pub"}
  BY DEF IInv, TypeOK, Threads
<1> USE DEF NoWindow, ReleasedBeforeAttach, OwnedElsewhere, ClosedTwice, PushEndOvertaken,
            HandlerEntered, ClosingPart, CloseLabels, ReleaseLabels
<1>1. CASE ListAddNalu
  BY <1>1, <1>t DEF ListAddNalu, At, NodeUse, PubUse, GotoAndWake, MutexFree, heapVars,
     flagVars, queryVars, bevVars
<1>2. CASE PubSend
  BY <1>2, <1>t DEF PubSend, At, NodeUse, PubUse, Goto, heapVars, flagVars, queryVars,
     bevVars, localVars
<1>3. ASSUME NEW t \in Threads, ReleaseCallback(t) PROVE NoWindow'
  BY <1>3, <1>t DEF ReleaseCallback, At, NodeUse, PubUse, Goto, heapVars, queryVars,
     bevVars, localVars, listVars
<1> QED
  BY <1>1, <1>2, <1>3

(* What a step can do to the part of the state the promise is about.       *)
LEMMA Footprint ==
  ASSUME Next
  PROVE  \/ ListAddNalu
         \/ PubSend
         \/ \E t \in Threads : ReleaseCallback(t)
         \/ (\E t \in Threads : ReleaseDelete(t)) /\ UNCHANGED <<added, lastSent, decs, cond>>
         \/ /\ UNCHANGED <<added, lastSent, decs, node>>
            /\ cond' = cond \/ (cond' = 0 /\ node = "live")
<1> DEFINE Quiet == /\ UNCHANGED <<added, lastSent, decs, node>>
                    /\ cond' = cond \/ (cond' = 0 /\ node = "live")
<1>t. Threads = {"stream", "hbase", "pub"}
  BY DEF Threads
<1>1. CASE Peer
  BY <1>1 DEF Peer, PeerClose, Receive, heapVars, flagVars, listVars
<1>2. ASSUME NEW t \in Threads, UseFreed(t) PROVE Quiet
  BY <1>2 DEF UseFreed, flagVars, listVars
<1>3. ASSUME NEW t \in Threads, Closing(t), ~ReleaseCallback(t), ~ReleaseDelete(t) PROVE Quiet
  BY <1>3 DEF Closing, CcCond, CcWait, CloseBranch, PushEndGet, PushEndSet, PushEndNull,
     PushEndBroadcast, ReleaseBev, ListClearOut, At, NodeUse, CloseLabels, heapVars,
     flagVars, listVars
<1>4. ASSUME NEW t \in Threads, ReleaseDelete(t) PROVE UNCHANGED <<added, lastSent, decs, cond>>
  BY <1>4 DEF ReleaseDelete, flagVars, listVars
<1>5. CASE ReadCallback \/ EventCallback \/ RdCheck \/ RdEnter \/ RdStop \/ RdPacket
           \/ RdNext \/ RdExit \/ EvCond
  BY <1>5 DEF ReadCallback, EventCallback, RdCheck, RdEnter, RdStop, RdPacket, RdNext,
     RdExit, EvCond, At, NodeUse, heapVars, flagVars, listVars
<1>6. CASE QueryAnswer \/ PushCreate \/ PushStart \/ PushJobId \/ PushAttach
  BY <1>6 DEF QueryAnswer, PushCreate, PushStart, PushJobId, PushAttach, heapVars,
     flagVars, listVars
<1>7. CASE PubConnect \/ PubLoop \/ ListDelNalu \/ CondWait \/ ListDelWoken \/ PubSendFail
           \/ PubExit \/ SpuriousWakeup
  BY <1>7 DEF PubConnect, PubLoop, ListDelNalu, CondWait, ListDelWoken, PubSendFail,
     PubExit, SpuriousWakeup, PopNalu, heapVars, flagVars, listVars
<1> QED
  BY <1>t, <1>1, <1>2, <1>3, <1>4, <1>5, <1>6, <1>7
     DEF Next, StreamThread, HbaseThread, PubThread

(* The three steps that move a count.                                      *)
LEMMA CountSteps ==
  ASSUME IInv, Ordered
  PROVE  /\ ListAddNalu => /\ added' = added + 1 /\ node = "live"
                           /\ UNCHANGED <<lastSent, decs, node, cond>>
         /\ PubSend => /\ lastSent' = lastSent + 1 /\ lastSent < added /\ pc["pub"] = "send"
                       /\ UNCHANGED <<added, decs, node, cond>>
         /\ \A t \in Threads : ReleaseCallback(t) =>
              decs' = decs + 1 /\ pc[t] = "rl_cb" /\ UNCHANGED <<added, lastSent, node, cond>>
<1>1. ListAddNalu => /\ added' = added + 1 /\ node = "live"
                     /\ UNCHANGED <<lastSent, decs, node, cond>>
  BY DEF ListAddNalu, At, NodeUse, heapVars, flagVars
<1>2. ASSUME PubSend
      PROVE  /\ lastSent' = lastSent + 1 /\ lastSent < added /\ pc["pub"] = "send"
             /\ UNCHANGED <<added, decs, node, cond>>
  <2>1. /\ pc["pub"] = "send" /\ lastSent' = popped /\ UNCHANGED <<added, decs, node, cond>>
    BY <1>2 DEF PubSend, At, heapVars, flagVars
  <2>2. popped = lastSent + 1
    BY <2>1 DEF Ordered, SentWhatPopped
  <2>3. /\ added \in Nat /\ lastSent \in Nat /\ Len(nalu_list) \in Nat
        /\ popped <= added - Len(nalu_list)
    BY DEF IInv, TypeOK, QueueInOrder
  <2>4. lastSent < added
    BY <2>2, <2>3
  <2> QED
    BY <2>1, <2>2, <2>4
<1>3. \A t \in Threads : ReleaseCallback(t) =>
        decs' = decs + 1 /\ pc[t] = "rl_cb" /\ UNCHANGED <<added, lastSent, node, cond>>
  BY DEF ReleaseCallback, At, heapVars, listVars
<1> QED
  BY <1>1, <1>2, <1>3

(* Where the session is in its life when a phase lets it send, be counted  *)
(* out or be freed.                                                        *)
LEMMA PhaseLife ==
  ASSUME InPhase
  PROVE  /\ pc["pub"] = "send" => node = "live"
         /\ \A t \in Threads :
              /\ pc[t] = "rl_cb" => node = "live" /\ cond = 0 /\ decs = 0
              /\ pc[t] = "rl_delete" => node = "live" /\ cond = 0 /\ decs = 1
  BY DEF InPhase, PhaseOpen, PhaseQuery, PhaseSend, PhaseAlone, PhasePeer, PhaseEnding,
     Fresh, Releasing, Gone, Unpublished, Publishing, Reading, Working, ReleaseLabels, Threads

(* Every step of the session is one of the promise, or none.               *)
LEMMA PromiseStep ==
  ASSUME RInv, Ordered, WInv, MNext
  PROVE  [Promise!Next]_(Promise!vars)
<1> USE DEF Promise!Next, Promise!vars, Promise!Queue, Promise!Send, Promise!Close,
            Promise!CountOut, Promise!Release, Promise!Break
<1>1. IInv /\ Next /\ Watch
  BY DEF RInv, MNext
<1>2. CASE ~Calm
  <2>1. Life = "broken" /\ Life' = "broken"
    BY <1>1, <1>2 DEF Calm, Life, Watch
  <2> QED
    BY <1>1, <2>1, Footprint, CountSteps DEF ReleaseDelete
<1>3. CASE Calm /\ ~Calm'
  <2>1. Life' = "broken"
    BY <1>3 DEF Calm, Life
  <2>2. InPhase /\ NoWindow
    BY <1>3 DEF RInv, WInv
  <2>3. ~ListAddNalu /\ ~PubSend /\ \A t \in Threads : ~ReleaseCallback(t)
    BY <1>1, <1>3, <2>2, QuietSteps, StaysCalm
  <2>4. UNCHANGED <<added, lastSent, decs>>
    BY <1>1, <2>3, Footprint
  <2> QED
    BY <2>1, <2>4
<1>4. CASE Calm /\ Calm'
  <2>1. /\ Life = (IF node = "freed" THEN "released" ELSE IF cond = 0 THEN "closing" ELSE "open")
        /\ Life' = (IF node' = "freed" THEN "released" ELSE IF cond' = 0 THEN "closing" ELSE "open")
    BY <1>4 DEF Calm, Life
  <2>2. InPhase
    BY <1>4 DEF RInv
  <2>3. CASE ListAddNalu
    BY <1>1, <2>1, <2>3, CountSteps
  <2>4. CASE PubSend
    BY <1>1, <2>1, <2>2, <2>4, CountSteps, PhaseLife
  <2>5. ASSUME NEW t \in Threads, ReleaseCallback(t) PROVE Promise!CountOut
    BY <1>1, <2>1, <2>2, <2>5, CountSteps, PhaseLife
  <2>6. ASSUME NEW t \in Threads, ReleaseDelete(t), UNCHANGED <<added, lastSent, decs, cond>>
        PROVE  Promise!Release
    <3>1. pc[t] = "rl_delete" /\ node' = "freed"
      BY <2>6 DEF ReleaseDelete, At
    <3> QED
      BY <2>1, <2>2, <2>6, <3>1, PhaseLife
  <2>7. CASE /\ UNCHANGED <<added, lastSent, decs, node>>
             /\ cond' = cond \/ (cond' = 0 /\ node = "live")
    BY <2>1, <2>7
  <2> QED
    BY <1>1, <2>3, <2>4, <2>5, <2>6, <2>7, Footprint
<1> QED
  BY <1>2, <1>3, <1>4

(* A session of the three threads implements SessionLife: what it queues   *)
(* is sent in order and without gaps, it is closed, counted out once and   *)
(* then freed, and nothing is queued or sent behind that, until a memory   *)
(* window is open.                                                         *)
THEOREM SessionCorrect == MSpec => SessionSpec
<1>1. MInit => Promise!Init
  BY DEF MInit, Init, Promise!Init, Life
<1>2. RInv /\ Ordered /\ WInv /\ [MNext]_mvars => [Promise!Next]_(Promise!vars)
  <2> SUFFICES ASSUME RInv, Ordered, WInv, [MNext]_mvars PROVE [Promise!Next]_(Promise!vars)
    OBVIOUS
  <2>1. CASE UNCHANGED mvars
    BY <2>1 DEF mvars, vars, heapVars, flagVars, listVars, Promise!vars, Life
  <2> QED
    BY <2>1, PromiseStep
<1>3. MInit /\ [][MNext]_mvars => []WInv
  BY InitWInv, StepWInv, PTL
<1>4. MSpec => Spec
  BY WatchedIsSession
<1>5. MSpec => [](IInv /\ Ordered)
  BY <1>4, OrderInvariant
<1> QED
  BY <1>1, <1>2, <1>3, <1>5, RaceInvariant, PTL DEF MSpec, SessionSpec, Promise!Spec

=============================================================================
