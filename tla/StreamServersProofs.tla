------------------------ MODULE StreamServersProofs ------------------------
(***************************************************************************)
(* For every number of stream servers and every set of connections: the    *)
(* relay between the listener and the servers keeps every message, in      *)
(* order and with its wakeup, only an early accept ends the process on a   *)
(* NULL pointer, and the counters flowid and client_cnt are right unless   *)
(* two threads were changing one at the same time.                         *)
(***************************************************************************)
EXTENDS StreamServers, FiniteSetTheorems, SequenceTheorems, TLAPS

(* What the arguments below need of the types: those of the pair, of the   *)
(* labels and of the connection in hand.                                   *)
PairTypes ==
  /\ pending \in [Servers -> 0..1]
  /\ output \in [Servers -> Seq(Message)] /\ input \in [Servers -> Seq(Message)]
  /\ taken \in [Servers -> Seq(Message)] /\ relayed \in [Servers -> Seq(Message)]

ThreadTypes ==
  /\ made \in 0..NumServers
  /\ lpc \in {"create", "listen", "loop", "relay"}
  /\ spc \in [Servers -> ServerLabels]
  /\ eventBase \in [Servers -> 0..1] /\ outBuf \in [Servers -> 0..1]
  /\ readCb \in [Servers -> 0..1] /\ enabled \in [Servers -> 0..1]
  /\ conn \in [Conns -> ConnStates] /\ home \in [Conns -> 0..NumServers]
  /\ early \subseteq Conns

(* A server thread exists once the listener made it; all of them exist     *)
(* before the listener accepts.                                            *)
ThreadsMade ==
  /\ \A s \in Servers : spc[s] = "off" <=> s > made
  /\ lpc = "create" <=> made < NumServers

(* The fields of a server follow the progress of setup_server.             *)
SetupOrder ==
  \A s \in Servers :
    /\ eventBase[s] = 0 <=> spc[s] \in {"off", "base"}
    /\ outBuf[s] = 0 <=> spc[s] \in {"off", "base", "pair"}
    /\ readCb[s] = 0 <=> spc[s] \in {"off", "base", "pair", "setcb"}
    /\ enabled[s] = 0 <=> spc[s] \in {"off", "base", "pair", "setcb", "enable"}

(* Every accepted connection was given to a server.                        *)
HomeKnown == \A c \in Conns : conn[c] # "backlog" => home[c] \in Servers

(* A server's own thread releases at most one session at a time, and does  *)
(* nothing else meanwhile.                                                 *)
OneOwnRelease ==
  /\ \A c \in Conns :
       conn[c] = "releasing_own" => spc[home[c]] = "release"
  /\ \A c, d \in Conns :
       /\ conn[c] = "releasing_own" /\ conn[d] = "releasing_own" /\ home[c] = home[d]
       => c = d

(* The listener's connection in hand has a server, and a NULL event base   *)
(* or a NULL out_buf means that it was accepted early.                     *)
HandEarly ==
  lpc = "relay" =>
    /\ hand \in Message /\ home[hand.conn] \in Servers
    /\ hand.base = 0 => hand.conn \in early
    /\ outBuf[home[hand.conn]] = 0 => hand.conn \in early

(* So does a NULL event base in any message of the pair.                   *)
BaseKnown(q) ==
  \A i \in 1..Len(q) :
    /\ home[q[i].conn] \in Servers
    /\ q[i].base = 0 => q[i].conn \in early

MessagesEarly ==
  \A s \in Servers :
    /\ BaseKnown(output[s]) /\ BaseKnown(input[s]) /\ BaseKnown(taken[s])
    /\ spc[s] \in HandleLabels => taken[s] # <<>>

IInv ==
  /\ PairTypes /\ ThreadTypes /\ ThreadsMade /\ SetupOrder
  /\ HomeKnown /\ OneOwnRelease /\ HandEarly /\ MessagesEarly
  /\ RelayInOrder /\ NotificationKept /\ FaultNeedsEarlyAccept

-----------------------------------------------------------------------------
(* How a message moves along taken \o input \o output.                     *)

(* send_socket_to_core before in_buf is enabled.                           *)
LEMMA AddLast ==
  ASSUME NEW a \in Seq(Message), NEW b \in Seq(Message), NEW c \in Seq(Message),
         NEW h \in Message
  PROVE  Append((a \o b) \o c, h) = (a \o b) \o Append(c, h)
<1>1. a \o b \in Seq(Message) /\ <<h>> \in Seq(Message) /\ (a \o b) \o c \in Seq(Message)
  OBVIOUS
<1>2. ((a \o b) \o c) \o <<h>> = (a \o b) \o (c \o <<h>>)
  BY <1>1, ConcatAssociative
<1> QED
  BY <1>1, <1>2, AppendIsConcat

(* bufferevent_enable moves what is in out_buf.                            *)
LEMMA MoveAll ==
  ASSUME NEW a \in Seq(Message), NEW b \in Seq(Message), NEW c \in Seq(Message)
  PROVE  (a \o b) \o c = (a \o (b \o c)) \o <<>>
OBVIOUS

(* send_socket_to_core when in_buf is enabled.                             *)
LEMMA AddThrough ==
  ASSUME NEW a \in Seq(Message), NEW b \in Seq(Message), NEW c \in Seq(Message),
         NEW h \in Message
  PROVE  Append((a \o b) \o c, h) = (a \o (b \o Append(c, h))) \o <<>>
<1>1. /\ a \o b \in Seq(Message) /\ b \o c \in Seq(Message) /\ c \o <<h>> \in Seq(Message)
      /\ (a \o b) \o c \in Seq(Message) /\ <<h>> \in Seq(Message)
      /\ a \o (b \o (c \o <<h>>)) \in Seq(Message)
  OBVIOUS
<1>2. ((a \o b) \o c) \o <<h>> = (a \o b) \o (c \o <<h>>)
  BY <1>1, ConcatAssociative
<1>3. (a \o b) \o (c \o <<h>>) = a \o (b \o (c \o <<h>>))
  BY <1>1, ConcatAssociative, SMTT(30)
<1>4. (a \o (b \o (c \o <<h>>))) \o <<>> = a \o (b \o (c \o <<h>>))
  BY <1>1, ConcatEmptySeq
<1> QED
  BY <1>1, <1>2, <1>3, <1>4, AppendIsConcat

(* evbuffer_remove takes the first message of in_buf.                      *)
LEMMA TakeFirst ==
  ASSUME NEW a \in Seq(Message), NEW b \in Seq(Message), NEW c \in Seq(Message),
         b # <<>>
  PROVE  (a \o b) \o c = (Append(a, Head(b)) \o Tail(b)) \o c
OBVIOUS
(* The state server_listener_thread starts from satisfies the inductive    *)
(* invariant.                                                              *)
THEOREM InitIInv == Init => IInv
  BY ServersAssumption DEF Init, IInv, PairTypes, ThreadTypes, ThreadsMade, SetupOrder,
     HomeKnown, OneOwnRelease, HandEarly, MessagesEarly, BaseKnown, RelayInOrder, NotificationKept,
     FaultNeedsEarlyAccept, Servers, Message, ServerLabels, SetupLabels, HandleLabels,
     ConnStates

(* A server thread moves between labels.                                   *)
LEMMA GotoType ==
  ASSUME spc \in [Servers -> ServerLabels], NEW s \in Servers, NEW l \in ServerLabels,
         Goto(s, l)
  PROVE  /\ spc' \in [Servers -> ServerLabels]
         /\ spc'[s] = l
         /\ \A t \in Servers \ {s} : spc'[t] = spc[t]
  BY DEF Goto

(* A step that leaves the pair alone keeps what is said of its messages:   *)
(* connections are only ever added to early, and keep having a server.     *)
LEMMA PairFrame ==
  ASSUME IInv, UNCHANGED pairVars, early \subseteq early',
         \A c \in Conns : home[c] \in Servers => home'[c] \in Servers
  PROVE  /\ PairTypes' /\ RelayInOrder'
         /\ \A s \in Servers :
              BaseKnown(output[s])' /\ BaseKnown(input[s])' /\ BaseKnown(taken[s])'
<1>1. PairTypes' /\ RelayInOrder'
  BY DEF IInv, PairTypes, RelayInOrder, pairVars
<1>a. ASSUME NEW q \in Seq(Message), BaseKnown(q), NEW i \in 1..Len(q)
      PROVE  home'[q[i].conn] \in Servers /\ (q[i].base = 0 => q[i].conn \in early')
  <2>1. q[i] \in Message
    BY <1>a
  <2>2. q[i].conn \in Conns
    BY <2>1 DEF Message
  <2> QED
    BY <1>a, <2>2 DEF BaseKnown
<1>2. ASSUME NEW s \in Servers
      PROVE  BaseKnown(output[s])' /\ BaseKnown(input[s])' /\ BaseKnown(taken[s])'
  <2>1. /\ output[s] \in Seq(Message) /\ input[s] \in Seq(Message)
        /\ taken[s] \in Seq(Message)
        /\ BaseKnown(output[s]) /\ BaseKnown(input[s]) /\ BaseKnown(taken[s])
        /\ output'[s] = output[s] /\ input'[s] = input[s] /\ taken'[s] = taken[s]
    BY DEF IInv, PairTypes, MessagesEarly, pairVars
  <2> QED
    BY <2>1, <1>a DEF BaseKnown
<1> QED
  BY <1>1, <1>2

(* The labels of a server's event loop.                                    *)
LoopLabels == {"loop", "drain"} \cup HandleLabels

(* A step inside the event loop of one server that touches neither the     *)
(* pair nor anything of the listener.                                      *)
LEMMA LoopStep ==
  ASSUME IInv, NEW s \in Servers, NEW l \in LoopLabels,
         spc[s] \in LoopLabels, Goto(s, l),
         UNCHANGED <<listenVars, setupVars, pairVars, home, fault>>, fault = "none",
         conn' \in [Conns -> ConnStates],
         \A c \in Conns : conn'[c] = "releasing_own" => conn[c] = "releasing_own",
         \A c \in Conns : conn'[c] # "backlog" => home[c] \in Servers,
         input[s] # <<>> => l # "loop",
         l \in HandleLabels => taken[s] # <<>>
  PROVE  IInv'
<1>1. /\ spc \in [Servers -> ServerLabels]
      /\ l \in ServerLabels
      /\ LoopLabels \cap ({"off", "release"} \cup SetupLabels) = {}
  BY DEF IInv, ThreadTypes, LoopLabels, ServerLabels, HandleLabels, SetupLabels
<1>2. /\ spc' \in [Servers -> ServerLabels]
      /\ spc'[s] = l
      /\ \A t \in Servers \ {s} : spc'[t] = spc[t]
  BY <1>1, GotoType
<1>3. PairTypes' /\ RelayInOrder' /\ MessagesEarly'
  BY <1>2, PairFrame DEF MessagesEarly, IInv, pairVars, listenVars
<1>4. ThreadTypes'
  BY <1>2 DEF IInv, ThreadTypes, listenVars, setupVars
<1>5. ThreadsMade'
  BY <1>1, <1>2 DEF IInv, ThreadsMade, listenVars
<1>6. SetupOrder'
  BY <1>1, <1>2 DEF IInv, SetupOrder, SetupLabels, setupVars
<1>7. HomeKnown' /\ OneOwnRelease'
  BY <1>1, <1>2 DEF IInv, ThreadTypes, HomeKnown, OneOwnRelease
<1>8. HandEarly'
  BY DEF IInv, HandEarly, listenVars, setupVars
<1>9. NotificationKept'
  BY <1>1, <1>2 DEF IInv, NotificationKept, pairVars, LoopLabels, SetupLabels
<1>10. FaultNeedsEarlyAccept'
  BY DEF FaultNeedsEarlyAccept
<1> QED
  BY <1>3, <1>4, <1>5, <1>6, <1>7, <1>8, <1>9, <1>10 DEF IInv

(* A call that ends the process changes nothing but fault.                 *)
LEMMA HaltStep ==
  ASSUME IInv, NEW call, Fail(call), FaultNeedsEarlyAccept'
  PROVE  IInv'
  BY DEF Fail, IInv, PairTypes, ThreadTypes, ThreadsMade, SetupOrder, HomeKnown,
     OneOwnRelease, HandEarly, MessagesEarly, BaseKnown, RelayInOrder, NotificationKept,
     listenVars, setupVars, pairVars, connVars

(* A session changes its state on another thread than its server's.        *)
LEMMA ConnStep ==
  ASSUME IInv, UNCHANGED <<listenVars, spc, setupVars, pairVars, home, fault>>,
         fault = "none",
         conn' \in [Conns -> ConnStates],
         \A c \in Conns : conn'[c] = "releasing_own" => conn[c] = "releasing_own",
         \A c \in Conns : conn'[c] # "backlog" => conn[c] # "backlog"
  PROVE  IInv'
<1>1. PairTypes' /\ RelayInOrder' /\ MessagesEarly'
  BY PairFrame DEF MessagesEarly, IInv, pairVars, listenVars
<1>2. ThreadTypes' /\ ThreadsMade' /\ SetupOrder' /\ HandEarly'
  BY DEF IInv, ThreadTypes, ThreadsMade, SetupOrder, HandEarly, listenVars, setupVars
<1>3. HomeKnown' /\ OneOwnRelease'
  BY DEF IInv, ThreadTypes, HomeKnown, OneOwnRelease
<1>4. NotificationKept' /\ FaultNeedsEarlyAccept'
  BY DEF IInv, NotificationKept, FaultNeedsEarlyAccept, pairVars
<1> QED
  BY <1>1, <1>2, <1>3, <1>4 DEF IInv

(* A step of setup_server that leaves the pair alone.                      *)
LEMMA SetupStep ==
  ASSUME IInv, NEW s \in Servers, NEW l \in {"pair", "setcb", "enable"},
         spc[s] \in {"base", "pair", "setcb"}, Goto(s, l),
         UNCHANGED <<listenVars, pairVars, connVars, fault>>, fault = "none",
         eventBase' \in [Servers -> 0..1], outBuf' \in [Servers -> 0..1],
         readCb' \in [Servers -> 0..1], enabled' \in [Servers -> 0..1],
         spc[s] = "setcb" => l = "enable",
         \A t \in Servers : outBuf[t] = 1 => outBuf'[t] = 1,
         SetupOrder'
  PROVE  IInv'
<1>1. /\ spc' \in [Servers -> ServerLabels]
      /\ spc'[s] = l
      /\ \A t \in Servers \ {s} : spc'[t] = spc[t]
  BY GotoType DEF IInv, ThreadTypes, ServerLabels, SetupLabels
<1>2. PairTypes' /\ RelayInOrder'
  BY PairFrame DEF pairVars, listenVars, connVars
<1>3. MessagesEarly'
  BY <1>1, PairFrame DEF MessagesEarly, IInv, pairVars, listenVars, connVars, HandleLabels
<1>4. ThreadTypes' /\ ThreadsMade'
  BY <1>1 DEF IInv, ThreadTypes, ThreadsMade, listenVars, connVars
<1>5. HomeKnown' /\ OneOwnRelease'
  BY <1>1 DEF IInv, ThreadTypes, HomeKnown, OneOwnRelease, connVars
<1>6. HandEarly'
  BY DEF IInv, ThreadTypes, HandEarly, listenVars, connVars
<1>7. NotificationKept' /\ FaultNeedsEarlyAccept'
  BY <1>1 DEF IInv, NotificationKept, FaultNeedsEarlyAccept, pairVars, HandleLabels
<1> QED
  BY <1>2, <1>3, <1>4, <1>5, <1>6, <1>7 DEF IInv

(* A server thread is created: it has neither pair nor session yet.        *)
LEMMA CreateStep == IInv /\ fault = "none" /\ CreateServer => IInv'
<1> SUFFICES ASSUME IInv, fault = "none", CreateServer PROVE IInv'
  OBVIOUS
<1> USE ServersAssumption
<1>1. made + 1 \in Servers /\ "base" \in ServerLabels /\ spc[made + 1] = "off"
  BY DEF CreateServer, IInv, ThreadTypes, ThreadsMade, Servers, ServerLabels, SetupLabels
<1>2. /\ spc' \in [Servers -> ServerLabels]
      /\ spc'[made + 1] = "base"
      /\ \A t \in Servers \ {made + 1} : spc'[t] = spc[t]
  BY <1>1, GotoType DEF CreateServer, IInv, ThreadTypes
<1>3. PairTypes' /\ RelayInOrder'
  BY PairFrame DEF CreateServer, connVars
<1>4. MessagesEarly'
  BY <1>2, PairFrame DEF CreateServer, MessagesEarly, IInv, pairVars, connVars, HandleLabels
<1>5. ThreadTypes' /\ ThreadsMade'
  BY <1>1, <1>2 DEF CreateServer, IInv, ThreadTypes, ThreadsMade, Servers, setupVars, connVars
<1>6. SetupOrder'
  BY <1>1, <1>2 DEF CreateServer, IInv, SetupOrder, setupVars
<1>7. HomeKnown' /\ OneOwnRelease'
  BY <1>1, <1>2 DEF CreateServer, IInv, ThreadTypes, HomeKnown, OneOwnRelease, connVars
<1>8. HandEarly' /\ FaultNeedsEarlyAccept'
  BY DEF CreateServer, IInv, HandEarly, FaultNeedsEarlyAccept, setupVars, connVars
<1>9. NotificationKept'
  BY <1>1, <1>2 DEF CreateServer, IInv, NotificationKept, pairVars, HandleLabels
<1> QED
  BY <1>3, <1>4, <1>5, <1>6, <1>7, <1>8, <1>9 DEF IInv

(* The listener accepts: if the server has no event base or no out_buf     *)
(* yet, it is still in setup_server.                                       *)
LEMMA AcceptStep ==
  ASSUME IInv, fault = "none", NEW c \in Conns, NEW s \in Servers, Accept(c, s)
  PROVE  IInv'
<1> USE ServersAssumption
<1>1. spc[s] # "off"
  BY DEF Accept, IInv, ThreadTypes, ThreadsMade, Servers
<1>2. /\ home' \in [Conns -> 0..NumServers] /\ home'[c] = s
      /\ \A d \in Conns : home[d] \in Servers => home'[d] \in Servers
      /\ \A d \in Conns \ {c} : home'[d] = home[d] /\ conn'[d] = conn[d]
      /\ conn' \in [Conns -> ConnStates] /\ conn'[c] = "accepted"
  BY DEF Accept, IInv, ThreadTypes, Servers, ConnStates
<1>3. early \subseteq early' /\ early' \subseteq Conns
  BY DEF Accept, IInv, ThreadTypes
<1>4. PairTypes' /\ RelayInOrder' /\ MessagesEarly'
  BY <1>2, <1>3, PairFrame DEF Accept, MessagesEarly, IInv, pairVars
<1>5. ThreadTypes' /\ ThreadsMade' /\ SetupOrder'
  BY <1>2, <1>3 DEF Accept, IInv, ThreadTypes, ThreadsMade, SetupOrder, setupVars
<1>6. HomeKnown' /\ OneOwnRelease'
  BY <1>2 DEF Accept, IInv, HomeKnown, OneOwnRelease
<1>7. HandEarly'
  BY <1>1, <1>2 DEF Accept, IInv, ThreadTypes, SetupOrder, HandEarly, SetupLabels, Message,
     setupVars
<1>8. NotificationKept' /\ FaultNeedsEarlyAccept'
  BY DEF Accept, IInv, NotificationKept, FaultNeedsEarlyAccept, pairVars
<1> QED
  BY <1>4, <1>5, <1>6, <1>7, <1>8 DEF IInv

(* Sequences of known messages are closed under what the pair does.        *)
LEMMA KnownSeqs ==
  ASSUME NEW q \in Seq(Message), NEW r \in Seq(Message), BaseKnown(q), BaseKnown(r)
  PROVE  /\ BaseKnown(q \o r)
         /\ BaseKnown(<<>>)
         /\ q # <<>> => BaseKnown(Tail(q))
         /\ \A m \in Message :
              /\ home[m.conn] \in Servers /\ (m.base = 0 => m.conn \in early)
              => BaseKnown(Append(q, m))
<1>1. BaseKnown(q \o r)
  BY DEF BaseKnown
<1>2. BaseKnown(<<>>)
  BY DEF BaseKnown
<1>3. ASSUME q # <<>> PROVE BaseKnown(Tail(q))
  BY <1>3 DEF BaseKnown
<1>4. ASSUME NEW m \in Message, home[m.conn] \in Servers, m.base = 0 => m.conn \in early
      PROVE  BaseKnown(Append(q, m))
  BY <1>4 DEF BaseKnown
<1> QED
  BY <1>1, <1>2, <1>3, <1>4

(* Whether the message goes to out_buf or through to in_buf, it comes last,*)
(* and in the second case the callback is set and becomes pending.         *)
LEMMA RelayStep == IInv /\ fault = "none" /\ Relay => IInv'
<1> SUFFICES ASSUME IInv, fault = "none", Relay PROVE IInv'
  OBVIOUS
<1> DEFINE s == home[hand.conn]
<1>1. /\ hand \in Message /\ hand.conn \in Conns /\ s \in Servers /\ outBuf[s] = 1
      /\ (hand.base = 0 => hand.conn \in early)
  BY DEF Relay, IInv, HandEarly, Message
<1>2. /\ output \in [Servers -> Seq(Message)] /\ input \in [Servers -> Seq(Message)]
      /\ taken \in [Servers -> Seq(Message)] /\ relayed \in [Servers -> Seq(Message)]
      /\ pending \in [Servers -> 0..1]
      /\ output[s] \in Seq(Message) /\ input[s] \in Seq(Message)
      /\ taken[s] \in Seq(Message)
      /\ relayed[s] \in Seq(Message)
      /\ relayed[s] = (taken[s] \o input[s]) \o output[s]
      /\ BaseKnown(output[s]) /\ BaseKnown(input[s])
  BY <1>1 DEF IInv, PairTypes, RelayInOrder, MessagesEarly
<1>a. /\ Append(relayed[s], hand) \in Seq(Message)
      /\ Append(output[s], hand) \in Seq(Message)
      /\ input[s] \o Append(output[s], hand) \in Seq(Message)
      /\ <<>> \in Seq(Message)
  BY <1>1, <1>2
<1>b. /\ relayed' = [relayed EXCEPT ![s] = Append(relayed[s], hand)] /\ taken' = taken
      /\ \/ /\ input' = [input EXCEPT ![s] = input[s] \o Append(output[s], hand)]
            /\ output' = [output EXCEPT ![s] = <<>>]
            /\ pending' = [pending EXCEPT ![s] = IF readCb[s] = 1 THEN 1 ELSE pending[s]]
         \/ /\ output' = [output EXCEPT ![s] = Append(output[s], hand)]
            /\ UNCHANGED <<input, pending>>
  BY DEF Relay, Transfer
<1>3. /\ taken' = taken
      /\ relayed' \in [Servers -> Seq(Message)] /\ relayed'[s] = Append(relayed[s], hand)
      /\ \A t \in Servers \ {s} : relayed'[t] = relayed[t]
  BY <1>1, <1>2, <1>a, <1>b, Zenon
<1>4. /\ output' \in [Servers -> Seq(Message)] /\ input' \in [Servers -> Seq(Message)]
      /\ pending' \in [Servers -> 0..1]
      /\ \A t \in Servers \ {s} :
           output'[t] = output[t] /\ input'[t] = input[t] /\ pending'[t] = pending[t]
  <2>a. \A v \in Seq(Message) :
          /\ [output EXCEPT ![s] = v] \in [Servers -> Seq(Message)]
          /\ [input EXCEPT ![s] = v] \in [Servers -> Seq(Message)]
    BY <1>1, <1>2
  <2>1. /\ [output EXCEPT ![s] = <<>>] \in [Servers -> Seq(Message)]
        /\ [output EXCEPT ![s] = Append(output[s], hand)] \in [Servers -> Seq(Message)]
        /\ [input EXCEPT ![s] = input[s] \o Append(output[s], hand)]
             \in [Servers -> Seq(Message)]
    BY <1>a, <2>a, Zenon
  <2>2. /\ \A n \in 0..1 : [pending EXCEPT ![s] = n] \in [Servers -> 0..1]
        /\ (IF readCb[s] = 1 THEN 1 ELSE pending[s]) \in 0..1
    BY <1>1, <1>2
  <2>3. pending' \in [Servers -> 0..1]
    BY <1>2, <1>b, <2>2, Zenon
  <2>4. \A t \in Servers \ {s} :
           output'[t] = output[t] /\ input'[t] = input[t] /\ pending'[t] = pending[t]
    BY <1>1, <1>2, <1>b, Zenon
  <2> QED
    BY <1>2, <1>b, <2>1, <2>3, <2>4, Zenon
<1>5. \/ /\ enabled[s] = 1 /\ readCb[s] = 1
         /\ input'[s] = input[s] \o Append(output[s], hand) /\ output'[s] = <<>>
         /\ pending'[s] = 1
      \/ /\ spc[s] \in {"setcb", "enable"}
         /\ input'[s] = input[s] /\ output'[s] = Append(output[s], hand)
         /\ pending'[s] = pending[s]
  <2>1. CASE enabled[s] = 1
    <3>1. readCb[s] = 1
      BY <1>1, <2>1 DEF IInv, ThreadTypes, SetupOrder
    <3> QED
      BY <1>1, <1>2, <2>1, <3>1 DEF Relay, Transfer
  <2>2. CASE enabled[s] # 1
    <3>1. spc[s] \in {"setcb", "enable"}
      BY <1>1, <2>2 DEF IInv, ThreadTypes, SetupOrder
    <3> QED
      BY <1>1, <1>2, <2>2, <3>1 DEF Relay
  <2> QED
    BY <2>1, <2>2
<1>6. relayed'[s] = (taken'[s] \o input'[s]) \o output'[s]
  <2>a. /\ taken[s] \in Seq(Message) /\ input[s] \in Seq(Message)
        /\ output[s] \in Seq(Message) /\ hand \in Message
    BY <1>1, <1>2
  <2>1. Append((taken[s] \o input[s]) \o output[s], hand)
          = (taken[s] \o input[s]) \o Append(output[s], hand)
    BY <2>a, AddLast, ZenonT(30)
  <2>2. Append((taken[s] \o input[s]) \o output[s], hand)
          = (taken[s] \o (input[s] \o Append(output[s], hand))) \o <<>>
    BY <2>a, AddThrough, ZenonT(30)
  <2> QED
    BY <1>2, <1>3, <1>5, <2>1, <2>2, Zenon
<1>7. RelayInOrder' /\ PairTypes'
  BY <1>2, <1>3, <1>4, <1>6 DEF IInv, RelayInOrder, PairTypes
<1>8. UNCHANGED <<made, early, spc, setupVars, home, fault>>
  BY DEF Relay
<1>9. BaseKnown(Append(output[s], hand)) /\ Append(output[s], hand) \in Seq(Message)
  BY <1>1, <1>2, KnownSeqs
<1>10. /\ BaseKnown(input[s] \o Append(output[s], hand))
       /\ BaseKnown(<<>>)
  BY <1>2, <1>9, KnownSeqs
<1>11. BaseKnown(input'[s]) /\ BaseKnown(output'[s])
  BY <1>2, <1>5, <1>9, <1>10
<1>12. MessagesEarly'
  <2>1. ASSUME NEW t \in Servers \ {s}
        PROVE  BaseKnown(output[t])' /\ BaseKnown(input[t])' /\ BaseKnown(taken[t])'
    BY <1>3, <1>4, <1>8 DEF IInv, MessagesEarly, BaseKnown
  <2>2. BaseKnown(output[home[hand.conn]]) /\ BaseKnown(taken[home[hand.conn]])
    BY <1>1 DEF IInv, MessagesEarly
  <2>3. ASSUME NEW t \in Servers, t = s
        PROVE  BaseKnown(output[t])' /\ BaseKnown(input[t])' /\ BaseKnown(taken[t])'
    BY <1>3, <1>8, <1>11, <2>2, <2>3 DEF BaseKnown
  <2>4. \A t \in Servers : spc'[t] \in HandleLabels => taken'[t] # <<>>
    BY <1>3, <1>8 DEF IInv, MessagesEarly
  <2> QED
    BY <2>1, <2>3, <2>4 DEF MessagesEarly
<1>13. /\ lpc' = "loop" /\ conn' \in [Conns -> ConnStates]
       /\ conn'[hand.conn] = "relayed"
       /\ \A d \in Conns \ {hand.conn} : conn'[d] = conn[d]
  BY <1>1 DEF Relay, IInv, ThreadTypes, ConnStates
<1>14. ThreadTypes' /\ ThreadsMade' /\ SetupOrder' /\ HandEarly'
  BY <1>8, <1>13 DEF Relay, IInv, ThreadTypes, ThreadsMade, SetupOrder, HandEarly, setupVars
<1>15. HomeKnown' /\ OneOwnRelease'
  BY <1>1, <1>8, <1>13 DEF IInv, HomeKnown, OneOwnRelease
<1>16. NotificationKept'
  BY <1>1, <1>4, <1>5, <1>8 DEF IInv, NotificationKept
<1>17. FaultNeedsEarlyAccept'
  BY <1>8 DEF FaultNeedsEarlyAccept
<1> QED
  BY <1>7, <1>12, <1>14, <1>15, <1>16, <1>17 DEF IInv

(* in_buf starts to read: everything in out_buf moves on and the callback, *)
(* set before, becomes pending.                                            *)
LEMMA EnableStep ==
  ASSUME IInv, fault = "none", NEW s \in Servers, SetupEnable(s)
  PROVE  IInv'
<1>1. /\ output \in [Servers -> Seq(Message)] /\ input \in [Servers -> Seq(Message)]
      /\ pending \in [Servers -> 0..1]
      /\ output[s] \in Seq(Message) /\ input[s] \in Seq(Message)
      /\ taken[s] \in Seq(Message)
      /\ relayed[s] = (taken[s] \o input[s]) \o output[s]
      /\ BaseKnown(output[s]) /\ BaseKnown(input[s])
  BY DEF IInv, PairTypes, RelayInOrder, MessagesEarly
<1>2. /\ spc' \in [Servers -> ServerLabels]
      /\ spc'[s] = "loop"
      /\ \A t \in Servers \ {s} : spc'[t] = spc[t]
  BY GotoType DEF SetupEnable, IInv, ThreadTypes, ServerLabels
<1>3. input[s] \o output[s] \in Seq(Message) /\ <<>> \in Seq(Message)
  BY <1>1
<1>4. UNCHANGED <<eventBase, outBuf, readCb, taken, relayed, listenVars, connVars, fault>>
  BY DEF SetupEnable
<1>5. spc[s] = "enable" /\ readCb[s] = 1
  BY DEF SetupEnable, IInv, ThreadTypes, SetupOrder
<1>6. ASSUME output[s] # <<>>
      PROVE  PairTypes' /\ RelayInOrder' /\ MessagesEarly' /\ NotificationKept'
  <2>1. /\ input' = [input EXCEPT ![s] = input[s] \o output[s]]
        /\ output' = [output EXCEPT ![s] = <<>>]
        /\ pending' = [pending EXCEPT ![s] = 1]
    BY <1>5, <1>6 DEF SetupEnable, Transfer
  <2>2. /\ input' \in [Servers -> Seq(Message)] /\ output' \in [Servers -> Seq(Message)]
        /\ pending' \in [Servers -> 0..1]
        /\ input'[s] = input[s] \o output[s] /\ output'[s] = <<>> /\ pending'[s] = 1
        /\ \A t \in Servers \ {s} :
             input'[t] = input[t] /\ output'[t] = output[t] /\ pending'[t] = pending[t]
    BY <1>1, <1>3, <2>1
  <2>3. relayed'[s] = (taken'[s] \o input'[s]) \o output'[s]
    <3>1. (taken[s] \o input[s]) \o output[s]
            = (taken[s] \o (input[s] \o output[s])) \o <<>>
      BY <1>1, MoveAll, Zenon
    <3> QED
      BY <1>1, <1>4, <2>2, <3>1, Zenon
  <2>4. BaseKnown(input'[s]) /\ BaseKnown(output'[s])
    BY <1>1, <2>2, KnownSeqs
  <2>5. PairTypes' /\ RelayInOrder'
    BY <1>4, <2>2, <2>3 DEF IInv, PairTypes, RelayInOrder
  <2>6. MessagesEarly'
    <3>1. ASSUME NEW t \in Servers \ {s}
          PROVE  BaseKnown(output[t])' /\ BaseKnown(input[t])' /\ BaseKnown(taken[t])'
      BY <1>4, <2>2 DEF IInv, MessagesEarly, BaseKnown, listenVars, connVars
    <3>2. BaseKnown(output[s])' /\ BaseKnown(input[s])' /\ BaseKnown(taken[s])'
      BY <1>4, <2>4 DEF IInv, MessagesEarly, BaseKnown, listenVars, connVars
    <3> QED
      BY <1>2, <1>4, <3>1, <3>2 DEF IInv, MessagesEarly, HandleLabels
  <2>7. NotificationKept'
    BY <1>2, <2>2 DEF IInv, NotificationKept
  <2> QED
    BY <2>5, <2>6, <2>7
<1>7. ASSUME output[s] = <<>>
      PROVE  PairTypes' /\ RelayInOrder' /\ MessagesEarly' /\ NotificationKept'
  <2>1. UNCHANGED pairVars
    BY <1>7, <1>4 DEF SetupEnable, pairVars
  <2>2. PairTypes' /\ RelayInOrder'
    BY <1>4, <2>1, PairFrame DEF listenVars, connVars
  <2>3. MessagesEarly'
    BY <1>2, <1>4, <2>1, PairFrame
       DEF IInv, MessagesEarly, listenVars, connVars, pairVars, HandleLabels
  <2>4. NotificationKept'
    BY <1>2, <1>5, <1>7, <2>1 DEF IInv, NotificationKept, pairVars, HandleLabels
  <2> QED
    BY <2>2, <2>3, <2>4
<1>8. PairTypes' /\ RelayInOrder' /\ MessagesEarly' /\ NotificationKept'
  BY <1>6, <1>7, Zenon
<1>9. ThreadTypes' /\ ThreadsMade'
  BY <1>2, <1>4, <1>5 DEF SetupEnable, IInv, ThreadTypes, ThreadsMade, listenVars, connVars
<1>10. SetupOrder'
  BY <1>2, <1>4, <1>5 DEF SetupEnable, IInv, ThreadTypes, SetupOrder
<1>11. HomeKnown' /\ OneOwnRelease'
  BY <1>2, <1>4, <1>5 DEF IInv, ThreadTypes, HomeKnown, OneOwnRelease, connVars
<1>12. HandEarly' /\ FaultNeedsEarlyAccept'
  BY <1>4 DEF IInv, HandEarly, FaultNeedsEarlyAccept, listenVars, connVars
<1> QED
  BY <1>8, <1>9, <1>10, <1>11, <1>12 DEF IInv

(* The callback is no longer pending but running.                          *)
LEMMA CallbackStep ==
  ASSUME IInv, fault = "none", NEW s \in Servers, RelayCallback(s)
  PROVE  IInv'
<1>1. /\ spc[s] = "loop"
      /\ spc' \in [Servers -> ServerLabels]
      /\ spc'[s] = "drain"
      /\ \A t \in Servers \ {s} : spc'[t] = spc[t]
  BY GotoType DEF RelayCallback, IInv, ThreadTypes, ServerLabels
<1>2. /\ UNCHANGED <<output, input, taken, relayed, listenVars, setupVars, connVars, fault>>
      /\ pending' \in [Servers -> 0..1]
      /\ \A t \in Servers \ {s} : pending'[t] = pending[t]
  BY DEF RelayCallback, IInv, PairTypes
<1>3. PairTypes' /\ RelayInOrder'
  BY <1>2 DEF IInv, PairTypes, RelayInOrder
<1>4. MessagesEarly'
  BY <1>1, <1>2 DEF IInv, MessagesEarly, BaseKnown, listenVars, connVars, HandleLabels
<1>5. ThreadTypes' /\ ThreadsMade' /\ SetupOrder'
  BY <1>1, <1>2 DEF IInv, ThreadTypes, ThreadsMade, SetupOrder, listenVars, setupVars, connVars
<1>6. HomeKnown' /\ OneOwnRelease'
  BY <1>1, <1>2 DEF IInv, ThreadTypes, HomeKnown, OneOwnRelease, connVars
<1>7. HandEarly' /\ FaultNeedsEarlyAccept'
  BY <1>2 DEF IInv, HandEarly, FaultNeedsEarlyAccept, listenVars, setupVars, connVars
<1>8. NotificationKept'
  BY <1>1, <1>2 DEF IInv, NotificationKept
<1> QED
  BY <1>3, <1>4, <1>5, <1>6, <1>7, <1>8 DEF IInv

(* The first message of in_buf becomes the one being handled.              *)
LEMMA ReceiveStep ==
  ASSUME IInv, fault = "none", NEW s \in Servers, ReceiveOne(s)
  PROVE  IInv'
<1>1. /\ taken \in [Servers -> Seq(Message)] /\ input \in [Servers -> Seq(Message)]
      /\ output[s] \in Seq(Message) /\ input[s] \in Seq(Message)
      /\ taken[s] \in Seq(Message) /\ input[s] # <<>>
      /\ relayed[s] = (taken[s] \o input[s]) \o output[s]
      /\ BaseKnown(taken[s]) /\ BaseKnown(input[s])
  BY DEF ReceiveOne, IInv, PairTypes, RelayInOrder, MessagesEarly
<1>2. /\ spc[s] = "drain"
      /\ spc' \in [Servers -> ServerLabels]
      /\ spc'[s] = "flow_ld"
      /\ \A t \in Servers \ {s} : spc'[t] = spc[t]
  BY GotoType DEF ReceiveOne, IInv, ThreadTypes, ServerLabels, HandleLabels
<1>3. UNCHANGED <<pending, output, relayed, listenVars, setupVars, home, fault>>
  BY DEF ReceiveOne
<1>4. PICK m \in Message : m = Head(input[s])
  BY <1>1
<1>5. /\ m.conn \in Conns /\ home[m.conn] \in Servers /\ (m.base = 0 => m.conn \in early)
  BY <1>1, <1>4 DEF BaseKnown, Message
<1>6. Append(taken[s], m) \in Seq(Message) /\ Tail(input[s]) \in Seq(Message)
      /\ Append(taken[s], m) # <<>>
  BY <1>1, AppendProperties
<1>7. /\ taken' = [taken EXCEPT ![s] = Append(taken[s], m)]
      /\ input' = [input EXCEPT ![s] = Tail(input[s])]
      /\ conn' = [conn EXCEPT ![m.conn] = "handled"]
  BY <1>4 DEF ReceiveOne
<1>8. \A v \in Seq(Message) :
        /\ [taken EXCEPT ![s] = v] \in [Servers -> Seq(Message)]
        /\ [input EXCEPT ![s] = v] \in [Servers -> Seq(Message)]
        /\ [taken EXCEPT ![s] = v][s] = v /\ [input EXCEPT ![s] = v][s] = v
        /\ \A t \in Servers \ {s} :
             [taken EXCEPT ![s] = v][t] = taken[t] /\ [input EXCEPT ![s] = v][t] = input[t]
  BY <1>1
<1>9. /\ taken' \in [Servers -> Seq(Message)] /\ input' \in [Servers -> Seq(Message)]
      /\ taken'[s] = Append(taken[s], m) /\ input'[s] = Tail(input[s])
      /\ \A t \in Servers \ {s} : taken'[t] = taken[t] /\ input'[t] = input[t]
  BY <1>6, <1>7, <1>8, Zenon
<1>10. relayed'[s] = (taken'[s] \o input'[s]) \o output'[s]
  <2>1. (taken[s] \o input[s]) \o output[s]
          = (Append(taken[s], Head(input[s])) \o Tail(input[s])) \o output[s]
    BY <1>1, TakeFirst, Zenon
  <2> QED
    BY <1>1, <1>3, <1>4, <1>9, <2>1, Zenon
<1>11. PairTypes' /\ RelayInOrder'
  BY <1>3, <1>9, <1>10 DEF IInv, PairTypes, RelayInOrder
<1>12. BaseKnown(taken'[s]) /\ BaseKnown(input'[s])
  BY <1>1, <1>5, <1>9, KnownSeqs
<1>13. MessagesEarly'
  <2>1. ASSUME NEW t \in Servers \ {s}
        PROVE  BaseKnown(output[t])' /\ BaseKnown(input[t])' /\ BaseKnown(taken[t])'
    BY <1>3, <1>9 DEF IInv, MessagesEarly, BaseKnown, listenVars
  <2>2. BaseKnown(output[s])' /\ BaseKnown(input[s])' /\ BaseKnown(taken[s])'
    BY <1>3, <1>12 DEF IInv, MessagesEarly, BaseKnown, listenVars
  <2>3. \A t \in Servers : spc'[t] \in HandleLabels => taken'[t] # <<>>
    BY <1>2, <1>6, <1>9 DEF IInv, MessagesEarly
  <2> QED
    BY <2>1, <2>2, <2>3 DEF MessagesEarly
<1>14. /\ conn' \in [Conns -> ConnStates] /\ conn'[m.conn] = "handled"
       /\ \A d \in Conns \ {m.conn} : conn'[d] = conn[d]
  BY <1>5, <1>7 DEF IInv, ThreadTypes, ConnStates
<1>15. ThreadTypes' /\ ThreadsMade' /\ SetupOrder'
  BY <1>2, <1>3, <1>14 DEF IInv, ThreadTypes, ThreadsMade, SetupOrder, listenVars, setupVars
<1>16. HomeKnown' /\ OneOwnRelease'
  BY <1>2, <1>3, <1>5, <1>14 DEF IInv, ThreadTypes, HomeKnown, OneOwnRelease
<1>17. HandEarly' /\ FaultNeedsEarlyAccept'
  BY <1>3 DEF IInv, HandEarly, FaultNeedsEarlyAccept, listenVars, setupVars
<1>18. NotificationKept'
  BY <1>2, <1>3, <1>9 DEF IInv, NotificationKept, HandleLabels
<1> QED
  BY <1>11, <1>13, <1>15, <1>16, <1>17, <1>18 DEF IInv

(* The server's own thread starts or ends a release.                       *)
LEMMA OwnReleaseStep ==
  ASSUME IInv, fault = "none", NEW c \in Conns, NEW l \in {"loop", "release"},
         spc[home[c]] \in {"loop", "release"}, conn[c] # "backlog",
         Goto(home[c], l),
         UNCHANGED <<listenVars, setupVars, pairVars, home, fault>>,
         conn' \in [Conns -> ConnStates],
         \A d \in Conns \ {c} : conn'[d] = conn[d],
         l = "loop" => conn[c] = "releasing_own" /\ conn'[c] # "releasing_own",
         l = "release" => spc[home[c]] = "loop"
  PROVE  IInv'
<1>1. home[c] \in Servers /\ l \in ServerLabels /\ spc \in [Servers -> ServerLabels]
  BY DEF IInv, HomeKnown, ThreadTypes, ServerLabels
<1>2. /\ spc' \in [Servers -> ServerLabels]
      /\ spc'[home[c]] = l
      /\ \A t \in Servers \ {home[c]} : spc'[t] = spc[t]
  BY <1>1, GotoType
<1>3. PairTypes' /\ RelayInOrder'
  BY PairFrame DEF listenVars
<1>4. MessagesEarly'
  BY <1>2, PairFrame DEF IInv, MessagesEarly, pairVars, listenVars, HandleLabels
<1>5. ThreadTypes' /\ ThreadsMade' /\ SetupOrder' /\ HandEarly'
  BY <1>1, <1>2 DEF IInv, ThreadTypes, ThreadsMade, SetupOrder, HandEarly, listenVars,
     setupVars
<1>6. HomeKnown'
  BY <1>1 DEF IInv, HomeKnown
<1>7. OneOwnRelease'
  BY <1>1, <1>2 DEF IInv, HomeKnown, OneOwnRelease
<1>8. NotificationKept' /\ FaultNeedsEarlyAccept'
  BY <1>1, <1>2 DEF IInv, NotificationKept, FaultNeedsEarlyAccept, pairVars, HandleLabels
<1> QED
  BY <1>3, <1>4, <1>5, <1>6, <1>7, <1>8 DEF IInv

(* Every step of Next preserves the inductive invariant.                   *)
LEMMA StepIInv == IInv /\ [Next]_vars => IInv'
<1> SUFFICES ASSUME IInv, [Next]_vars PROVE IInv'
  OBVIOUS
<1>c. \A st \in ConnStates, c \in Conns :
        /\ [conn EXCEPT ![c] = st] \in [Conns -> ConnStates]
        /\ [conn EXCEPT ![c] = st][c] = st
        /\ \A d \in Conns \ {c} : [conn EXCEPT ![c] = st][d] = conn[d]
  BY DEF IInv, ThreadTypes
<1>d. {"dropped", "counted", "started", "served", "releasing_own", "releasing", "released"}
        \subseteq ConnStates
  BY DEF ConnStates
<1>m. ASSUME NEW s \in Servers, spc[s] \in HandleLabels
      PROVE  /\ Current(s).conn \in Conns /\ home[Current(s).conn] \in Servers
             /\ (Current(s).base = 0 => Current(s).conn \in early)
             /\ taken[s] # <<>>
  <2>1. taken[s] \in Seq(Message) /\ taken[s] # <<>> /\ BaseKnown(taken[s])
    BY <1>m DEF IInv, PairTypes, MessagesEarly
  <2>2. Len(taken[s]) \in 1..Len(taken[s])
    BY <2>1
  <2>3. Current(s) \in Message
    BY <2>1, <2>2 DEF Current
  <2> QED
    BY <2>1, <2>2, <2>3 DEF Current, BaseKnown, Message
<1>1. CASE fault = "none" /\ CreateServer
  BY <1>1, CreateStep
<1>2. CASE fault = "none" /\ (CreateServerFails \/ ListenFails)
  BY <1>2, HaltStep DEF CreateServerFails, ListenFails, Fail, FaultNeedsEarlyAccept
<1>3. CASE fault = "none" /\ Listen
  BY <1>3 DEF Listen, IInv, PairTypes, ThreadTypes, ThreadsMade, SetupOrder,
     HomeKnown, OneOwnRelease, HandEarly, MessagesEarly, BaseKnown, RelayInOrder,
     NotificationKept, FaultNeedsEarlyAccept, setupVars, pairVars, connVars
<1>4. ASSUME fault = "none", NEW c \in Conns, NEW s \in Servers, Accept(c, s) PROVE IInv'
  BY <1>4, AcceptStep
<1>5. CASE fault = "none" /\ Relay
  BY <1>5, RelayStep
<1>6. CASE fault = "none" /\ RelayFails
  <2>1. hand.conn \in Conns
    BY <1>6 DEF RelayFails, IInv, HandEarly, Message
  <2>2. /\ conn' \in [Conns -> ConnStates] /\ conn'[hand.conn] = "dropped"
        /\ \A d \in Conns \ {hand.conn} : conn'[d] = conn[d]
    BY <1>6, <1>c, <1>d, <2>1 DEF RelayFails
  <2>3. /\ UNCHANGED <<made, early, spc, setupVars, pairVars, home, fault>>
        /\ lpc = "relay" /\ lpc' = "loop"
    BY <1>6 DEF RelayFails
  <2>4. PairTypes' /\ RelayInOrder' /\ MessagesEarly'
    BY <2>3, PairFrame DEF IInv, MessagesEarly, pairVars
  <2>5. ThreadTypes' /\ ThreadsMade' /\ SetupOrder' /\ HandEarly'
    BY <2>2, <2>3 DEF IInv, ThreadTypes, ThreadsMade, SetupOrder, HandEarly, setupVars
  <2>6. HomeKnown' /\ OneOwnRelease'
    BY <2>1, <2>2, <2>3 DEF IInv, HomeKnown, OneOwnRelease, HandEarly
  <2>7. NotificationKept' /\ FaultNeedsEarlyAccept'
    BY <1>6, <2>3 DEF IInv, NotificationKept, FaultNeedsEarlyAccept, pairVars
  <2> QED
    BY <2>4, <2>5, <2>6, <2>7 DEF IInv
<1>7. CASE fault = "none" /\ RelayTooEarly
  <2>1. FaultNeedsEarlyAccept'
    BY <1>7 DEF RelayTooEarly, Fail, FaultNeedsEarlyAccept, IInv, HandEarly, listenVars
  <2> QED
    BY <1>7, <2>1, HaltStep DEF RelayTooEarly
<1>8. ASSUME fault = "none", NEW s \in Servers,
             SetupBase(s) \/ SetupPair(s) \/ SetupCallback(s)
      PROVE  IInv'
  <2>1. /\ eventBase' \in [Servers -> 0..1] /\ outBuf' \in [Servers -> 0..1]
        /\ readCb' \in [Servers -> 0..1] /\ enabled' \in [Servers -> 0..1]
        /\ \A t \in Servers : outBuf[t] = 1 => outBuf'[t] = 1
        /\ UNCHANGED <<listenVars, pairVars, connVars, fault>>
    BY <1>8 DEF SetupBase, SetupPair, SetupCallback, IInv, ThreadTypes
  <2>2. SetupOrder'
    BY <1>8 DEF SetupBase, SetupPair, SetupCallback, Goto, IInv, ThreadTypes, SetupOrder
  <2> QED
    BY <1>8, <2>1, <2>2, SetupStep DEF SetupBase, SetupPair, SetupCallback
<1>9. ASSUME fault = "none", NEW s \in Servers, SetupEnable(s) PROVE IInv'
  BY <1>9, EnableStep
<1>10. ASSUME fault = "none", NEW s \in Servers, RelayCallback(s) PROVE IInv'
  BY <1>10, CallbackStep
<1>11. ASSUME fault = "none", NEW s \in Servers, ReceiveOne(s) PROVE IInv'
  BY <1>11, ReceiveStep
<1>12. ASSUME fault = "none", NEW s \in Servers,
              ReceiveDone(s) \/ FlowLoad(s) \/ FlowStore(s) \/ CountLoad(s)
       PROVE  IInv'
  <2>1. /\ UNCHANGED <<listenVars, setupVars, pairVars, home, fault>> /\ conn' = conn
        /\ spc[s] \in LoopLabels
    BY <1>12 DEF ReceiveDone, FlowLoad, FlowStore, CountLoad, connVars, LoopLabels, HandleLabels
  <2>2. PICK l \in LoopLabels :
          /\ Goto(s, l)
          /\ input[s] # <<>> => l # "loop"
          /\ l \in HandleLabels => spc[s] \in HandleLabels
    BY <1>12 DEF ReceiveDone, FlowLoad, FlowStore, CountLoad, LoopLabels, HandleLabels
  <2>3. conn' \in [Conns -> ConnStates]
    BY <2>1 DEF IInv, ThreadTypes
  <2>4. \A c \in Conns : conn'[c] # "backlog" => home[c] \in Servers
    BY <2>1 DEF IInv, HomeKnown
  <2> QED
    BY <1>12, <1>m, <2>1, <2>2, <2>3, <2>4, LoopStep
<1>13. ASSUME fault = "none", NEW s \in Servers, CountStore(s) \/ StartSession(s)
       PROVE  IInv'
  <2>1. /\ UNCHANGED <<listenVars, setupVars, pairVars, home, fault>>
        /\ spc[s] \in LoopLabels /\ spc[s] \in HandleLabels
    BY <1>13 DEF CountStore, StartSession, LoopLabels, HandleLabels
  <2>2. PICK st \in {"counted", "started"} : conn' = [conn EXCEPT ![Current(s).conn] = st]
    BY <1>13 DEF CountStore, StartSession
  <2>3. PICK l \in {"start", "drain"} : Goto(s, l)
    BY <1>13 DEF CountStore, StartSession
  <2>4. /\ conn' \in [Conns -> ConnStates] /\ conn'[Current(s).conn] = st
        /\ \A d \in Conns \ {Current(s).conn} : conn'[d] = conn[d]
    BY <1>c, <1>d, <1>m, <2>1, <2>2
  <2>5. /\ \A c \in Conns : conn'[c] = "releasing_own" => conn[c] = "releasing_own"
        /\ \A c \in Conns : conn'[c] # "backlog" => home[c] \in Servers
    BY <1>m, <2>1, <2>4 DEF IInv, HomeKnown
  <2>6. l \in LoopLabels /\ l # "loop"
    BY DEF LoopLabels, HandleLabels
  <2> QED
    BY <1>13, <1>m, <2>1, <2>3, <2>4, <2>5, <2>6, LoopStep
<1>14. ASSUME fault = "none", NEW s \in Servers, StartWithoutBase(s) PROVE IInv'
  <2>1. spc[s] = "start" /\ Current(s).conn \in early
    BY <1>14, <1>m DEF StartWithoutBase, HandleLabels
  <2>2. Current(s)' = Current(s) /\ spc' = spc /\ early' = early
    BY <1>14 DEF StartWithoutBase, Fail, Current, pairVars, listenVars
  <2>3. FaultNeedsEarlyAccept'
    BY <1>14, <2>1, <2>2 DEF StartWithoutBase, Fail, FaultNeedsEarlyAccept
  <2> QED
    BY <1>14, <2>3, HaltStep DEF StartWithoutBase
<1>15. ASSUME fault = "none", NEW c \in Conns, Serve(c) \/ ReleaseLoad(c) PROVE IInv'
  <2>1. /\ UNCHANGED <<listenVars, spc, setupVars, pairVars, home, fault>>
        /\ conn[c] \in {"started", "served"}
    BY <1>15 DEF Serve, ReleaseLoad
  <2>2. PICK st \in {"served", "releasing"} : conn' = [conn EXCEPT ![c] = st]
    BY <1>15 DEF Serve, ReleaseLoad
  <2> QED
    BY <1>15, <1>c, <1>d, <2>1, <2>2, ConnStep
<1>16. ASSUME fault = "none", NEW c \in Conns, ReleaseOwnLoad(c) PROVE IInv'
  BY <1>16, <1>c, <1>d, OwnReleaseStep DEF ReleaseOwnLoad
<1>17. ASSUME fault = "none", NEW c \in Conns, ReleaseStore(c) PROVE IInv'
  <2>1. /\ UNCHANGED <<listenVars, setupVars, pairVars, home, fault>>
        /\ conn' = [conn EXCEPT ![c] = "released"]
    BY <1>17 DEF ReleaseStore
  <2>2. CASE conn[c] = "releasing_own"
    <3>1. Goto(home[c], "loop") /\ spc[home[c]] = "release"
      BY <1>17, <2>2 DEF ReleaseStore, IInv, OneOwnRelease
    <3> QED
      BY <1>17, <1>c, <1>d, <2>1, <2>2, <3>1, OwnReleaseStep
  <2>3. CASE conn[c] # "releasing_own"
    <3>1. spc' = spc /\ conn[c] = "releasing"
      BY <1>17, <2>3 DEF ReleaseStore
    <3> QED
      BY <1>17, <1>c, <1>d, <2>1, <3>1, ConnStep
  <2> QED
    BY <2>2, <2>3
<1>18. CASE UNCHANGED vars
  BY <1>18 DEF vars, listenVars, setupVars, pairVars, connVars, IInv, PairTypes,
     ThreadTypes, ThreadsMade, SetupOrder, HomeKnown, OneOwnRelease, HandEarly,
     MessagesEarly, BaseKnown, RelayInOrder, NotificationKept, FaultNeedsEarlyAccept, Current
<1> QED
  BY <1>1, <1>2, <1>3, <1>4, <1>5, <1>6, <1>7, <1>8, <1>9, <1>10, <1>11, <1>12, <1>13,
     <1>14, <1>15, <1>16, <1>17, <1>18
     DEF Next, ListenerStart, HandOver, ServerThread, ServerSetup, HandleMessage, Release

(* The inductive invariant holds in every reachable state.                 *)
LEMMA Invariance == Spec => []IInv
  BY InitIInv, StepIInv, PTL DEF Spec

-----------------------------------------------------------------------------
(* The counters.  They need more than the relay does: which connection is  *)
(* in which message, and in which state.                                   *)

RestTypes ==
  /\ hand \in Message \cup {<<>>}
  /\ flow \in [Conns -> Nat] /\ flowid \in Nat
  /\ client_cnt \in [Servers -> 0..(CountMod - 1)]
  /\ freg \in [Servers -> Nat]
  /\ creg \in [Servers -> 0..(CountMod - 1)] /\ dreg \in [Conns -> 0..(CountMod - 1)]
  /\ crowded \subseteq 0..NumServers
  /\ fault \in {"none", "pthread_detach", "run_listener_server",
                "bufferevent_get_output", "bufferevent_socket_new"}

SessionStates == {"started", "served", "releasing_own", "releasing", "released"}

HandAccepted == lpc = "relay" => conn[hand.conn] = "accepted"

(* A connection is relayed once, to its server.                            *)
RelayedOnce ==
  \A s \in Servers :
    /\ \A i \in 1..Len(relayed[s]) : home[relayed[s][i].conn] = s
    /\ \A i, j \in 1..Len(relayed[s]) : relayed[s][i].conn = relayed[s][j].conn => i = j

(* The states a connection can be in when its message is the i-th one for  *)
(* server s: waiting, being handled, or a session.                         *)
Stage(s, i) ==
  IF i > Len(taken[s]) THEN {"relayed"}
  ELSE IF i < Len(taken[s]) \/ spc[s] \notin HandleLabels THEN SessionStates
  ELSE IF spc[s] = "start" THEN {"counted"} ELSE {"handled"}

StagesKept ==
  \A s \in Servers : \A i \in 1..Len(relayed[s]) : conn[relayed[s][i].conn] \in Stage(s, i)

(* crowded remembers every crowd.                                          *)
CrowdsSeen == Crowd \subseteq crowded

(* While one server at a time uses flowid, no session has a larger one, and *)
(* none has the one that was just made.                                    *)
FlowsBelow ==
  0 \notin crowded =>
    /\ \A c \in Sessions : flow[c] <= flowid
    /\ \A s \in Servers : spc[s] = "flow_st" => freg[s] = flowid
    /\ \A s \in Servers : spc[s] \in {"count_ld", "count_st", "start"} =>
         \A c \in Sessions : flow[c] < flowid

(* While one thread at a time changes client_cnt, its register is up to    *)
(* date, and a session being released is still counted.                    *)
Leaving(s) == {c \in Conns : home[c] = s /\ Decrementing(c)}

CountsKept ==
  \A s \in Servers \ crowded :
    /\ client_cnt[s] = Cardinality(Counted(s)) + (IF Leaving(s) = {} THEN 0 ELSE 1)
    /\ spc[s] = "count_st" => creg[s] = client_cnt[s]
    /\ \A c \in Leaving(s) : dreg[c] = client_cnt[s]

MsgInv == HandAccepted /\ RelayedOnce /\ StagesKept

FlowInv == FlowsBelow /\ FlowIdsDistinct

CInv == IInv /\ RestTypes /\ MsgInv /\ CrowdsSeen /\ FlowInv /\ CountsKept

(* What taken, the messages relay_receive_message removed, has to do with  *)
(* relayed: it is a prefix, and the message at the head of in_buf is next. *)
LEMMA TakenPrefix ==
  ASSUME NEW r \in Seq(Message), NEW a \in Seq(Message), NEW b \in Seq(Message),
         NEW c \in Seq(Message), r = (a \o b) \o c
  PROVE  /\ Len(a) \in Nat /\ Len(r) \in Nat /\ Len(a) <= Len(r)
         /\ \A i \in 1..Len(a) : a[i] = r[i]
         /\ b # <<>> => Len(a) + 1 <= Len(r) /\ r[Len(a) + 1] = Head(b)
<1>1. a \o b \in Seq(Message) /\ Len(a \o b) = Len(a) + Len(b)
  BY ConcatProperties
<1>2. Len(r) = Len(a) + Len(b) + Len(c) /\ Len(a) \in Nat /\ Len(b) \in Nat /\ Len(c) \in Nat
  BY <1>1, ConcatProperties, LenProperties
<1>3. \A i \in 1..(Len(a) + Len(b)) : r[i] = (a \o b)[i]
  BY <1>1, <1>2, ConcatProperties
<1>4. \A i \in 1..(Len(a) + Len(b)) : (a \o b)[i] = IF i <= Len(a) THEN a[i] ELSE b[i - Len(a)]
  BY ConcatProperties
<1>5. ASSUME b # <<>> PROVE Len(a) + 1 <= Len(r) /\ r[Len(a) + 1] = Head(b)
  <2>1. Len(b) >= 1 /\ Head(b) = b[1]
    BY <1>2, <1>5, EmptySeq
  <2>2. Len(a) + 1 \in 1..(Len(a) + Len(b))
    BY <1>2, <2>1
  <2> QED
    BY <1>2, <1>3, <1>4, <2>1, <2>2
<1> QED
  BY <1>2, <1>3, <1>4, <1>5

(* The message handle_message works on is for this server, and its         *)
(* connection is in the state the thread has brought it to.                *)
LEMMA CurrentState ==
  ASSUME IInv, MsgInv, NEW s \in Servers, spc[s] \in HandleLabels
  PROVE  /\ Len(taken[s]) \in 1..Len(relayed[s])
         /\ Current(s) = relayed[s][Len(taken[s])]
         /\ Current(s).conn \in Conns /\ home[Current(s).conn] = s
         /\ conn[Current(s).conn] = IF spc[s] = "start" THEN "counted" ELSE "handled"
<1>1. /\ relayed[s] \in Seq(Message) /\ taken[s] \in Seq(Message) /\ input[s] \in Seq(Message)
      /\ output[s] \in Seq(Message) /\ relayed[s] = (taken[s] \o input[s]) \o output[s]
      /\ taken[s] # <<>>
  BY DEF IInv, PairTypes, RelayInOrder, MessagesEarly
<1>2. /\ Len(taken[s]) \in Nat /\ Len(relayed[s]) \in Nat /\ Len(taken[s]) <= Len(relayed[s])
      /\ \A i \in 1..Len(taken[s]) : taken[s][i] = relayed[s][i]
  <2> DEFINE r == relayed[s]
             a == taken[s]
             b == input[s]
             c == output[s]
  <2>1. /\ r \in Seq(Message) /\ a \in Seq(Message) /\ b \in Seq(Message)
        /\ c \in Seq(Message) /\ r = (a \o b) \o c
    BY <1>1
  <2> HIDE DEF r, a, b, c
  <2>2. /\ Len(a) \in Nat /\ Len(r) \in Nat /\ Len(a) <= Len(r)
        /\ \A i \in 1..Len(a) : a[i] = r[i]
    BY <2>1, TakenPrefix
  <2> QED
    BY <2>2 DEF r, a
<1>3. Len(taken[s]) # 0
  BY <1>1, EmptySeq
<1>4. Len(taken[s]) \in 1..Len(taken[s]) /\ Len(taken[s]) \in 1..Len(relayed[s])
  BY <1>2, <1>3
<1>5. Current(s) = relayed[s][Len(taken[s])]
  BY <1>2, <1>4 DEF Current
<1>6. relayed[s][Len(taken[s])] \in Message
  BY <1>1, <1>4, ElementOfSeq, Zenon
<1>7. Current(s).conn \in Conns
  BY <1>5, <1>6 DEF Message
<1>8. home[Current(s).conn] = s
  BY <1>4, <1>5 DEF MsgInv, RelayedOnce
<1>9. conn[Current(s).conn] \in Stage(s, Len(taken[s]))
  BY <1>4, <1>5 DEF MsgInv, StagesKept
<1>10. conn[Current(s).conn] = IF spc[s] = "start" THEN "counted" ELSE "handled"
  BY <1>2, <1>9 DEF Stage
<1> QED
  BY <1>4, <1>5, <1>7, <1>8, <1>10

(* What is not being handled stays in its stage.                           *)
LEMMA MsgFrame ==
  ASSUME IInv, MsgInv, UNCHANGED <<relayed, taken>>,
         \A s \in Servers : \/ spc'[s] = spc[s]
                            \/ spc[s] \notin HandleLabels /\ spc'[s] \notin HandleLabels
                            \/ /\ spc[s] \in HandleLabels \ {"start"}
                               /\ spc'[s] \in HandleLabels \ {"start"},
         \A c \in Conns : \/ conn'[c] = conn[c]
                          \/ conn[c] \in {"backlog", "accepted", "dropped"}
                          \/ conn[c] \in SessionStates /\ conn'[c] \in SessionStates,
         \A c \in Conns : conn[c] # "backlog" => home'[c] = home[c]
  PROVE  RelayedOnce' /\ StagesKept'
<1>1. ASSUME NEW s \in Servers, NEW i \in 1..Len(relayed[s])
      PROVE  /\ relayed[s][i].conn \in Conns
             /\ conn[relayed[s][i].conn] \notin {"backlog", "accepted", "dropped"}
             /\ conn[relayed[s][i].conn] \in Stage(s, i)
  <2>1. relayed[s][i] \in Message
    BY <1>1 DEF IInv, PairTypes
  <2>2. conn[relayed[s][i].conn] \in Stage(s, i)
    BY <1>1 DEF MsgInv, StagesKept
  <2> QED
    BY <2>1, <2>2 DEF Message, Stage, SessionStates
<1>2. RelayedOnce'
  BY <1>1 DEF MsgInv, RelayedOnce
<1>3. ASSUME NEW s \in Servers, NEW i \in 1..Len(relayed[s])
      PROVE  conn'[relayed[s][i].conn] \in Stage(s, i)'
  <2>1. Stage(s, i)' = Stage(s, i)
    BY <1>3 DEF Stage, HandleLabels
  <2>2. SessionStates \cap {"relayed", "counted", "handled"} = {}
    BY DEF SessionStates
  <2>3. conn[relayed[s][i].conn] \in SessionStates => Stage(s, i) = SessionStates
    BY <1>1, <1>3, <2>2 DEF Stage
  <2> QED
    BY <1>1, <1>3, <2>1, <2>3
<1>4. StagesKept'
  BY <1>3 DEF StagesKept
<1> QED
  BY <1>2, <1>4

(* A step that neither uses flowid nor makes a session.                    *)
LEMMA FlowFrame ==
  ASSUME FlowInv, crowded \subseteq crowded', UNCHANGED <<flow, flowid, freg>>,
         Sessions' \subseteq Sessions,
         \A s \in Servers :
           /\ spc'[s] = "flow_st" => spc[s] = "flow_st"
           /\ spc'[s] \in {"count_ld", "count_st", "start"} =>
                spc[s] \in {"count_ld", "count_st", "start"}
  PROVE  FlowInv'
<1>1. 0 \notin crowded' => 0 \notin crowded
  OBVIOUS
<1>2. FlowIdsDistinct'
  BY <1>1 DEF FlowInv, FlowIdsDistinct
<1>3. FlowsBelow'
  BY <1>1 DEF FlowInv, FlowsBelow
<1> QED
  BY <1>2, <1>3 DEF FlowInv

(* A step that neither counts a session nor begins or ends a release.      *)
CountedStates == {"counted", "started", "served"}
LeavingStates == {"releasing_own", "releasing"}

(* Who is counted changes only with a connection that enters or leaves.    *)
LEMMA CountedFrame ==
  ASSUME \A c \in Conns : \/ conn'[c] = conn[c]
                          \/ conn[c] \in CountedStates /\ conn'[c] \in CountedStates
                          \/ /\ conn[c] \notin CountedStates \cup LeavingStates
                             /\ conn'[c] \notin CountedStates \cup LeavingStates,
         \A c \in Conns : \/ home'[c] = home[c]
                          \/ /\ conn[c] \notin CountedStates \cup LeavingStates
                             /\ conn'[c] \notin CountedStates \cup LeavingStates
  PROVE  \A s \in Servers : Counted(s)' = Counted(s) /\ Leaving(s)' = Leaving(s)
<1>1. CountedStates \cap LeavingStates = {}
  BY DEF CountedStates, LeavingStates
<1> QED
  BY <1>1 DEF Counted, Leaving, Decrementing, CountedStates, LeavingStates

(* The counts are kept by a step that counts nobody in or out.             *)
LEMMA CountFrame ==
  ASSUME CountsKept, crowded \subseteq crowded', UNCHANGED <<client_cnt, creg, dreg>>,
         \A s \in Servers : Counted(s)' = Counted(s) /\ Leaving(s)' = Leaving(s),
         \A s \in Servers : spc'[s] = "count_st" => spc[s] = "count_st"
  PROVE  CountsKept'
  BY DEF CountsKept

(* A step that concerns none of the counters.                              *)
LEMMA QuietStep ==
  ASSUME CInv, crowded \subseteq crowded', UNCHANGED <<countVars, flow, relayed, taken>>,
         \A s \in Servers : \/ spc'[s] = spc[s]
                            \/ spc[s] \notin HandleLabels /\ spc'[s] \notin HandleLabels,
         \A c \in Conns : \/ conn'[c] = conn[c]
                          \/ /\ conn[c] \in {"backlog", "accepted"}
                             /\ conn'[c] \in {"accepted", "dropped"}
                          \/ conn[c] = "started" /\ conn'[c] = "served",
         \A c \in Conns : conn[c] # "backlog" \/ conn'[c] = "backlog" => home'[c] = home[c]
  PROVE  RelayedOnce' /\ StagesKept' /\ FlowInv' /\ CountsKept'
<1>1. RelayedOnce' /\ StagesKept'
  <2>1. \A c \in Conns : \/ conn'[c] = conn[c]
                         \/ conn[c] \in {"backlog", "accepted", "dropped"}
                         \/ conn[c] \in SessionStates /\ conn'[c] \in SessionStates
    BY DEF SessionStates
  <2> QED
    BY <2>1, MsgFrame DEF CInv
<1>2. Sessions' \subseteq Sessions
  BY DEF Sessions
<1>3. FlowInv'
  BY <1>2, FlowFrame DEF CInv, countVars, HandleLabels
<1>4. \A s \in Servers : Counted(s)' = Counted(s) /\ Leaving(s)' = Leaving(s)
  BY CountedFrame DEF CountedStates, LeavingStates
<1>5. CountsKept'
  BY <1>4, CountFrame DEF CInv, countVars, HandleLabels
<1> QED
  BY <1>1, <1>3, <1>5

(* What Watch leaves behind in every step.                                 *)
Watched ==
  /\ crowded \subseteq crowded' /\ crowded' \subseteq 0..NumServers
  /\ Crowd' \subseteq crowded'

Faults == {"none", "pthread_detach", "run_listener_server",
           "bufferevent_get_output", "bufferevent_socket_new"}

CountInv == RestTypes /\ MsgInv /\ FlowInv /\ CountsKept

(* The remaining types, for a step that leaves the counters alone.         *)
LEMMA TypesFrame ==
  ASSUME RestTypes, Watched, UNCHANGED <<flow, countVars>>,
         hand' \in Message \cup {<<>>}, fault' \in Faults
  PROVE  RestTypes'
  BY DEF RestTypes, Watched, countVars, Faults

(* An action that neither moves a message nor counts keeps everything.     *)
LEMMA QuietAction ==
  ASSUME CInv, Watched, UNCHANGED <<countVars, flow, relayed, taken>>,
         hand' \in Message \cup {<<>>}, fault' \in Faults, HandAccepted',
         \A s \in Servers : \/ spc'[s] = spc[s]
                            \/ spc[s] \notin HandleLabels /\ spc'[s] \notin HandleLabels,
         \A c \in Conns : \/ conn'[c] = conn[c]
                          \/ /\ conn[c] \in {"backlog", "accepted"}
                             /\ conn'[c] \in {"accepted", "dropped"}
                          \/ conn[c] = "started" /\ conn'[c] = "served",
         \A c \in Conns : conn[c] # "backlog" \/ conn'[c] = "backlog" => home'[c] = home[c]
  PROVE  CountInv'
<1>1. RestTypes'
  BY TypesFrame DEF CInv
<1>2. crowded \subseteq crowded'
  BY DEF Watched
<1>3. RelayedOnce' /\ StagesKept' /\ FlowInv' /\ CountsKept'
  BY <1>2, QuietStep
<1> QED
  BY <1>1, <1>3 DEF CountInv, MsgInv

(* The listener before it accepts, and a call that ends the process.       *)
LEMMA StartupCount ==
  ASSUME CInv, Watched, fault = "none",
         \/ CreateServer \/ Listen
         \/ CreateServerFails \/ ListenFails \/ RelayTooEarly
         \/ \E s \in Servers : StartWithoutBase(s)
  PROVE  CountInv'
<1>1. hand' = hand /\ conn' = conn /\ home' = home /\ fault' \in Faults
  BY DEF CreateServer, Listen, CreateServerFails, ListenFails, RelayTooEarly, StartWithoutBase,
     Fail, listenVars, connVars, Faults
<1>2. UNCHANGED <<countVars, flow, relayed, taken>>
  BY DEF CreateServer, Listen, CreateServerFails, ListenFails, RelayTooEarly, StartWithoutBase,
     Fail, connVars, pairVars
<1>3. lpc' = "relay" => lpc = "relay"
  BY DEF CreateServer, Listen, CreateServerFails, ListenFails, RelayTooEarly, StartWithoutBase,
     Fail, listenVars
<1>4. HandAccepted'
  BY <1>1, <1>3 DEF CInv, MsgInv, HandAccepted
<1>5. \A s \in Servers : \/ spc'[s] = spc[s]
                         \/ spc[s] \notin HandleLabels /\ spc'[s] \notin HandleLabels
  <2>1. CASE CreateServer
    <3>1. \A s \in Servers : spc'[s] = spc[s] \/ (s = made + 1 /\ spc'[s] = "base")
      BY <2>1 DEF CreateServer, Goto, CInv, IInv, ThreadTypes
    <3>2. \A s \in Servers : s = made + 1 => spc[s] = "off"
      BY ServersAssumption DEF CInv, IInv, ThreadsMade, ThreadTypes, Servers
    <3> QED
      BY <3>1, <3>2 DEF HandleLabels
  <2>2. CASE ~CreateServer
    BY <2>2 DEF Listen, CreateServerFails, ListenFails, RelayTooEarly, StartWithoutBase, Fail
  <2> QED
    BY <2>1, <2>2
<1>6. hand' \in Message \cup {<<>>}
  BY <1>1 DEF CInv, RestTypes
<1> QED
  BY <1>1, <1>2, <1>4, <1>5, <1>6, QuietAction

(* server_accept_handler takes a connection from the backlog.              *)
LEMMA AcceptCount ==
  ASSUME CInv, Watched, fault = "none", NEW c \in Conns, NEW s \in Servers, Accept(c, s)
  PROVE  CountInv'
<1>1. /\ \A d \in Conns : d # c => conn'[d] = conn[d] /\ home'[d] = home[d]
      /\ conn[c] = "backlog" /\ conn'[c] = "accepted"
  BY DEF Accept, CInv, IInv, ThreadTypes
<1>2. UNCHANGED <<countVars, flow, relayed, taken, spc>> /\ fault' \in Faults
  BY DEF Accept, pairVars, Faults
<1>3. hand' \in Message /\ hand'.conn = c
  BY DEF Accept, CInv, IInv, ThreadTypes, Message
<1>4. HandAccepted'
  BY <1>1, <1>3 DEF HandAccepted
<1> QED
  BY <1>1, <1>2, <1>3, <1>4, QuietAction

(* A connection whose message could not be written is dropped.             *)
LEMMA RelayFailsCount ==
  ASSUME CInv, Watched, fault = "none", RelayFails
  PROVE  CountInv'
<1>1. hand.conn \in Conns /\ conn[hand.conn] = "accepted"
  BY DEF RelayFails, CInv, IInv, HandEarly, MsgInv, HandAccepted, Message
<1>2. /\ \A d \in Conns : d # hand.conn => conn'[d] = conn[d]
      /\ conn'[hand.conn] = "dropped" /\ home' = home
  BY <1>1 DEF RelayFails, CInv, IInv, ThreadTypes
<1>3. UNCHANGED <<countVars, flow, relayed, taken, spc>> /\ fault' \in Faults
  BY DEF RelayFails, pairVars, Faults
<1>4. HandAccepted' /\ hand' = <<>>
  BY DEF HandAccepted, RelayFails
<1> QED
  BY <1>1, <1>2, <1>3, <1>4, QuietAction

(* setup_server and the turns of the event loop without a message.         *)
LEMMA LoopCount ==
  ASSUME CInv, Watched, fault = "none", NEW s \in Servers,
         ServerSetup(s) \/ RelayCallback(s) \/ ReceiveDone(s)
  PROVE  CountInv'
<1>1. /\ UNCHANGED <<countVars, flow, relayed, taken, conn, home, hand, lpc>>
      /\ fault' \in Faults
  BY DEF ServerSetup, SetupBase, SetupPair, SetupCallback, SetupEnable, RelayCallback, ReceiveDone,
     listenVars, pairVars, connVars, Faults
<1>2. PICK l \in {"pair", "setcb", "enable", "loop", "drain"} :
        Goto(s, l) /\ spc[s] \in {"base", "pair", "setcb", "enable", "loop", "drain"}
  BY DEF ServerSetup, SetupBase, SetupPair, SetupCallback, SetupEnable, RelayCallback, ReceiveDone
<1>3. \A t \in Servers : \/ spc'[t] = spc[t]
                         \/ spc[t] \notin HandleLabels /\ spc'[t] \notin HandleLabels
  BY <1>2 DEF Goto, CInv, IInv, ThreadTypes, HandleLabels
<1>4. HandAccepted' /\ hand' \in Message \cup {<<>>}
  BY <1>1 DEF CInv, MsgInv, HandAccepted, RestTypes
<1> QED
  BY <1>1, <1>3, <1>4, QuietAction

(* A first packet changes no count.                                        *)
LEMMA ServeCount ==
  ASSUME CInv, Watched, fault = "none", NEW c \in Conns, Serve(c)
  PROVE  CountInv'
<1>1. /\ UNCHANGED <<countVars, flow, relayed, taken, spc, home, hand, lpc>>
      /\ fault' \in Faults
  BY DEF Serve, listenVars, pairVars, Faults
<1>2. /\ \A d \in Conns : d # c => conn'[d] = conn[d]
      /\ conn[c] = "started" /\ conn'[c] = "served"
  BY DEF Serve, CInv, IInv, ThreadTypes
<1>3. HandAccepted' /\ hand' \in Message \cup {<<>>}
  BY <1>1, <1>2 DEF CInv, MsgInv, HandAccepted, RestTypes, IInv, HandEarly, Message
<1> QED
  BY <1>1, <1>2, <1>3, QuietAction

(* A thread that only moves its label among those before "start".          *)
LEMMA CounterLoads ==
  ASSUME CInv, Watched, fault = "none", NEW s \in Servers, 
         FlowLoad(s) \/ FlowStore(s) \/ CountLoad(s)
  PROVE  MsgInv' /\ Sessions' = Sessions
         /\ \A t \in Servers : Counted(t)' = Counted(t) /\ Leaving(t)' = Leaving(t)
<1>1. UNCHANGED <<relayed, taken, conn, home, hand, lpc>>
  BY DEF FlowLoad, FlowStore, CountLoad, listenVars, pairVars, connVars
<1>2. PICK l \in {"flow_st", "count_ld", "count_st"} :
        Goto(s, l) /\ spc[s] \in {"flow_ld", "flow_st", "count_ld"}
  BY DEF FlowLoad, FlowStore, CountLoad
<1>3. \A t \in Servers : \/ spc'[t] = spc[t]
                         \/ /\ spc[t] \in HandleLabels \ {"start"}
                            /\ spc'[t] \in HandleLabels \ {"start"}
  BY <1>2 DEF Goto, CInv, IInv, ThreadTypes, HandleLabels
<1>4. RelayedOnce' /\ StagesKept'
  BY <1>1, <1>3, MsgFrame DEF CInv
<1>5. HandAccepted'
  BY <1>1 DEF CInv, MsgInv, HandAccepted
<1>6. Sessions' = Sessions
  BY <1>1 DEF Sessions
<1>7. \A t \in Servers : Counted(t)' = Counted(t) /\ Leaving(t)' = Leaving(t)
  BY <1>1 DEF Counted, Leaving, Decrementing
<1> QED
  BY <1>4, <1>5, <1>6, <1>7 DEF MsgInv

(* As long as 0 is not in crowded, one server at a time uses flowid.       *)
LEMMA OneFlowUser ==
  ASSUME Watched, 0 \notin crowded'
  PROVE  \A s, t \in Servers :
           /\ spc'[s] \in HandleLabels \ {"flow_ld"} /\ spc'[t] \in HandleLabels \ {"flow_ld"}
           => s = t
  BY DEF Watched, Crowd, FlowCrowded, FlowUsers

(* Without a crowd at flowid one server at a time is behind its load.      *)
LEMMA OneFlowUserBefore ==
  ASSUME CInv, 0 \notin crowded
  PROVE  \A s, t \in Servers :
           /\ spc[s] \in HandleLabels \ {"flow_ld"} /\ spc[t] \in HandleLabels \ {"flow_ld"}
           => s = t
  BY DEF CInv, CrowdsSeen, Crowd, FlowCrowded, FlowUsers

(* flowid is loaded: no other server is between its load and its use.      *)
LEMMA FlowLoadCount ==
  ASSUME CInv, Watched, fault = "none", NEW s \in Servers, FlowLoad(s)
  PROVE  CountInv'
<1>1. /\ MsgInv' /\ Sessions' = Sessions
      /\ \A t \in Servers : Counted(t)' = Counted(t) /\ Leaving(t)' = Leaving(t)
  BY CounterLoads
<1>2. /\ UNCHANGED <<flow, flowid, client_cnt, creg, dreg, hand, fault>>
      /\ freg' = [freg EXCEPT ![s] = flowid] /\ spc' = [spc EXCEPT ![s] = "flow_st"]
  BY DEF FlowLoad, Goto, connVars, listenVars
<1>3. RestTypes'
  BY <1>2 DEF CInv, RestTypes, Watched
<1>4. \A t \in Servers : t # s => freg'[t] = freg[t] /\ spc'[t] = spc[t]
  BY <1>2 DEF CInv, IInv, ThreadTypes, RestTypes
<1>5. freg'[s] = flowid /\ spc'[s] = "flow_st"
  BY <1>2 DEF CInv, IInv, ThreadTypes, RestTypes
<1>6. CountsKept'
  <2>1. \A t \in Servers : spc'[t] = "count_st" => spc[t] = "count_st"
    BY <1>4, <1>5
  <2> QED
    BY <1>1, <1>2, <2>1, CountFrame DEF CInv, Watched
<1>7. FlowInv'
  <2>1. SUFFICES ASSUME 0 \notin crowded' PROVE FlowInv'
    BY DEF FlowInv, FlowsBelow, FlowIdsDistinct
  <2>2. 0 \notin crowded
    BY <2>1 DEF Watched
  <2>3. FlowIdsDistinct'
    BY <1>1, <1>2, <2>2 DEF CInv, FlowInv, FlowIdsDistinct
  <2>4. FlowsBelow'
    BY <1>1, <1>2, <1>4, <1>5, <2>2 DEF CInv, FlowInv, FlowsBelow
  <2> QED
    BY <2>3, <2>4 DEF FlowInv
<1> QED
  BY <1>1, <1>3, <1>6, <1>7 DEF CountInv

(* flowid is stored: it is larger than that of every session.              *)
LEMMA FlowStoreCount ==
  ASSUME CInv, Watched, fault = "none", NEW s \in Servers, FlowStore(s)
  PROVE  CountInv'
<1>1. /\ MsgInv' /\ Sessions' = Sessions
      /\ \A t \in Servers : Counted(t)' = Counted(t) /\ Leaving(t)' = Leaving(t)
  BY CounterLoads
<1>2. /\ UNCHANGED <<flow, freg, client_cnt, creg, dreg, hand, fault>>
      /\ flowid' = freg[s] + 1 /\ spc' = [spc EXCEPT ![s] = "count_ld"]
      /\ spc[s] = "flow_st"
  BY DEF FlowStore, Goto, connVars, listenVars
<1>3. RestTypes'
  BY <1>2 DEF CInv, RestTypes, Watched
<1>4. /\ \A t \in Servers : t # s => spc'[t] = spc[t]
      /\ spc'[s] = "count_ld"
  BY <1>2 DEF CInv, IInv, ThreadTypes
<1>5. CountsKept'
  <2>1. \A t \in Servers : spc'[t] = "count_st" => spc[t] = "count_st"
    BY <1>4
  <2> QED
    BY <1>1, <1>2, <2>1, CountFrame DEF CInv, Watched
<1>6. FlowInv'
  <2>1. SUFFICES ASSUME 0 \notin crowded' PROVE FlowInv'
    BY DEF FlowInv, FlowsBelow, FlowIdsDistinct
  <2>2. 0 \notin crowded
    BY <2>1 DEF Watched
  <2>3. FlowIdsDistinct'
    BY <1>1, <1>2, <2>2 DEF CInv, FlowInv, FlowIdsDistinct
  <2>4. /\ flowid \in Nat /\ freg[s] = flowid /\ flow \in [Conns -> Nat]
        /\ \A c \in Sessions : flow[c] <= flowid
    BY <1>2, <2>2 DEF CInv, FlowInv, FlowsBelow, RestTypes
  <2>5. \A c \in Sessions : c \in Conns
    BY DEF Sessions
  <2>6. \A c \in Sessions' : flow'[c] < flowid' /\ flow'[c] <= flowid'
    BY <1>1, <1>2, <2>4, <2>5
  <2>7. \A t \in Servers : spc'[t] # "flow_st"
    <3>1. "count_ld" \in HandleLabels \ {"flow_ld"} /\ "flow_st" \in HandleLabels \ {"flow_ld"}
      BY DEF HandleLabels
    <3> QED
      BY <1>4, <2>1, <3>1, OneFlowUser
  <2>8. FlowsBelow'
    BY <2>6, <2>7 DEF FlowsBelow
  <2> QED
    BY <2>3, <2>8 DEF FlowInv
<1> QED
  BY <1>1, <1>3, <1>5, <1>6 DEF CountInv

(* client_cnt is loaded.                                                   *)
LEMMA CountLoadCount ==
  ASSUME CInv, Watched, fault = "none", NEW s \in Servers, CountLoad(s)
  PROVE  CountInv'
<1>1. /\ MsgInv' /\ Sessions' = Sessions
      /\ \A t \in Servers : Counted(t)' = Counted(t) /\ Leaving(t)' = Leaving(t)
  BY CounterLoads
<1>2. /\ UNCHANGED <<flow, flowid, freg, client_cnt, dreg, hand, fault>>
      /\ creg' = [creg EXCEPT ![s] = client_cnt[s]] /\ spc' = [spc EXCEPT ![s] = "count_st"]
      /\ spc[s] = "count_ld"
  BY DEF CountLoad, Goto, connVars, listenVars
<1>3. RestTypes'
  BY <1>2 DEF CInv, RestTypes, Watched
<1>4. /\ \A t \in Servers : t # s => spc'[t] = spc[t] /\ creg'[t] = creg[t]
      /\ spc'[s] = "count_st" /\ creg'[s] = client_cnt[s]
  BY <1>2 DEF CInv, IInv, ThreadTypes, RestTypes
<1>5. CountsKept'
  BY <1>1, <1>2, <1>4 DEF CInv, CountsKept, Watched
<1>6. FlowInv'
  <2>1. \A t \in Servers :
          /\ spc'[t] = "flow_st" => spc[t] = "flow_st"
          /\ spc'[t] \in {"count_ld", "count_st", "start"} =>
               spc[t] \in {"count_ld", "count_st", "start"}
    BY <1>2, <1>4
  <2> QED
    BY <1>1, <1>2, <2>1, FlowFrame DEF CInv, Watched
<1> QED
  BY <1>1, <1>3, <1>5, <1>6 DEF CountInv

(* How many sessions of a server are counted, and that the number fits.    *)
LEMMA CountedFinite ==
  ASSUME NEW s
  PROVE  /\ IsFiniteSet(Counted(s)) /\ Cardinality(Counted(s)) \in Nat
         /\ Cardinality(Counted(s)) <= Cardinality(Conns) /\ Cardinality(Conns) \in Nat
         /\ Cardinality(Conns) < CountMod
<1>1. Counted(s) \in SUBSET Conns
  BY DEF Counted
<1> QED
  BY <1>1, ServersAssumption, FS_Subset, FS_CardinalityType

(* The connection of the current message reaches the next stage.           *)
StageMove(s, l, st) ==
  /\ spc[s] \in HandleLabels /\ Goto(s, l)
  /\ conn' = [conn EXCEPT ![Current(s).conn] = st]
  /\ UNCHANGED <<relayed, taken, home, hand, lpc>>
  /\ \/ l = "start" /\ st = "counted"
     \/ l \notin HandleLabels /\ st \in SessionStates

(* A server moves the connection of its current message one stage on.      *)
LEMMA StageStep ==
  ASSUME CInv, NEW s \in Servers, NEW l, NEW st, StageMove(s, l, st)
  PROVE  /\ Current(s).conn \in Conns /\ home[Current(s).conn] = s
         /\ conn'[Current(s).conn] = st
         /\ \A c \in Conns : c # Current(s).conn => conn'[c] = conn[c]
         /\ spc'[s] = l /\ \A t \in Servers : t # s => spc'[t] = spc[t]
         /\ MsgInv'
<1> USE DEF StageMove
<1> DEFINE m == Current(s).conn
           n == Len(taken[s])
<1>1. /\ n \in 1..Len(relayed[s]) /\ Current(s) = relayed[s][n]
      /\ m \in Conns /\ home[m] = s
      /\ conn[m] = IF spc[s] = "start" THEN "counted" ELSE "handled"
  BY CurrentState DEF CInv
<1>2. conn'[m] = st /\ \A c \in Conns : c # m => conn'[c] = conn[c]
  BY <1>1 DEF CInv, IInv, ThreadTypes
<1>3. spc'[s] = l /\ \A t \in Servers : t # s => spc'[t] = spc[t]
  BY DEF Goto, CInv, IInv, ThreadTypes
<1>m. m = relayed[s][n].conn
  BY <1>1
<1> HIDE DEF m
<1>4. RelayedOnce'
  BY DEF CInv, MsgInv, RelayedOnce
<1>5. HandAccepted'
  <2>1. lpc = "relay" => hand.conn \in Conns /\ hand.conn # m
    BY <1>1 DEF CInv, IInv, HandEarly, Message, MsgInv, HandAccepted
  <2> QED
    BY <1>2, <2>1 DEF CInv, MsgInv, HandAccepted
<1>6. ASSUME NEW t \in Servers, NEW i \in 1..Len(relayed[t])
      PROVE  conn'[relayed[t][i].conn] \in Stage(t, i)'
  <2>1. /\ relayed[t][i].conn \in Conns /\ home[relayed[t][i].conn] = t
        /\ conn[relayed[t][i].conn] \in Stage(t, i)
    <3>1. relayed[t][i] \in Message
      BY <1>6 DEF CInv, IInv, PairTypes
    <3> QED
      BY <1>6, <3>1 DEF Message, CInv, MsgInv, RelayedOnce, StagesKept
  <2>2. CASE t # s
    <3>1. Stage(t, i)' = Stage(t, i) /\ relayed[t][i].conn # m
      BY <1>1, <1>3, <2>1, <2>2 DEF Stage
    <3> QED
      BY <1>2, <2>1, <3>1
  <2>3. CASE t = s /\ i # n
    <3>1. relayed[t][i].conn # m
      BY <1>1, <1>m, <1>6, <2>3 DEF CInv, MsgInv, RelayedOnce
    <3>2. Stage(t, i)' = Stage(t, i)
      <4>1. n \in Nat /\ i \in Nat
        BY <1>1, <1>6, <2>3
      <4> QED
        BY <1>3, <2>3, <4>1 DEF Stage
    <3> QED
      BY <1>2, <2>1, <3>1, <3>2
  <2>4. CASE t = s /\ i = n
    <3>1. st \in Stage(t, i)'
      <4>1. n \in Nat
        BY <1>1
      <4> QED
        BY <1>3, <2>4, <4>1 DEF Stage, HandleLabels
    <3> QED
      BY <1>2, <1>m, <2>4, <3>1
  <2> QED
    BY <2>2, <2>3, <2>4
<1>7. StagesKept'
  BY <1>6 DEF StagesKept
<1> QED
  BY <1>1, <1>2, <1>3, <1>4, <1>5, <1>7 DEF MsgInv, m

(* client_cnt++ is stored: the session is counted in.                      *)
LEMMA CountStoreCount ==
  ASSUME CInv, Watched, fault = "none", NEW s \in Servers, CountStore(s)
  PROVE  CountInv'
<1> DEFINE m == Current(s).conn
<1>1. /\ UNCHANGED <<relayed, taken, home, hand, lpc, flow, flowid, freg, creg, dreg, fault>>
      /\ client_cnt' = [client_cnt EXCEPT ![s] = (creg[s] + 1) % CountMod]
      /\ conn' = [conn EXCEPT ![m] = "counted"] /\ Goto(s, "start")
      /\ spc[s] = "count_st" /\ spc[s] \in HandleLabels
  BY DEF CountStore, listenVars, pairVars, HandleLabels
<1>2. /\ m \in Conns /\ home[m] = s /\ conn'[m] = "counted"
      /\ \A c \in Conns : c # m => conn'[c] = conn[c]
      /\ spc'[s] = "start" /\ \A t \in Servers : t # s => spc'[t] = spc[t]
      /\ MsgInv'
  <2>1. StageMove(s, "start", "counted")
    BY <1>1 DEF StageMove
  <2> QED
    BY <2>1, StageStep
<1>3. conn[m] = "handled"
  BY <1>1, CurrentState DEF CInv
<1> HIDE DEF m
<1>4. creg[s] \in 0..(CountMod - 1) /\ CountMod \in Nat \ {0}
  BY ServersAssumption, CountedFinite DEF CInv, RestTypes
<1>5. (creg[s] + 1) % CountMod \in 0..(CountMod - 1)
  BY <1>4
<1>6. /\ client_cnt' \in [Servers -> 0..(CountMod - 1)]
      /\ client_cnt'[s] = (creg[s] + 1) % CountMod
      /\ \A t \in Servers : t # s => client_cnt'[t] = client_cnt[t]
  BY <1>1, <1>5 DEF CInv, RestTypes
<1>7. RestTypes'
  BY <1>1, <1>6 DEF CInv, RestTypes, Watched
<1>8. FlowInv'
  <2>1. Sessions' \subseteq Sessions
    BY <1>2 DEF Sessions
  <2>2. \A t \in Servers :
          /\ spc'[t] = "flow_st" => spc[t] = "flow_st"
          /\ spc'[t] \in {"count_ld", "count_st", "start"} =>
               spc[t] \in {"count_ld", "count_st", "start"}
    BY <1>1, <1>2
  <2> QED
    BY <1>1, <2>1, <2>2, FlowFrame DEF CInv, Watched
<1>9. /\ \A t \in Servers : t # s => Counted(t)' = Counted(t)
      /\ \A t \in Servers : Leaving(t)' = Leaving(t)
      /\ Counted(s)' = Counted(s) \cup {m} /\ m \notin Counted(s)
  BY <1>1, <1>2, <1>3 DEF Counted, Leaving, Decrementing
<1>10. ASSUME NEW t \in Servers \ crowded'
       PROVE  /\ client_cnt'[t] = Cardinality(Counted(t)') + (IF Leaving(t)' = {} THEN 0 ELSE 1)
              /\ spc'[t] = "count_st" => creg'[t] = client_cnt'[t]
              /\ \A c \in Leaving(t)' : dreg'[c] = client_cnt'[t]
  <2>1. t \notin crowded
    BY <1>10 DEF Watched
  <2>2. CASE t # s
    BY <1>1, <1>2, <1>6, <1>9, <1>10, <2>1, <2>2 DEF CInv, CountsKept
  <2>3. CASE t = s
    <3>1. Leaving(s) = {}
      <4>1. ~CountCrowded(s)
        BY <2>1, <2>3 DEF CInv, CrowdsSeen, Crowd
      <4> QED
        BY <1>1, <4>1 DEF CountCrowded, Leaving
    <3>2. client_cnt[s] = Cardinality(Counted(s)) /\ creg[s] = client_cnt[s]
      <4>1. Cardinality(Counted(s)) \in Nat
        BY CountedFinite
      <4>2. /\ client_cnt[s] = Cardinality(Counted(s)) + (IF Leaving(s) = {} THEN 0 ELSE 1)
            /\ creg[s] = client_cnt[s]
        BY <1>1, <2>1, <2>3 DEF CInv, CountsKept
      <4> QED
        BY <3>1, <4>1, <4>2
    <3>3. Cardinality(Counted(s)') = Cardinality(Counted(s)) + 1
      BY <1>9, CountedFinite, FS_AddElement
    <3>4. Cardinality(Counted(s)') <= Cardinality(Conns)
      <4>1. Counted(s)' \in SUBSET Conns
        BY DEF Counted
      <4> QED
        BY <4>1, FS_Subset, ServersAssumption
    <3>5. (creg[s] + 1) % CountMod = creg[s] + 1
      <4>1. creg[s] + 1 < CountMod /\ creg[s] + 1 \in Nat
        BY <1>4, <3>2, <3>3, <3>4, CountedFinite
      <4> QED
        BY <1>4, <4>1
    <3>6. client_cnt'[s] = Cardinality(Counted(s)')
      BY <1>6, <3>2, <3>3, <3>5
    <3>7. Leaving(s)' = {} /\ spc'[s] # "count_st"
      BY <1>2, <1>9, <3>1
    <3>8. client_cnt'[s] = Cardinality(Counted(s)') + (IF Leaving(s)' = {} THEN 0 ELSE 1)
      <4>1. Cardinality(Counted(s)') \in Nat
        BY <3>3, CountedFinite
      <4> QED
        BY <3>6, <3>7, <4>1
    <3> QED
      BY <2>3, <3>7, <3>8
  <2> QED
    BY <2>2, <2>3
<1>11. CountsKept'
  BY <1>10 DEF CountsKept
<1> QED
  BY <1>2, <1>7, <1>8, <1>11 DEF CountInv

(* The request gets the flowid its server made.                            *)
LEMMA StartCount ==
  ASSUME CInv, Watched, fault = "none", NEW s \in Servers, StartSession(s)
  PROVE  CountInv'
<1> DEFINE m == Current(s).conn
<1>1. /\ UNCHANGED <<relayed, taken, home, hand, lpc, countVars, fault>>
      /\ flow' = [flow EXCEPT ![m] = flowid]
      /\ conn' = [conn EXCEPT ![m] = "started"] /\ Goto(s, "drain")
      /\ spc[s] = "start" /\ spc[s] \in HandleLabels
  BY DEF StartSession, listenVars, pairVars, HandleLabels
<1>2. /\ m \in Conns /\ home[m] = s /\ conn'[m] = "started"
      /\ \A c \in Conns : c # m => conn'[c] = conn[c]
      /\ spc'[s] = "drain" /\ \A t \in Servers : t # s => spc'[t] = spc[t]
      /\ MsgInv'
  <2>1. "drain" \notin HandleLabels /\ "started" \in SessionStates
    BY DEF HandleLabels, SessionStates
  <2>2. StageMove(s, "drain", "started")
    BY <1>1, <2>1 DEF StageMove
  <2> QED
    BY <2>2, StageStep
<1>3. conn[m] = "counted"
  BY <1>1, CurrentState DEF CInv
<1> HIDE DEF m
<1>4. /\ flow' \in [Conns -> Nat] /\ flow'[m] = flowid
      /\ \A c \in Conns : c # m => flow'[c] = flow[c]
  BY <1>1, <1>2 DEF CInv, RestTypes
<1>5. RestTypes'
  BY <1>1, <1>4 DEF CInv, RestTypes, Watched, countVars
<1>6. CountsKept'
  <2>1. \A t \in Servers : Counted(t)' = Counted(t) /\ Leaving(t)' = Leaving(t)
    BY <1>1, <1>2, <1>3, CountedFrame DEF CountedStates
  <2> QED
    BY <1>1, <1>2, <2>1, CountFrame DEF CInv, Watched, countVars
<1>7. Sessions' = Sessions \cup {m} /\ m \notin Sessions
  BY <1>2, <1>3 DEF Sessions
<1>8. FlowInv'
  <2>1. SUFFICES ASSUME 0 \notin crowded' PROVE FlowInv'
    BY DEF FlowInv, FlowsBelow, FlowIdsDistinct
  <2>2. 0 \notin crowded
    BY <2>1 DEF Watched
  <2>3. /\ flowid' = flowid /\ freg' = freg /\ flowid \in Nat /\ flow \in [Conns -> Nat]
        /\ Sessions \subseteq Conns
    BY <1>1 DEF countVars, CInv, RestTypes, Sessions
  <2>4. \A c \in Sessions : flow[c] < flowid
    BY <1>1, <2>2 DEF CInv, FlowInv, FlowsBelow
  <2>5. FlowIdsDistinct'
    <3>1. ASSUME NEW c \in Sessions', NEW d \in Sessions', c # d PROVE flow'[c] # flow'[d]
      <4>1. CASE c # m /\ d # m
        BY <1>4, <1>7, <2>2, <2>3, <3>1, <4>1 DEF CInv, FlowInv, FlowIdsDistinct
      <4>2. CASE c = m
        BY <1>4, <1>7, <2>3, <2>4, <3>1, <4>2
      <4>3. CASE d = m
        BY <1>4, <1>7, <2>3, <2>4, <3>1, <4>3
      <4> QED
        BY <4>1, <4>2, <4>3
    <3> QED
      BY <3>1 DEF FlowIdsDistinct
  <2>6. \A t \in Servers : spc'[t] \notin HandleLabels \ {"flow_ld"}
    <3>1. "start" \in HandleLabels \ {"flow_ld"} /\ "drain" \notin HandleLabels
      BY DEF HandleLabels
    <3> QED
      BY <1>1, <1>2, <2>2, <3>1, OneFlowUserBefore
  <2>7. FlowsBelow'
    <3>1. \A c \in Sessions' : flow'[c] <= flowid'
      BY <1>4, <1>7, <2>3, <2>4
    <3> QED
      BY <2>6, <3>1 DEF FlowsBelow, HandleLabels
  <2> QED
    BY <2>5, <2>7 DEF FlowInv
<1> QED
  BY <1>2, <1>5, <1>6, <1>8 DEF CountInv

(* A release, whichever thread runs it, leaves the messages and the        *)
(* flowids alone.                                                          *)
LEMMA ReleaseFrame ==
  ASSUME CInv, Watched, fault = "none", NEW c \in Conns, Release(c)
  PROVE  /\ home[c] \in Servers /\ MsgInv' /\ FlowInv'
         /\ UNCHANGED <<home, flow, flowid, freg, creg, hand, fault>>
         /\ \A d \in Conns : d # c => conn'[d] = conn[d]
         /\ conn'[c] \in LeavingStates \cup {"released"}
         /\ \A t \in Servers : spc'[t] = "count_st" => spc[t] = "count_st"
<1>1. /\ UNCHANGED <<relayed, taken, home, hand, lpc, flow, flowid, freg, creg, fault>>
      /\ conn[c] \in SessionStates
  BY DEF Release, ReleaseOwnLoad, ReleaseLoad, ReleaseStore, listenVars, pairVars, SessionStates
<1>2. PICK st \in {"releasing_own", "releasing", "released"} : conn' = [conn EXCEPT ![c] = st]
  BY DEF Release, ReleaseOwnLoad, ReleaseLoad, ReleaseStore
<1>3. conn'[c] = st /\ \A d \in Conns : d # c => conn'[d] = conn[d]
  BY <1>2 DEF CInv, IInv, ThreadTypes
<1>4. home[c] \in Servers
  BY <1>1 DEF CInv, IInv, HomeKnown, SessionStates
<1>5. \A t \in Servers : \/ spc'[t] = spc[t]
                         \/ spc[t] \notin HandleLabels /\ spc'[t] \notin HandleLabels
  <2>1. \/ spc' = spc
        \/ /\ spc[home[c]] \in {"loop", "release"}
           /\ Goto(home[c], "loop") \/ Goto(home[c], "release")
    BY DEF Release, ReleaseOwnLoad, ReleaseLoad, ReleaseStore, CInv, IInv, OneOwnRelease
  <2> QED
    BY <1>4, <2>1 DEF Goto, CInv, IInv, ThreadTypes, HandleLabels
<1>6. RelayedOnce' /\ StagesKept'
  <2>1. st \in SessionStates
    BY DEF SessionStates
  <2> QED
    BY <1>1, <1>3, <1>5, <2>1, MsgFrame DEF CInv
<1>7. HandAccepted'
  BY <1>1, <1>3 DEF CInv, IInv, HandEarly, Message, MsgInv, HandAccepted, SessionStates
<1>8. Sessions' \subseteq Sessions
  BY <1>1, <1>3 DEF Sessions, SessionStates
<1>9. FlowInv'
  BY <1>1, <1>5, <1>8, FlowFrame DEF CInv, Watched, HandleLabels
<1> QED
  BY <1>1, <1>3, <1>4, <1>5, <1>6, <1>7, <1>9 DEF MsgInv, LeavingStates, HandleLabels

(* client_cnt is loaded for the decrement: the session leaves, and no      *)
(* other session of its server is leaving.                                 *)
LEMMA ReleaseLoadCount ==
  ASSUME CInv, Watched, fault = "none", NEW c \in Conns, ReleaseOwnLoad(c) \/ ReleaseLoad(c)
  PROVE  CountInv'
<1>0. PICK s \in Servers : s = home[c]
  BY ReleaseFrame DEF Release
<1>1. /\ MsgInv' /\ FlowInv'
      /\ UNCHANGED <<home, flow, flowid, freg, creg, hand, fault>>
      /\ \A d \in Conns : d # c => conn'[d] = conn[d]
      /\ \A t \in Servers : spc'[t] = "count_st" => spc[t] = "count_st"
  BY ReleaseFrame DEF Release
<1>2. /\ conn[c] \in CountedStates /\ conn'[c] \in LeavingStates
      /\ dreg' = [dreg EXCEPT ![c] = client_cnt[s]] /\ client_cnt' = client_cnt
  BY <1>0 DEF ReleaseOwnLoad, ReleaseLoad, CountedStates, LeavingStates, CInv, IInv, ThreadTypes
<1>3. /\ dreg' \in [Conns -> 0..(CountMod - 1)] /\ dreg'[c] = client_cnt[s]
      /\ \A d \in Conns : d # c => dreg'[d] = dreg[d]
  BY <1>1, <1>2 DEF CInv, RestTypes
<1>4. RestTypes'
  BY <1>1, <1>2, <1>3 DEF CInv, RestTypes, Watched
<1>5. /\ \A t \in Servers : t # s => Counted(t)' = Counted(t) /\ Leaving(t)' = Leaving(t)
      /\ Counted(s)' = Counted(s) \ {c} /\ c \in Counted(s)
      /\ Leaving(s)' = Leaving(s) \cup {c} /\ c \notin Leaving(s)
  BY <1>0, <1>1, <1>2 DEF Counted, Leaving, Decrementing, CountedStates, LeavingStates
<1>6. ASSUME NEW t \in Servers \ crowded'
      PROVE  /\ client_cnt'[t] = Cardinality(Counted(t)') + (IF Leaving(t)' = {} THEN 0 ELSE 1)
             /\ spc'[t] = "count_st" => creg'[t] = client_cnt'[t]
             /\ \A d \in Leaving(t)' : dreg'[d] = client_cnt'[t]
  <2>1. t \notin crowded
    BY <1>6 DEF Watched
  <2>2. spc'[t] = "count_st" => creg'[t] = client_cnt'[t]
    BY <1>1, <1>2, <1>6, <2>1 DEF CInv, CountsKept
  <2>3. CASE t # s
    <3>1. \A d \in Leaving(t)' : d \in Conns /\ d # c
      BY <1>0, <1>1, <1>5, <1>6, <2>3 DEF Leaving
    <3>2. /\ client_cnt[t] = Cardinality(Counted(t)) + (IF Leaving(t) = {} THEN 0 ELSE 1)
          /\ \A d \in Leaving(t) : dreg[d] = client_cnt[t]
      BY <1>6, <2>1 DEF CInv, CountsKept
    <3> QED
      BY <1>2, <1>3, <1>5, <1>6, <2>2, <2>3, <3>1, <3>2
  <2>4. CASE t = s
    <3>1. Leaving(s) = {}
      <4>1. ~CountCrowded(s)'
        BY <1>1, <1>6, <2>4 DEF Watched, Crowd
      <4>2. \A d \in Leaving(s)' : d = c
        BY <1>5, <4>1 DEF CountCrowded, Leaving
      <4> QED
        BY <1>5, <4>2
    <3>2. client_cnt[s] = Cardinality(Counted(s))
      <4>1. client_cnt[s] = Cardinality(Counted(s)) + (IF Leaving(s) = {} THEN 0 ELSE 1)
        BY <1>6, <2>1, <2>4 DEF CInv, CountsKept
      <4> QED
        BY <3>1, <4>1, CountedFinite
    <3>3. Cardinality(Counted(s)') = Cardinality(Counted(s)) - 1
      BY <1>5, CountedFinite, FS_RemoveElement
    <3>4. Leaving(s)' = {c}
      BY <1>5, <3>1
    <3>5. client_cnt'[s] = Cardinality(Counted(s)') + 1
      BY <1>2, <3>2, <3>3, CountedFinite
    <3>6. \A d \in Leaving(s)' : dreg'[d] = client_cnt'[s]
      BY <1>2, <1>3, <3>4
    <3>7. Leaving(s)' # {}
      BY <3>4
    <3> QED
      BY <2>2, <2>4, <3>5, <3>6, <3>7
  <2> QED
    BY <2>3, <2>4
<1>7. CountsKept'
  BY <1>6 DEF CountsKept
<1> QED
  BY <1>1, <1>4, <1>7 DEF CountInv

(* client_cnt-- is stored: the session has left.                           *)
LEMMA ReleaseStoreCount ==
  ASSUME CInv, Watched, fault = "none", NEW c \in Conns, ReleaseStore(c)
  PROVE  CountInv'
<1>0. PICK s \in Servers : s = home[c]
  BY ReleaseFrame DEF Release
<1>1. /\ MsgInv' /\ FlowInv'
      /\ UNCHANGED <<home, flow, flowid, freg, creg, hand, fault>>
      /\ \A d \in Conns : d # c => conn'[d] = conn[d]
      /\ \A t \in Servers : spc'[t] = "count_st" => spc[t] = "count_st"
  BY ReleaseFrame DEF Release
<1>2. /\ conn[c] \in LeavingStates /\ conn'[c] = "released"
      /\ client_cnt' = [client_cnt EXCEPT ![s] = (dreg[c] - 1) % CountMod] /\ dreg' = dreg
  BY <1>0 DEF ReleaseStore, LeavingStates, CInv, IInv, ThreadTypes
<1>3. dreg[c] \in 0..(CountMod - 1) /\ CountMod \in Nat \ {0}
  BY ServersAssumption, CountedFinite DEF CInv, RestTypes
<1>4. (dreg[c] - 1) % CountMod \in 0..(CountMod - 1)
  BY <1>3
<1>5. /\ client_cnt' \in [Servers -> 0..(CountMod - 1)]
      /\ client_cnt'[s] = (dreg[c] - 1) % CountMod
      /\ \A t \in Servers : t # s => client_cnt'[t] = client_cnt[t]
  BY <1>1, <1>2, <1>4 DEF CInv, RestTypes
<1>6. RestTypes'
  BY <1>1, <1>2, <1>5 DEF CInv, RestTypes, Watched
<1>7. /\ \A t \in Servers : Counted(t)' = Counted(t)
      /\ \A t \in Servers : t # s => Leaving(t)' = Leaving(t)
      /\ Leaving(s)' = Leaving(s) \ {c} /\ c \in Leaving(s)
  BY <1>0, <1>1, <1>2 DEF Counted, Leaving, Decrementing, LeavingStates
<1>8. ASSUME NEW t \in Servers \ crowded'
      PROVE  /\ client_cnt'[t] = Cardinality(Counted(t)') + (IF Leaving(t)' = {} THEN 0 ELSE 1)
             /\ spc'[t] = "count_st" => creg'[t] = client_cnt'[t]
             /\ \A d \in Leaving(t)' : dreg'[d] = client_cnt'[t]
  <2>1. t \notin crowded
    BY <1>8 DEF Watched
  <2>2. /\ client_cnt[t] = Cardinality(Counted(t)) + (IF Leaving(t) = {} THEN 0 ELSE 1)
        /\ spc[t] = "count_st" => creg[t] = client_cnt[t]
        /\ \A d \in Leaving(t) : dreg[d] = client_cnt[t]
    BY <1>8, <2>1 DEF CInv, CountsKept
  <2>3. CASE t # s
    BY <1>1, <1>2, <1>5, <1>7, <1>8, <2>2, <2>3
  <2>4. CASE t = s
    <3>1. Leaving(s) = {c} /\ spc[s] # "count_st"
      <4>1. ~CountCrowded(s)
        BY <1>1, <2>1, <2>4 DEF CInv, CrowdsSeen, Crowd
      <4> QED
        BY <1>7, <4>1 DEF CountCrowded, Leaving
    <3>2. dreg[c] = Cardinality(Counted(s)) + 1
      BY <2>2, <2>4, <3>1
    <3>3. Leaving(s)' = {} /\ spc'[s] # "count_st"
      BY <1>1, <1>7, <3>1
    <3>4. (dreg[c] - 1) % CountMod = Cardinality(Counted(s))
      <4>1. dreg[c] - 1 = Cardinality(Counted(s)) /\ Cardinality(Counted(s)) \in Nat
            /\ Cardinality(Counted(s)) < CountMod
        BY <1>3, <3>2, CountedFinite
      <4> QED
        BY <1>3, <4>1
    <3>5. client_cnt'[s] = Cardinality(Counted(s)') + (IF Leaving(s)' = {} THEN 0 ELSE 1)
      BY <1>1, <1>5, <1>7, <3>3, <3>4, CountedFinite
    <3> QED
      BY <2>4, <3>3, <3>5
  <2> QED
    BY <2>3, <2>4
<1>9. CountsKept'
  BY <1>8 DEF CountsKept
<1> QED
  BY <1>1, <1>6, <1>9 DEF CountInv

(* A connection is relayed: its message is the last one of its server.     *)
LEMMA RelayCount ==
  ASSUME CInv, Watched, fault = "none", Relay
  PROVE  CountInv'
<1> DEFINE m == hand.conn
           s == home[m]
           q == relayed[s]
<1>1. hand \in Message /\ m \in Conns /\ s \in Servers /\ conn[m] = "accepted"
  BY DEF Relay, CInv, IInv, HandEarly, MsgInv, HandAccepted, Message
<1>2. /\ UNCHANGED <<spc, taken, home, flow, countVars, fault>>
      /\ relayed' = [relayed EXCEPT ![s] = Append(q, hand)]
      /\ conn' = [conn EXCEPT ![m] = "relayed"] /\ lpc' = "loop" /\ hand' = <<>>
  BY DEF Relay
<1>3. /\ q \in Seq(Message) /\ Len(q) \in Nat
      /\ Append(q, hand) \in Seq(Message) /\ Len(Append(q, hand)) = Len(q) + 1
      /\ Append(q, hand)[Len(q) + 1] = hand
      /\ \A i \in 1..Len(q) : Append(q, hand)[i] = q[i]
  <2>1. q \in Seq(Message)
    BY <1>1 DEF CInv, IInv, PairTypes
  <2> HIDE DEF q
  <2> QED
    BY <1>1, <2>1, AppendProperties, LenProperties
<1>4. /\ relayed'[s] = Append(q, hand)
      /\ \A t \in Servers : t # s => relayed'[t] = relayed[t]
  BY <1>1, <1>2 DEF CInv, IInv, PairTypes
<1>5. conn'[m] = "relayed" /\ \A c \in Conns : c # m => conn'[c] = conn[c]
  BY <1>1, <1>2 DEF CInv, IInv, ThreadTypes
<1>6. Len(taken[s]) \in Nat /\ Len(taken[s]) <= Len(q)
  <2> DEFINE a == taken[s]
             b == input[s]
             c == output[s]
  <2>1. /\ q \in Seq(Message) /\ a \in Seq(Message) /\ b \in Seq(Message)
        /\ c \in Seq(Message) /\ q = (a \o b) \o c
    BY <1>1 DEF CInv, IInv, PairTypes, RelayInOrder
  <2> HIDE DEF q, a, b, c
  <2>2. Len(a) \in Nat /\ Len(a) <= Len(q)
    BY <2>1, TakenPrefix
  <2> QED
    BY <2>2 DEF a
<1>7. ASSUME NEW t \in Servers, NEW i \in 1..Len(relayed[t])
      PROVE  /\ relayed[t][i].conn \in Conns /\ relayed[t][i].conn # m
             /\ conn[relayed[t][i].conn] \in Stage(t, i) /\ home[relayed[t][i].conn] = t
  <2>1. relayed[t][i] \in Message
    BY <1>7 DEF CInv, IInv, PairTypes
  <2>2. conn[relayed[t][i].conn] \in Stage(t, i) /\ home[relayed[t][i].conn] = t
    BY <1>7 DEF CInv, MsgInv, StagesKept, RelayedOnce
  <2>3. "accepted" \notin Stage(t, i)
    BY DEF Stage, SessionStates
  <2> QED
    BY <1>1, <2>1, <2>2, <2>3 DEF Message
<1> HIDE DEF m, s, q
<1>8. ASSUME NEW t \in Servers, NEW i \in 1..Len(relayed'[t])
      PROVE  \/ /\ i \in 1..Len(relayed[t]) /\ relayed'[t][i] = relayed[t][i]
             \/ t = s /\ i = Len(q) + 1 /\ relayed'[t][i].conn = m
  <2>1. CASE t # s
    BY <1>4, <1>8, <2>1
  <2>2. CASE t = s
    <3>1. i \in 1..(Len(q) + 1)
      BY <1>3, <1>4, <1>8, <2>2
    <3>2. i \in 1..Len(q) \/ i = Len(q) + 1
      BY <1>3, <3>1
    <3> QED
      BY <1>3, <1>4, <2>2, <3>2 DEF q, m
  <2> QED
    BY <2>1, <2>2
<1>9. RelayedOnce'
  <2>1. ASSUME NEW t \in Servers, NEW i \in 1..Len(relayed'[t])
        PROVE  home'[relayed'[t][i].conn] = t
    BY <1>2, <1>7, <1>8, <2>1 DEF s
  <2>2. ASSUME NEW t \in Servers, NEW i \in 1..Len(relayed'[t]), NEW j \in 1..Len(relayed'[t]),
               relayed'[t][i].conn = relayed'[t][j].conn
        PROVE  i = j
    <3>1. CASE i \in 1..Len(relayed[t]) /\ relayed'[t][i] = relayed[t][i]
      BY <1>7, <1>8, <2>2, <3>1 DEF CInv, MsgInv, RelayedOnce
    <3>2. CASE t = s /\ i = Len(q) + 1 /\ relayed'[t][i].conn = m
      BY <1>7, <1>8, <2>2, <3>2 DEF CInv, MsgInv, RelayedOnce
    <3> QED
      BY <1>8, <2>2, <3>1, <3>2
  <2> QED
    BY <2>1, <2>2 DEF RelayedOnce
<1>10. ASSUME NEW t \in Servers, NEW i \in 1..Len(relayed'[t])
       PROVE  conn'[relayed'[t][i].conn] \in Stage(t, i)'
  <2>1. Stage(t, i)' = Stage(t, i)
    BY <1>2 DEF Stage
  <2>2. CASE i \in 1..Len(relayed[t]) /\ relayed'[t][i] = relayed[t][i]
    BY <1>5, <1>7, <1>10, <2>1, <2>2
  <2>3. CASE t = s /\ i = Len(q) + 1 /\ relayed'[t][i].conn = m
    <3>1. Stage(t, i) = {"relayed"}
      BY <1>3, <1>6, <2>3 DEF Stage
    <3> QED
      BY <1>5, <2>1, <2>3, <3>1
  <2> QED
    BY <1>8, <1>10, <2>2, <2>3
<1>11. MsgInv'
  BY <1>2, <1>9, <1>10 DEF MsgInv, HandAccepted, StagesKept
<1>12. RestTypes'
  BY <1>2, TypesFrame DEF CInv, RestTypes, Faults
<1>13. FlowInv'
  <2>1. Sessions' \subseteq Sessions
    BY <1>5 DEF Sessions
  <2> QED
    BY <1>2, <2>1, FlowFrame DEF CInv, Watched, countVars
<1>14. CountsKept'
  <2>1. \A t \in Servers : Counted(t)' = Counted(t) /\ Leaving(t)' = Leaving(t)
    BY <1>1, <1>2, <1>5, CountedFrame DEF CountedStates, LeavingStates
  <2> QED
    BY <1>2, <2>1, CountFrame DEF CInv, Watched, countVars
<1> QED
  BY <1>11, <1>12, <1>13, <1>14 DEF CountInv

(* The message at the head of in_buf is the next one of its server, and    *)
(* nobody has touched its connection since it was relayed.                 *)
LEMMA ReceiveCount ==
  ASSUME CInv, Watched, fault = "none", NEW s \in Servers, ReceiveOne(s)
  PROVE  CountInv'
<1> DEFINE n == Len(taken[s])
<1>1. /\ n \in Nat /\ Len(relayed[s]) \in Nat /\ n + 1 <= Len(relayed[s])
      /\ relayed[s][n + 1] = Head(input[s])
      /\ Len(taken'[s]) = n + 1 /\ \A t \in Servers : t # s => taken'[t] = taken[t]
  <2> DEFINE r == relayed[s]
             a == taken[s]
             b == input[s]
             c == output[s]
  <2>1. /\ r \in Seq(Message) /\ a \in Seq(Message) /\ b \in Seq(Message)
        /\ c \in Seq(Message) /\ r = (a \o b) \o c /\ b # <<>>
    BY DEF ReceiveOne, CInv, IInv, PairTypes, RelayInOrder
  <2>2. /\ taken' = [taken EXCEPT ![s] = Append(a, Head(b))]
        /\ taken \in [Servers -> Seq(Message)]
    BY DEF ReceiveOne, CInv, IInv, PairTypes
  <2> HIDE DEF r, a, b, c
  <2>3. /\ Len(a) \in Nat /\ Len(r) \in Nat
        /\ Len(a) + 1 <= Len(r) /\ r[Len(a) + 1] = Head(b)
    BY <2>1, TakenPrefix
  <2>4. Len(Append(a, Head(b))) = Len(a) + 1
    BY <2>1, <2>3, AppendProperties
  <2>5. taken'[s] = Append(a, Head(b)) /\ \A t \in Servers : t # s => taken'[t] = taken[t]
    BY <2>2
  <2>6. Len(taken'[s]) = Len(a) + 1
    BY <2>4, <2>5
  <2> QED
    BY <2>3, <2>5, <2>6 DEF r, a, b
<1>2. PICK m \in Conns : m = relayed[s][n + 1].conn
  <2>1. n + 1 \in 1..Len(relayed[s])
    BY <1>1
  <2>2. relayed[s][n + 1] \in Message
    BY <2>1 DEF CInv, IInv, PairTypes
  <2> QED
    BY <2>2 DEF Message
<1>3. /\ UNCHANGED <<relayed, home, hand, lpc, flow, countVars, fault>>
      /\ conn' = [conn EXCEPT ![m] = "handled"] /\ spc[s] = "drain"
      /\ spc' = [spc EXCEPT ![s] = "flow_ld"]
  BY <1>1, <1>2 DEF ReceiveOne, Goto, listenVars
<1> HIDE DEF n
<1>4. /\ conn'[m] = "handled" /\ \A c \in Conns : c # m => conn'[c] = conn[c]
      /\ spc'[s] = "flow_ld" /\ \A t \in Servers : t # s => spc'[t] = spc[t]
  BY <1>2, <1>3 DEF CInv, IInv, ThreadTypes
<1>5. conn[m] = "relayed" /\ home[m] = s
  <2>1. n + 1 \in 1..Len(relayed[s])
    BY <1>1
  <2>2. conn[m] \in Stage(s, n + 1) /\ home[m] = s
    BY <1>2, <2>1 DEF CInv, MsgInv, StagesKept, RelayedOnce
  <2>3. Stage(s, n + 1) = {"relayed"}
    BY <1>1 DEF Stage, n
  <2> QED
    BY <2>2, <2>3
<1>6. RelayedOnce'
  BY <1>3 DEF CInv, MsgInv, RelayedOnce
<1>7. HandAccepted'
  BY <1>3, <1>4, <1>5 DEF CInv, IInv, HandEarly, Message, MsgInv, HandAccepted
<1>8. ASSUME NEW t \in Servers, NEW i \in 1..Len(relayed[t])
      PROVE  conn'[relayed[t][i].conn] \in Stage(t, i)'
  <2>1. /\ relayed[t][i].conn \in Conns /\ home[relayed[t][i].conn] = t
        /\ conn[relayed[t][i].conn] \in Stage(t, i) /\ i \in Nat
    <3>1. relayed[t][i] \in Message
      BY <1>8 DEF CInv, IInv, PairTypes
    <3> QED
      BY <1>8, <3>1 DEF Message, CInv, MsgInv, RelayedOnce, StagesKept
  <2>2. CASE t # s
    <3>1. Stage(t, i)' = Stage(t, i) /\ relayed[t][i].conn # m
      BY <1>1, <1>4, <1>5, <2>1, <2>2 DEF Stage
    <3> QED
      BY <1>4, <2>1, <3>1
  <2>3. CASE t = s /\ i # n + 1
    <3>1. relayed[t][i].conn # m
      <4>1. n + 1 \in 1..Len(relayed[s])
        BY <1>1
      <4> QED
        BY <1>2, <1>8, <2>3, <4>1 DEF CInv, MsgInv, RelayedOnce
    <3>2. Stage(t, i)' = Stage(t, i)
      <4>1. "drain" \notin HandleLabels
        BY DEF HandleLabels
      <4>2. CASE i > n + 1
        BY <1>1, <2>1, <2>3, <4>2 DEF Stage, n
      <4>3. CASE i < n + 1
        <5>1. ~(i > n) /\ ~(i > n + 1)
          BY <1>1, <2>1, <4>3
        <5> QED
          BY <1>1, <1>3, <2>3, <4>1, <4>3, <5>1 DEF Stage, n
      <4> QED
        BY <1>1, <2>1, <2>3, <4>2, <4>3
    <3> QED
      BY <1>4, <2>1, <3>1, <3>2
  <2>4. CASE t = s /\ i = n + 1
    <3>1. Stage(t, i)' = {"handled"}
      BY <1>1, <1>4, <2>4 DEF Stage, HandleLabels
    <3> QED
      BY <1>2, <1>4, <2>4, <3>1
  <2> QED
    BY <2>2, <2>3, <2>4
<1>9. MsgInv'
  BY <1>3, <1>6, <1>7, <1>8 DEF MsgInv, StagesKept
<1>10. RestTypes'
  BY <1>3, TypesFrame DEF CInv, RestTypes, Faults
<1>11. FlowInv'
  <2>1. Sessions' \subseteq Sessions
    BY <1>4 DEF Sessions
  <2> QED
    BY <1>3, <1>4, <2>1, FlowFrame DEF CInv, Watched, countVars
<1>12. CountsKept'
  <2>1. \A t \in Servers : Counted(t)' = Counted(t) /\ Leaving(t)' = Leaving(t)
    BY <1>3, <1>4, <1>5, CountedFrame DEF CountedStates, LeavingStates
  <2> QED
    BY <1>3, <1>4, <2>1, CountFrame DEF CInv, Watched, countVars
<1> QED
  BY <1>9, <1>10, <1>11, <1>12 DEF CountInv

(* Before the listener started nothing is relayed or counted.              *)
LEMMA InitCInv == Init => CInv
<1> SUFFICES ASSUME Init PROVE CInv
  OBVIOUS
<1>1. IInv
  BY InitIInv
<1>2. 0 \in 0..(CountMod - 1)
  BY ServersAssumption, CountedFinite
<1>3. RestTypes
  BY <1>2 DEF Init, RestTypes
<1>4. MsgInv
  BY DEF Init, MsgInv, HandAccepted, RelayedOnce, StagesKept
<1>5. FlowInv /\ CrowdsSeen
  BY DEF Init, FlowInv, FlowsBelow, FlowIdsDistinct, Sessions, CrowdsSeen, Crowd, CountCrowded,
     FlowCrowded, FlowUsers, Decrementing, HandleLabels
<1>6. CountsKept
  <2>1. \A s \in Servers : Counted(s) = {} /\ Leaving(s) = {}
    BY DEF Init, Counted, Leaving, Decrementing
  <2> QED
    BY <2>1, FS_EmptySet DEF Init, CountsKept
<1> QED
  BY <1>1, <1>3, <1>4, <1>5, <1>6 DEF CInv

(* Every step of the listener, the servers and the sessions keeps CInv.    *)
LEMMA StepCInv == CInv /\ [Next]_vars => CInv'
<1> SUFFICES ASSUME CInv, [Next]_vars PROVE CInv'
  OBVIOUS
<1>1. IInv'
  BY StepIInv DEF CInv
<1>2. CASE Next
  <2>1. Watched /\ CrowdsSeen'
    <3>1. Crowd' \subseteq 0..NumServers
      BY ServersAssumption DEF Crowd, Servers
    <3> QED
      BY <1>2, <3>1 DEF Next, Watch, Watched, CrowdsSeen, CInv, RestTypes
  <2>2. CountInv'
    BY <1>2, <2>1, StartupCount, AcceptCount, RelayCount, RelayFailsCount, LoopCount,
       ReceiveCount, FlowLoadCount, FlowStoreCount, CountLoadCount, CountStoreCount, StartCount,
       ServeCount, ReleaseLoadCount, ReleaseStoreCount
       DEF Next, ListenerStart, HandOver, ServerThread, HandleMessage, Release
  <2> QED
    BY <1>1, <2>1, <2>2 DEF CInv, CountInv
<1>3. CASE UNCHANGED vars
  <2>1. RestTypes' /\ MsgInv'
    BY <1>3 DEF CInv, RestTypes, MsgInv, HandAccepted, RelayedOnce, StagesKept, Stage, vars,
       listenVars, pairVars, connVars, countVars
  <2>2. CrowdsSeen' /\ FlowInv'
    BY <1>3 DEF CInv, FlowInv, FlowsBelow, FlowIdsDistinct, Sessions, CrowdsSeen, Crowd,
       CountCrowded, FlowCrowded, FlowUsers, Decrementing, vars, connVars, countVars
  <2>3. CountsKept'
    <3>1. \A s \in Servers : Counted(s)' = Counted(s) /\ Leaving(s)' = Leaving(s)
      BY <1>3 DEF vars, connVars, Counted, Leaving, Decrementing
    <3> QED
      BY <1>3, <3>1, CountFrame DEF CInv, vars, countVars
  <2> QED
    BY <1>1, <2>1, <2>2, <2>3 DEF CInv
<1> QED
  BY <1>2, <1>3

(* CInv holds of every behaviour.                                          *)
LEMMA CountInvariance == Spec => []CInv
  BY InitCInv, StepCInv, PTL DEF Spec

(* For every number of servers and connections, the pair between           *)
(* send_socket_to_core and relay_receive_message loses, repeats and        *)
(* reorders nothing, also what is written while the server is set up.      *)
THEOREM RelayCorrect == Spec => []RelayInOrder
  BY Invariance, PTL DEF IInv

(* For every number of servers and connections, no relayed message is left *)
(* without a pending or running callback once in_buf reads.                *)
THEOREM NotificationCorrect == Spec => []NotificationKept
  BY Invariance, PTL DEF IInv

(* For every number of servers and connections, the process dereferences a *)
(* NULL out_buf or event_base only for a connection that was accepted      *)
(* before its server thread had finished setup_server.                     *)
THEOREM FaultCorrect == Spec => []FaultNeedsEarlyAccept
  BY Invariance, PTL DEF IInv

(* For every number of servers and connections, every variable of the      *)
(* listener, the servers and the pairs stays in its range: client_cnt and  *)
(* its copies in registers are those of an unsigned int that wraps.        *)
THEOREM TypeCorrect == Spec => []TypeOK
<1>1. CInv => TypeOK
  BY DEF CInv, IInv, PairTypes, ThreadTypes, RestTypes, TypeOK
<1> QED
  BY <1>1, CountInvariance, PTL

(* For every number of servers and connections, client_cnt of a server is  *)
(* the number of its sessions whenever no thread is inside ++ or --,       *)
(* unless two threads were inside one of them at once: the missing lock is *)
(* the only way the count goes wrong.                                      *)
THEOREM CountCorrect == Spec => []CountExactUnlessCrowded
<1>1. CInv => CountExactUnlessCrowded
  <2> SUFFICES ASSUME CInv, NEW s \in Servers \ crowded, CountSettled(s)
               PROVE  client_cnt[s] = Cardinality(Counted(s))
    BY DEF CountExactUnlessCrowded
  <2>1. Leaving(s) = {}
    BY DEF CountSettled, Leaving
  <2>2. client_cnt[s] = Cardinality(Counted(s)) + (IF Leaving(s) = {} THEN 0 ELSE 1)
    BY DEF CInv, CountsKept
  <2> QED
    BY <2>1, <2>2, CountedFinite
<1> QED
  BY <1>1, CountInvariance, PTL

(* For every number of servers and connections, two sessions have the same *)
(* flowid only after two servers were between flowid++ and its second read *)
(* at the same time.                                                       *)
THEOREM FlowIdsCorrect == Spec => []FlowIdsDistinct
  BY CountInvariance, PTL DEF CInv, FlowInv

=============================================================================
