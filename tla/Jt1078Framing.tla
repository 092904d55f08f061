--------------------------- MODULE Jt1078Framing ---------------------------
(***************************************************************************)
(* How the bytes of one media connection become JT/T-1078 packets:         *)
(* libevent's socket bufferevent fills its input buffer between the        *)
(* watermarks, and stream_input_handler takes packets off the front.       *)
(*                                                                         *)
(* The stream is a sequence of packets that each know where they begin; a  *)
(* byte is its position in the stream, so the input buffer is the interval *)
(* of positions from drained to received.  One turn of the handler's loop  *)
(* is one step; socket reads, EOF and timeouts come between callbacks, a   *)
(* close by another thread at any time.                                    *)
(***************************************************************************)
EXTENDS Integers, Sequences

CONSTANTS
  Streams,       (* the streams a peer may send                              *)
  MagicLen,      (* bytes of the magic code (4)                              *)
  HdrLen,        (* bytes of the header (30)                                 *)
  PackSize,      (* JT1078_STREAM_PACKAGE_SIZE                               *)
  Low, High      (* the watermarks                                           *)

Kinds == {"video", "other", "bad"}

(* size: bytes the packet takes; claims: bytes its header stands for, which *)
(* is another number only for an audio packet that lacks the 4-byte voice   *)
(* header packet[28] is read from; at: where it begins.                     *)
Packets == [kind: Kinds, size: Nat, claims: Nat, at: Nat]

ASSUME FramingAssumption ==
  /\ MagicLen \in Nat /\ HdrLen \in Nat /\ PackSize \in Nat
  /\ Low \in Nat /\ High \in Nat
  /\ 0 < MagicLen /\ MagicLen < HdrLen /\ HdrLen < PackSize
  /\ PackSize <= Low /\ Low < High

ASSUME StreamAssumption ==
  \A s \in Streams :
    /\ s \in Seq(Packets)
    /\ Len(s) > 0 => s[1].at = 0
    /\ \A i \in 1..Len(s) : /\ s[i].size > 0 /\ s[i].claims >= HdrLen
                            /\ i < Len(s) => s[i + 1].at = s[i].at + s[i].size
    /\ \A i, j \in 1..Len(s) : i < j => s[i].at < s[j].at

VARIABLES
  stream,        (* what the peer sends                                      *)
  received,      (* bytes read from the socket                               *)
  drained,       (* bytes evbuffer_remove took out                           *)
  reading,       (* EV_READ is enabled                                       *)
  readPending, eventPending,   (* of the deferred callback                   *)
  low,           (* wm_read.low                                              *)
  wmark,         (* thiz->wmark                                              *)
  cond,          (* thiz->cond                                               *)
  closer,        (* progress of a client_connection_close by another thread  *)
  pc, len,       (* of the callback: where it is, its local len              *)
  out            (* numbers of the packets handed on                         *)

bevVars == <<received, reading, low>>
pendVars == <<readPending, eventPending>>
cbVars == <<pc, len>>
vars == <<stream, bevVars, drained, pendVars, wmark, cond, closer, cbVars, out>>

TypeOK ==
  /\ stream \in Streams
  /\ received \in Nat /\ drained \in Nat /\ drained <= received
  /\ reading \in {0, 1} /\ readPending \in {0, 1} /\ eventPending \in {0, 1}
  /\ low \in {0, Low} /\ wmark \in {-1, 0, 1, 2} /\ cond \in {0, 1}
  /\ closer \in {"none", "disabled", "done"}
  /\ pc \in {"idle", "proc"} /\ len \in Nat
  /\ out \in Seq(1..Len(stream))

(* client_connection_register: a high mark, no low mark.                   *)
Init ==
  /\ stream \in Streams
  /\ received = 0 /\ drained = 0 /\ reading = 1 /\ low = 0
  /\ readPending = 0 /\ eventPending = 0
  /\ wmark = 0 /\ cond = 1 /\ closer = "none"
  /\ pc = "idle" /\ len = 0 /\ out = <<>>

-----------------------------------------------------------------------------
Lesser(a, b) == IF a <= b THEN a ELSE b
Total == IF stream = <<>> THEN 0
         ELSE stream[Len(stream)].at + stream[Len(stream)].size
Buffered == received - drained

(* bufferevent_inbuf_wm_cb runs on every change of the buffer.             *)
Suspended == Buffered >= High

-----------------------------------------------------------------------------
(* The socket and libevent.                                                *)

(* Mutant of Arrive: the watermark is tested before the bytes are added.   *)
ArriveTestsBefore(n) ==
  /\ pc = "idle" /\ reading = 1 /\ ~Suspended
  /\ received' = received + n /\ received' <= Total /\ Buffered + n <= High
  /\ readPending' = IF Buffered >= low /\ Buffered > 0 THEN 1 ELSE readPending
  /\ UNCHANGED <<stream, reading, low, drained, eventPending, wmark, cond,
                 closer, cbVars, out>>

(* bufferevent_readcb: never beyond the high mark; the read callback is    *)
(* deferred, and asked for only when the low mark is reached.              *)
Arrive(n) ==
  /\ pc = "idle" /\ reading = 1 /\ ~Suspended
  /\ received' = received + n /\ received' <= Total /\ Buffered + n <= High
  /\ readPending' = IF Buffered + n >= low THEN 1 ELSE readPending
  /\ UNCHANGED <<stream, reading, low, drained, eventPending, wmark, cond,
                 closer, cbVars, out>>

(* bufferevent_readcb on EOF, an error or the read timeout.  A suspended   *)
(* bufferevent has no read event, so it notices none of them.              *)
ReadEnds ==
  /\ pc = "idle" /\ reading = 1 /\ ~Suspended
  /\ reading' = 0 /\ eventPending' = 1
  /\ UNCHANGED <<stream, received, low, drained, readPending, wmark, cond,
                 closer, cbVars, out>>

-----------------------------------------------------------------------------
(* The stream session's callbacks.                                         *)

(* stream_input_handler up to its loop.                                    *)
ReadCallback ==
  /\ pc = "idle" /\ readPending = 1
  /\ readPending' = 0
  /\ IF cond = 0
       THEN UNCHANGED <<pc, len, low, wmark>>
       ELSE /\ pc' = "proc" /\ len' = Buffered
            /\ low' = IF wmark = 1 THEN Low ELSE low
            /\ wmark' = IF wmark = 1 THEN 2 ELSE wmark
  /\ UNCHANGED <<stream, received, reading, drained, eventPending, cond,
                 closer, out>>

(* stream_socket_eventcb, which the deferred callback calls after a read.  *)
EventCallback ==
  /\ pc = "idle" /\ readPending = 0 /\ eventPending = 1
  /\ eventPending' = 0
  /\ reading' = 0 /\ cond' = 0
  /\ UNCHANGED <<stream, received, low, drained, readPending, wmark, closer,
                 cbVars, out>>

(* Packets that begin with a good magic code at the front of the buffer.   *)
Heads == {i \in 1..Len(stream) : stream[i].at = drained /\ stream[i].kind # "bad"}

(* packet_jt1078_parse on what evbuffer_copyout copied into the zeroed     *)
(* thiz->buff.                                                             *)
Parse ==
  LET clen == Lesser(Buffered, PackSize) IN
  IF clen < MagicLen \/ Heads = {} THEN -1
  ELSE LET claims == stream[CHOOSE i \in Heads : TRUE].claims
       IN IF claims - HdrLen > clen - HdrLen THEN 0 ELSE claims

(* stream_nalu_wmcnt settles wmark once enough NAL units were seen, by     *)
(* their mean size.                                                        *)
WmarkAfter(i) ==
  IF stream[i].kind = "video" /\ wmark = 0 THEN {-1, 0, 1} ELSE {wmark}

(* Mutant of Take: the packet stays in the buffer.                         *)
TakeOnceMore ==
  /\ pc = "proc" /\ Parse > 0
  /\ \E i \in Heads :
       /\ out' = Append(out, i)
       /\ wmark' \in WmarkAfter(i)
  /\ len' = len - Parse
  /\ pc' = IF len' > 0 /\ cond = 1 THEN "proc" ELSE "idle"
  /\ UNCHANGED <<stream, bevVars, drained, pendVars, cond, closer>>

(* Mutant of Take: the loop stops after a packet when a header more is     *)
(* not certain.                                                            *)
TakeStopsEarly ==
  /\ pc = "proc" /\ Parse > 0
  /\ \E i \in Heads :
       /\ out' = Append(out, i)
       /\ wmark' \in WmarkAfter(i)
  /\ drained' = drained + Parse
  /\ len' = len - Parse
  /\ pc' = IF len' > PackSize /\ cond = 1 THEN "proc" ELSE "idle"
  /\ UNCHANGED <<stream, bevVars, pendVars, cond, closer>>

(* media_stream_proc hands a packet on, evbuffer_remove takes it out.      *)
Take ==
  /\ pc = "proc" /\ Parse > 0
  /\ \E i \in Heads :
       /\ out' = Append(out, i)
       /\ wmark' \in WmarkAfter(i)
  /\ drained' = drained + Parse
  /\ len' = len - Parse
  /\ pc' = IF len' > HdrLen /\ cond = 1 THEN "proc" ELSE "idle"
  /\ UNCHANGED <<stream, bevVars, pendVars, cond, closer>>

(* Nothing to hand on: the loop ends, the buffer stays as it is.           *)
Leave ==
  /\ pc = "proc" /\ Parse <= 0
  /\ pc' = "idle"
  /\ UNCHANGED <<stream, bevVars, drained, pendVars, wmark, cond, closer, len,
                 out>>

-----------------------------------------------------------------------------
(* client_connection_close in another thread: bufferevent_disable, then    *)
(* cond = 0.                                                               *)
CloseDisable ==
  /\ closer = "none"
  /\ closer' = "disabled" /\ reading' = 0
  /\ UNCHANGED <<stream, received, low, drained, pendVars, wmark, cond,
                 cbVars, out>>

CloseCond ==
  /\ closer = "disabled"
  /\ closer' = "done" /\ cond' = 0
  /\ UNCHANGED <<stream, bevVars, drained, pendVars, wmark, cbVars, out>>

Callback == ReadCallback \/ EventCallback \/ Take \/ Leave

Next ==
  \/ \E n \in 1..High : Arrive(n)
  \/ ReadEnds
  \/ Callback
  \/ CloseDisable \/ CloseCond

Spec == Init /\ [][Next]_vars

-----------------------------------------------------------------------------
(* However the bytes are cut into reads, whatever the watermarks do and    *)
(* whoever closes the session, what stream_input_handler hands on is what  *)
(* PacketChannel promises; a close leaves at most the packet under way.    *)
Channel == INSTANCE PacketChannel
             WITH got <- out, open <- (cond = 1 \/ pc = "proc")

ChannelSpec == Channel!Spec

(* Between callbacks a complete packet waits at the front only for a       *)
(* reason: the buffer is below the low mark, or it holds no more than a    *)
(* header behind a packet, or the session was told to stop.  What waits so *)
(* is lost when the connection ends: no read callback follows.             *)
CompleteWaits ==
  pc = "idle" /\ readPending = 0 /\ Parse > 0 =>
    Buffered < low \/ Buffered <= HdrLen \/ cond = 0

(* Reading stops at the high mark for good, and with it the detection of   *)
(* EOF and of the 60 s timeout, only behind a packet that can never be     *)
(* taken: a bad magic code, or a length beyond the copy buffer.            *)
SuspendedOnlyStalled ==
  pc = "idle" /\ readPending = 0 /\ cond = 1 /\ Suspended =>
    \/ Heads = {}
    \/ \A i \in Heads : stream[i].claims > PackSize

(* A front that has a bad magic code or a length beyond the copy buffer is *)
(* there to stay: more bytes, callbacks and watermarks never move it.      *)
StalledStays ==
  [][Heads = {} \/ (\A i \in Heads : stream[i].claims > PackSize)
       => drained' = drained /\ out' = out]_vars

=============================================================================
