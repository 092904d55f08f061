-------------------------- MODULE H264Depacketizer --------------------------
(***************************************************************************)
(* How the bodies of a session's video packets become RTMP packets:        *)
(* h264_stream_proc appends each body to the channel's buffer, takes the   *)
(* decoder configuration from its front once, then cuts off one NAL unit   *)
(* per turn of its loop.                                                   *)
(*                                                                         *)
(* A stream is a sequence of bytes in which NAL units lie, each behind its *)
(* start code, and it is cut into bodies anywhere.  A byte is a number;    *)
(* the low five bits of a payload's first byte are the unit's type.  What  *)
(* becomes of the RTMP packets once they are queued is the business of     *)
(* StreamSession.                                                          *)
(***************************************************************************)
EXTENDS Integers, Sequences

CONSTANTS
  Streams,       (* the streams a terminal may send: the bytes, and for each *)
                 (* unit the offsets where its payload begins and ends       *)
  MaxBody,       (* longest body of a packet                                 *)
  MaxFailures    (* bound: allocations that fail                             *)

ASSUME BodyAssumption == MaxBody \in Nat /\ MaxFailures \in Nat

(* The start code of three or of four bytes.                               *)
Code(n) == IF n = 3 THEN <<0, 0, 1>> ELSE <<0, 0, 0, 1>>

(* Where the start code of a unit begins: at the end of the unit before.   *)
CodeAt(s, i) == IF i = 1 THEN 0 ELSE s.unit[i - 1].end

(* A unit of an H.264 byte stream, behind the units before it: a start     *)
(* code, then a payload in which no start code occurs and whose last byte  *)
(* is not zero.                                                            *)
UnitAt(s, i) ==
  LET begin == s.unit[i].begin
      end   == s.unit[i].end
  IN /\ begin - CodeAt(s, i) \in {3, 4}
     /\ SubSeq(s.bytes, CodeAt(s, i) + 1, begin) = Code(begin - CodeAt(s, i))
     /\ begin < end /\ s.bytes[end] # 0
     /\ \A j \in 1..(i - 1) : s.unit[j].end < begin
     /\ \A k \in (begin + 1)..(end - 2) : SubSeq(s.bytes, k, k + 2) # Code(3)

(* The units fill the bytes.                                               *)
ASSUME StreamsAssumption ==
  \A s \in Streams :
    /\ s.bytes \in Seq(Nat)
    /\ s.unit \in Seq([begin : Nat, end : Nat])
    /\ Len(s.unit) >= 2 /\ s.unit[Len(s.unit)].end = Len(s.bytes)
    /\ \A i \in 1..Len(s.unit) : UnitAt(s, i)

Idr == 5
Sei == 6
Sps == 7
Pps == 8

VARIABLES
  stream,        (* the stream sent                                          *)
  sent,          (* bytes of it received                                     *)
  buf,           (* channel->buffer, its used bytes                          *)
  started,       (* channel->started                                         *)
  meta,          (* channel->meta_data                                       *)
  pos,           (* the local pos of h264_stream_proc                        *)
  pc,            (* where h264_stream_proc is                                *)
  out,           (* the RTMP packets queued by list_add_nalu: a group for    *)
                 (* the configuration, then one for each turn of the loop    *)
  failures,      (* allocations that failed                                  *)
  undefined      (* a NAL unit was used that nalu_read never filled in       *)

vars == <<stream, sent, buf, started, meta, pos, pc, out, failures, undefined>>

None == <<>>
Junk == <<"junk">>

Init ==
  /\ stream \in Streams /\ sent = 0
  /\ buf = <<>> /\ started = 0 /\ meta = None
  /\ pos = 0 /\ pc = "idle" /\ out = <<>>
  /\ failures = 0 /\ undefined = FALSE

-----------------------------------------------------------------------------
(* The byte at an offset; behind the used bytes the buffer holds zeros.    *)
At(k) == IF k < Len(buf) THEN buf[k + 1] ELSE 0

find_start_code(k) ==
  IF At(k) # 0 \/ At(k + 1) # 0 THEN 0
  ELSE IF At(k + 2) = 1 THEN 3
  ELSE IF At(k + 2) = 0 /\ At(k + 3) = 1 THEN 4
  ELSE 0

(* Mutant of Hit: the last byte is searched, too.                          *)
HitToTheEnd(k) == k + 2 < Len(buf) /\ find_start_code(k) # 0

(* The loop of nalu_read stops at a start code.                            *)
Hit(k) == k + 3 < Len(buf) /\ find_start_code(k) # 0

(* nalu_data[0] & 0x1f: the other bits are the importance of the unit.     *)
TypeOf(byte) == byte % 32

(* The unit nalu_read makes of the bytes up to the code at k, or with the  *)
(* code when that ends the buffer; next is the value returned, which       *)
(* counts the code again.                                                  *)
NaluTo(offset, k) ==
  LET start == find_start_code(k)
      nalu_len == (IF k + start = Len(buf) THEN k + start ELSE k) - offset
  IN [data |-> SubSeq(buf, offset + 1, offset + nalu_len),
      type |-> TypeOf(At(offset)),
      next |-> nalu_len + start]

(* nalu_read: the unit at the offset, if a start code follows it.          *)
nalu_read(offset) ==
  {NaluTo(offset, k) : k \in {k \in offset..Len(buf) :
                               Hit(k) /\ \A j \in offset..(k - 1) : ~Hit(j)}}

-----------------------------------------------------------------------------
(* A body is appended: h264_stream_proc begins.                            *)
Body(n) ==
  /\ pc = "idle" /\ sent + n <= Len(stream.bytes)
  /\ sent' = sent + n
  /\ buf' = buf \o SubSeq(stream.bytes, sent + 1, sent + n)
  /\ pos' = 0
  /\ pc' = IF started = 0 THEN "meta" ELSE "loop"
  /\ UNCHANGED <<stream, started, meta, out, failures, undefined>>

(* tima_buffer_strdup cannot grow the buffer; nobody looks at its result.  *)
BodyLost(n) ==
  /\ pc = "idle" /\ n > 0 /\ sent + n <= Len(stream.bytes) /\ failures < MaxFailures
  /\ sent' = sent + n
  /\ failures' = failures + 1
  /\ pos' = 0
  /\ pc' = IF started = 0 THEN "meta" ELSE "loop"
  /\ UNCHANGED <<stream, buf, started, meta, out, undefined>>

(* h264_metadata_get without a start code at the front: the body stays in  *)
(* the buffer and the call fails.                                          *)
MetaRefused ==
  /\ pc = "meta" /\ find_start_code(0) = 0
  /\ pc' = "idle"
  /\ UNCHANGED <<stream, sent, buf, started, meta, pos, out, failures,
                 undefined>>

(* Each parameter set is copied only if it has the type expected there.    *)
MetaOf(sps, pps) ==
  <<IF sps.type = Sps THEN sps.data ELSE None,
    IF pps.type = Pps THEN pps.data ELSE None>>

(* h264_metadata_get finds both units, rtmp_meta_pack packs them.          *)
MetaGet ==
  /\ pc = "meta" /\ find_start_code(0) # 0
  /\ \E sps \in nalu_read(find_start_code(0)) :
       LET second == find_start_code(0) + sps.next IN
       \E pps \in nalu_read(second) :
         /\ meta' = MetaOf(sps, pps)
         /\ pos' = second + pps.next
  /\ started' = 1
  /\ out' = Append(out, <<[kind |-> "meta", data |-> meta']>>)
  /\ pc' = "loop"
  /\ UNCHANGED <<stream, sent, buf, failures, undefined>>

(* Where h264_metadata_get is when a unit has no start code behind it.     *)
Unread ==
  LET first == find_start_code(0)
      after == {first + sps.next : sps \in nalu_read(first)}
  IN IF after = {} THEN {first} ELSE {k \in after : nalu_read(k) = {}}

(* h264_metadata_get finds both units and no memory for the copy: the call *)
(* fails, and the next body tries again.                                   *)
MetaAllocFails ==
  /\ pc = "meta" /\ find_start_code(0) # 0 /\ failures < MaxFailures
  /\ Unread = {}
  /\ failures' = failures + 1
  /\ pc' = "idle"
  /\ UNCHANGED <<stream, sent, buf, started, meta, pos, out, undefined>>

(* rtmp_meta_pack fails: the channel counts as started, nothing is queued  *)
(* and the units stay in the buffer.                                       *)
MetaPackFails ==
  /\ pc = "meta" /\ find_start_code(0) # 0 /\ failures < MaxFailures
  /\ \E sps \in nalu_read(find_start_code(0)) :
       \E pps \in nalu_read(find_start_code(0) + sps.next) :
         meta' = MetaOf(sps, pps)
  /\ started' = 1
  /\ failures' = failures + 1
  /\ pc' = "idle"
  /\ UNCHANGED <<stream, sent, buf, pos, out, undefined>>

(* The nalu_len, nalu_type and nalu_data of that unit are read without     *)
(* ever having been written.  The size may be too large to allocate, and   *)
(* then the call fails; or something is sent as the configuration; or the  *)
(* copy ends the process.                                                  *)
MetaUndefined ==
  /\ pc = "meta" /\ find_start_code(0) # 0
  /\ \E k \in Unread :
       \/ pc' = "idle" /\ UNCHANGED <<started, meta, pos, out>>
       \/ /\ pc' = "loop" /\ started' = 1 /\ meta' = Junk /\ pos' = k
          /\ out' = Append(out, <<[kind |-> "meta", data |-> Junk]>>)
       \/ pc' = "fault" /\ UNCHANGED <<started, meta, pos, out>>
  /\ undefined' = TRUE
  /\ UNCHANGED <<stream, sent, buf, failures>>

-----------------------------------------------------------------------------
(* What a unit is queued as.                                               *)
Packed(nalu) ==
  LET data == [kind |-> "data", data |-> nalu.data] IN
  IF nalu.type = Idr THEN <<[kind |-> "meta", data |-> meta], data>>
  ELSE IF nalu.type \in {Sps, Pps, Sei} THEN <<>>
  ELSE <<data>>

(* One turn of the loop.                                                   *)
Nalu ==
  /\ pc = "loop"
  /\ \E nalu \in nalu_read(pos) :
       /\ out' = Append(out, Packed(nalu))
       /\ pos' = pos + nalu.next
  /\ UNCHANGED <<stream, sent, buf, started, meta, pc, failures, undefined>>

(* A packet cannot be allocated: the call returns before the buffer is     *)
(* aligned, with the first k packets of the unit queued.                   *)
NaluPackFails ==
  /\ pc = "loop" /\ failures < MaxFailures
  /\ \E nalu \in nalu_read(pos) : \E k \in 0..(Len(Packed(nalu)) - 1) :
       out' = Append(out, SubSeq(Packed(nalu), 1, k))
  /\ failures' = failures + 1
  /\ pc' = "idle"
  /\ UNCHANGED <<stream, sent, buf, started, meta, pos, undefined>>

(* Mutant of Align: one byte too few is given back.                        *)
AlignShort ==
  /\ pc = "loop" /\ nalu_read(pos) = {} /\ pos <= Len(buf)
  /\ buf' = SubSeq(buf, (IF pos > 0 THEN pos - 1 ELSE 0) + 1, Len(buf))
  /\ pos' = 0 /\ pc' = "idle"
  /\ UNCHANGED <<stream, sent, started, meta, out, failures, undefined>>

(* No further unit: tima_buffer_align gives back what was read.            *)
Align ==
  /\ pc = "loop" /\ nalu_read(pos) = {} /\ pos <= Len(buf)
  /\ buf' = SubSeq(buf, pos + 1, Len(buf))
  /\ pos' = 0 /\ pc' = "idle"
  /\ UNCHANGED <<stream, sent, started, meta, out, failures, undefined>>

(* It is asked to give back more: the number of bytes to move wraps.       *)
AlignOverrun ==
  /\ pc = "loop" /\ pos > Len(buf)
  /\ pc' = "fault"
  /\ UNCHANGED <<stream, sent, buf, started, meta, pos, out, failures,
                 undefined>>

Proc == \/ MetaRefused \/ MetaGet \/ MetaUndefined
        \/ MetaAllocFails \/ MetaPackFails
        \/ Nalu \/ NaluPackFails \/ Align \/ AlignOverrun

Next == Proc \/ \E n \in 0..MaxBody : Body(n) \/ BodyLost(n)

Spec == Init /\ [][Next]_vars

-----------------------------------------------------------------------------
(* What the sender of the stream meant: the payload of a unit, its type    *)
(* and the decoder configuration.                                          *)
Payload(i) == SubSeq(stream.bytes, stream.unit[i].begin + 1, stream.unit[i].end)
Type(i) == TypeOf(stream.bytes[stream.unit[i].begin + 1])
Config == <<IF Type(1) = Sps THEN Payload(1) ELSE None,
            IF Type(2) = Pps THEN Payload(2) ELSE None>>

(* The packets of a group: the decoder configuration first and before      *)
(* every key frame, no other parameter sets, no SEI.                       *)
Group(g) ==
  LET config == [kind |-> "meta", data |-> Config]
      data   == [kind |-> "data", data |-> Payload(g + 1)]
  IN IF g = 1 THEN <<config>>
     ELSE IF Type(g + 1) = Idr THEN <<config, data>>
     ELSE IF Type(g + 1) \in {Sps, Pps, Sei} THEN <<>>
     ELSE <<data>>

(* What the first n units of the stream stand for.                         *)
Expected(n) == [g \in 1..(n - 1) |-> Group(g)]

(* A unit's end has been received: of the next unit's start code and       *)
(* payload, four bytes.                                                    *)
Delimited(i) == stream.unit[i].end + 4 <= sent

(* However the stream is cut into bodies, between two of them exactly the  *)
(* units whose end is known were queued by h264_stream_proc, each once, in *)
(* order and with its own bytes only, as long as no allocation failed and  *)
(* the first body held the parameter sets.                                 *)
UnitsExact ==
  pc = "idle" /\ failures = 0 /\ ~undefined /\ started = 1 =>
    \E n \in 2..(Len(stream.unit) - 1) :
      /\ \A i \in 1..(Len(stream.unit) - 1) : Delimited(i) <=> i <= n
      /\ out = Expected(n)

(* h264_stream_proc gives back more than the buffer holds only when the    *)
(* bytes received so far end with a four byte start code.                  *)
OverrunOnlyAtCodeEnd ==
  pc = "fault" =>
    undefined \/ (Len(buf) >= 4 /\ SubSeq(buf, Len(buf) - 3, Len(buf)) = Code(4))

=============================================================================
