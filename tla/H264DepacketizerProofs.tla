----------------------- MODULE H264DepacketizerProofs -----------------------
(***************************************************************************)
(* For every stream and every way to cut it into bodies:                   *)
(*  - whatever the allocations and the uninitialized fields of             *)
(*    h264_metadata_get do, h264_stream_proc overruns the channel's buffer *)
(*    only when that ends with a four byte start code;                     *)
(*  - as long as no allocation fails and the first body holds the          *)
(*    parameter sets, exactly the units whose end is known have been       *)
(*    queued, each once, in order and with its own bytes.                  *)
(***************************************************************************)
EXTENDS H264Depacketizer, SequenceTheorems, TLAPS

(* The values in the bytes of the stream.                                  *)
ByteValues == {stream.bytes[i] : i \in Nat}

EndsInCode == Len(buf) >= 4 /\ SubSeq(buf, Len(buf) - 3, Len(buf)) = Code(4)

(* Inside the loop pos passes the end of the buffer only after the last    *)
(* start code was counted twice, or a unit was read that is not there.     *)
PosInBuffer == pc = "loop" => undefined \/ EndsInCode \/ pos <= Len(buf)

HInv ==
  /\ buf \in Seq(ByteValues) /\ pos \in Nat /\ sent \in Nat
  /\ PosInBuffer /\ OverrunOnlyAtCodeEnd

-----------------------------------------------------------------------------
(* A start code has three or four bytes, and those are the code's.         *)
LEMMA StartCode ==
  ASSUME NEW k
  PROVE  /\ find_start_code(k) \in {0, 3, 4}
         /\ find_start_code(k) = 4 =>
              At(k) = 0 /\ At(k + 1) = 0 /\ At(k + 2) = 0 /\ At(k + 3) = 1
  BY DEF find_start_code

(* The last four bytes of a buffer.                                        *)
LEMMA LastFour ==
  ASSUME NEW S, NEW q \in Seq(S), NEW k \in Nat, Len(q) = k + 4,
         q[k + 1] = 0, q[k + 2] = 0, q[k + 3] = 0, q[k + 4] = 1
  PROVE  SubSeq(q, k + 1, k + 4) = <<0, 0, 0, 1>>
<1> DEFINE last == SubSeq(q, k + 1, k + 4)
<1>1. last = [i \in 1..4 |-> q[k + i]]
  OBVIOUS
<1>2. <<0, 0, 0, 1>> = [i \in 1..4 |-> <<0, 0, 0, 1>>[i]]
  OBVIOUS
<1>3. ASSUME NEW i \in 1..4 PROVE q[k + i] = <<0, 0, 0, 1>>[i]
  <2>1. i = 1 \/ i = 2 \/ i = 3 \/ i = 4
    OBVIOUS
  <2> QED
    BY <2>1
<1> QED
  BY <1>1, <1>2, <1>3

(* What nalu_read returns stays inside the buffer, unless a four byte code *)
(* at its end was counted twice.                                           *)
LEMMA NaluInBuffer ==
  ASSUME NEW S, buf \in Seq(S), NEW offset \in Nat, NEW nalu \in nalu_read(offset)
  PROVE  /\ nalu.next \in Nat
         /\ EndsInCode \/ offset + nalu.next <= Len(buf)
<1>1. PICK k \in offset..Len(buf) : nalu = NaluTo(offset, k) /\ Hit(k)
  BY DEF nalu_read
<1> DEFINE start == find_start_code(k)
<1>2. /\ k \in Nat /\ k >= offset /\ Len(buf) \in Nat /\ k + 3 < Len(buf)
      /\ start \in {3, 4}
  BY <1>1, StartCode DEF Hit
<1> HIDE DEF start
<1>3. nalu.next = ((IF k + start = Len(buf) THEN k + start ELSE k) - offset) + start
  BY <1>1 DEF NaluTo, start
<1>4. CASE k + start = Len(buf)
  <2>1. start = 4 /\ Len(buf) = k + 4
    BY <1>2, <1>4
  <2>2. At(k) = 0 /\ At(k + 1) = 0 /\ At(k + 2) = 0 /\ At(k + 3) = 1
    BY <2>1, StartCode DEF start
  <2>3. buf[k + 1] = 0 /\ buf[k + 2] = 0 /\ buf[k + 3] = 0 /\ buf[k + 4] = 1
    BY <1>2, <2>1, <2>2 DEF At
  <2>4. SubSeq(buf, k + 1, k + 4) = <<0, 0, 0, 1>>
    BY <1>2, <2>1, <2>3, LastFour
  <2>5. Len(buf) - 3 = k + 1 /\ Len(buf) >= 4
    BY <1>2, <2>1
  <2>6. EndsInCode
    BY <2>1, <2>4, <2>5 DEF EndsInCode, Code
  <2>7. nalu.next \in Nat
    BY <1>2, <1>3, <1>4
  <2> QED
    BY <2>6, <2>7
<1>5. CASE k + start # Len(buf)
  <2>1. nalu.next = (k - offset) + start
    BY <1>3, <1>5
  <2> QED
    BY <1>2, <2>1
<1> QED
  BY <1>4, <1>5

(* Before the first body the buffer is empty.                              *)
LEMMA InitHInv == Init => HInv
  BY DEF Init, HInv, PosInBuffer, OverrunOnlyAtCodeEnd

(* A body, whether it is appended or lost, begins a new call.              *)
LEMMA BodyStep ==
  ASSUME HInv, NEW n \in 0..MaxBody, Body(n) \/ BodyLost(n)
  PROVE  HInv'
<1> USE BodyAssumption
<1>1. /\ pos' = 0 /\ pc' \in {"meta", "loop"} /\ sent' \in Nat /\ stream' = stream
  BY DEF Body, BodyLost, HInv
<1>2. ByteValues' = ByteValues
  BY <1>1 DEF ByteValues
<1>3. buf' \in Seq(ByteValues)
  <2>1. CASE BodyLost(n)
    BY <2>1 DEF BodyLost, HInv
  <2>2. CASE Body(n)
    <3> DEFINE all == stream.bytes
               body == SubSeq(all, sent + 1, sent + n)
    <3>1. buf' = buf \o body /\ buf \in Seq(ByteValues) /\ sent \in Nat
      BY <2>2 DEF Body, HInv
    <3>a. \A j \in Nat : all[j] \in ByteValues
      BY Zenon DEF ByteValues
    <3> HIDE DEF all
    <3>2. \A i \in 1..n : all[sent + i] \in ByteValues
      BY <3>1, <3>a
    <3>3. body = [i \in 1..n |-> all[sent + i]]
      BY <3>1
    <3>4. body \in Seq(ByteValues)
      <4> HIDE DEF body
      <4>1. body \in [1..n -> ByteValues]
        BY <3>2, <3>3, Zenon
      <4>2. n \in Nat
        OBVIOUS
      <4> QED
        BY <4>1, <4>2, SeqDef
    <3> HIDE DEF body
    <3> QED
      BY <3>1, <3>4, ConcatProperties
  <2> QED
    BY <2>1, <2>2
<1>4. Len(buf') \in Nat
  BY <1>3
<1> QED
  BY <1>1, <1>2, <1>3, <1>4 DEF HInv, PosInBuffer, OverrunOnlyAtCodeEnd

(* h264_metadata_get.                                                      *)
LEMMA MetaStep ==
  ASSUME HInv, MetaRefused \/ MetaGet \/ MetaAllocFails \/ MetaPackFails \/ MetaUndefined
  PROVE  HInv'
<1> DEFINE first == find_start_code(0)
<1>0. first \in Nat
  BY StartCode
<1>1. /\ buf' = buf /\ sent' = sent /\ stream' = stream /\ ByteValues' = ByteValues
      /\ EndsInCode' = EndsInCode /\ pc = "meta"
  BY DEF MetaRefused, MetaGet, MetaAllocFails, MetaPackFails, MetaUndefined, ByteValues, EndsInCode
<1>2. CASE MetaRefused \/ MetaAllocFails \/ MetaPackFails
  BY <1>1, <1>2 DEF MetaRefused, MetaAllocFails, MetaPackFails, HInv, PosInBuffer, OverrunOnlyAtCodeEnd
<1>3. CASE MetaGet
  <2>1. PICK sps \in nalu_read(first) : \E pps \in nalu_read(first + sps.next) :
          pos' = (first + sps.next) + pps.next
    BY <1>3 DEF MetaGet
  <2>2. PICK pps \in nalu_read(first + sps.next) : pos' = (first + sps.next) + pps.next
    BY <2>1
  <2> HIDE DEF first
  <2>3. sps.next \in Nat
    BY <1>0, NaluInBuffer DEF HInv
  <2>4. first + sps.next \in Nat
    BY <1>0, <2>3
  <2> DEFINE second == first + sps.next
  <2>5. second \in Nat /\ pps \in nalu_read(second) /\ pos' = second + pps.next
    BY <2>2, <2>4
  <2> HIDE DEF second
  <2>6. pps.next \in Nat /\ (EndsInCode \/ second + pps.next <= Len(buf))
    BY <2>5, NaluInBuffer DEF HInv
  <2>7. pos' \in Nat /\ (EndsInCode \/ pos' <= Len(buf))
    BY <2>5, <2>6
  <2> QED
    BY <1>1, <1>3, <2>7 DEF MetaGet, HInv, PosInBuffer, OverrunOnlyAtCodeEnd
<1>4. CASE MetaUndefined
  <2>1. PICK k \in Unread : pos' = pos \/ pos' = k
    BY <1>4 DEF MetaUndefined
  <2>2. k \in Nat
    <3>1. k = first \/ \E sps \in nalu_read(first) : k = first + sps.next
      BY DEF Unread
    <3> HIDE DEF first
    <3>2. \A sps \in nalu_read(first) : sps.next \in Nat
      BY <1>0, NaluInBuffer DEF HInv
    <3> QED
      BY <1>0, <3>1, <3>2
  <2>3. undefined' = TRUE /\ pos' \in Nat
    BY <1>4, <2>1, <2>2 DEF MetaUndefined, HInv
  <2> QED
    BY <1>1, <2>3 DEF HInv, PosInBuffer, OverrunOnlyAtCodeEnd
<1> QED
  BY <1>2, <1>3, <1>4

(* The loop of h264_stream_proc and tima_buffer_align.                     *)
LEMMA LoopStep ==
  ASSUME HInv, Nalu \/ NaluPackFails \/ Align \/ AlignOverrun
  PROVE  HInv'
<1>1. sent' = sent /\ stream' = stream /\ ByteValues' = ByteValues /\ undefined' = undefined
  BY DEF Nalu, NaluPackFails, Align, AlignOverrun, ByteValues
<1>2. CASE Nalu
  <2>1. PICK nalu \in nalu_read(pos) : pos' = pos + nalu.next
    BY <1>2 DEF Nalu
  <2>2. nalu.next \in Nat /\ (EndsInCode \/ pos + nalu.next <= Len(buf)) /\ pos \in Nat
    BY NaluInBuffer DEF HInv
  <2>3. buf' = buf /\ EndsInCode' = EndsInCode /\ pc' = "loop"
    BY <1>2 DEF Nalu, EndsInCode
  <2>4. pos' \in Nat /\ (EndsInCode \/ pos' <= Len(buf))
    BY <2>1, <2>2
  <2> QED
    BY <1>1, <2>3, <2>4 DEF HInv, PosInBuffer, OverrunOnlyAtCodeEnd
<1>3. CASE NaluPackFails
  BY <1>1, <1>3 DEF NaluPackFails, HInv, PosInBuffer, OverrunOnlyAtCodeEnd
<1>4. CASE Align
  <2>1. buf \in Seq(ByteValues) /\ pos \in Nat /\ Len(buf) \in Nat
    BY DEF HInv
  <2>2. SubSeq(buf, pos + 1, Len(buf)) \in Seq(ByteValues)
    <3>1. \A i \in (pos + 1)..Len(buf) : i \in 1..Len(buf)
      BY <2>1
    <3> QED
      BY <2>1, <3>1, SubSeqProperties
  <2> QED
    BY <1>1, <1>4, <2>2 DEF Align, HInv, PosInBuffer, OverrunOnlyAtCodeEnd
<1>5. CASE AlignOverrun
  <2>1. /\ buf' = buf /\ pos' = pos /\ pc' = "fault" /\ pc = "loop" /\ pos > Len(buf)
        /\ EndsInCode' = EndsInCode
    BY <1>5 DEF AlignOverrun, EndsInCode
  <2>2. undefined \/ EndsInCode
    <3>1. pos \in Nat /\ Len(buf) \in Nat
      BY DEF HInv
    <3>2. ~(pos <= Len(buf))
      BY <2>1, <3>1
    <3> QED
      BY <2>1, <3>2 DEF HInv, PosInBuffer
  <2> QED
    BY <1>1, <2>1, <2>2 DEF HInv, PosInBuffer, OverrunOnlyAtCodeEnd, EndsInCode
<1> QED
  BY <1>2, <1>3, <1>4, <1>5

(* Every step of h264_stream_proc keeps the invariant.                     *)
LEMMA NextHInv == HInv /\ [Next]_vars => HInv'
<1> SUFFICES ASSUME HInv, [Next]_vars PROVE HInv'
  OBVIOUS
<1>1. CASE Next
  BY <1>1, BodyStep, MetaStep, LoopStep DEF Next, Proc
<1>2. CASE UNCHANGED vars
  BY <1>2 DEF vars, HInv, ByteValues, PosInBuffer, EndsInCode, OverrunOnlyAtCodeEnd
<1> QED
  BY <1>1, <1>2

(* For every stream, every cut of it into bodies and every failing         *)
(* allocation: tima_buffer_align is asked to give back more than the       *)
(* buffer holds only when the bytes received end with a four byte start    *)
(* code, or h264_metadata_get has used a unit that nalu_read did not find. *)
THEOREM OverrunCorrect == Spec => []OverrunOnlyAtCodeEnd
<1>1. HInv => OverrunOnlyAtCodeEnd
  BY DEF HInv
<1> QED
  BY InitHInv, NextHInv, <1>1, PTL DEF Spec

-----------------------------------------------------------------------------
(* While no allocation failed and no unit was used that is not there.      *)
Clean == failures = 0 /\ ~undefined

(* The offset in the stream of the buffer's first byte.                    *)
Base == sent - Len(buf)

(* The buffer holds the bytes received last.                               *)
Suffix ==
  /\ stream \in Streams /\ sent \in Nat /\ buf \in Seq(ByteValues)
  /\ Len(buf) <= sent /\ sent <= Len(stream.bytes)
  /\ \A i \in 1..Len(buf) : buf[i] = stream.bytes[Base + i]

(* The unit that h264_stream_proc reads next.                              *)
Turn == Len(out) + 2

(* Behind the configuration pos is where a payload begins, the units       *)
(* before it were queued, the end of the last of them is known, and the    *)
(* configuration was taken from the first two.                             *)
AtUnit ==
  /\ Len(out) \in Nat /\ Turn \in 3..Len(stream.unit)
  /\ out = Expected(Turn - 1)
  /\ Base + pos = stream.unit[Turn].begin
  /\ Delimited(Turn - 1) /\ meta = Config

(* The end of the next unit is not known.                                  *)
Exhausted == ~(Turn < Len(stream.unit) /\ Delimited(Turn))

(* What h264_stream_proc knows between two of its steps.                   *)
UInv ==
  /\ started \in {0, 1} /\ failures \in Nat
  /\ started = 0 => pc # "loop"
  /\ pc = "meta" => started = 0
  /\ Clean =>
       /\ Suffix
       /\ started = 0 => Base = 0 /\ out = <<>>
       /\ started = 1 /\ pos <= Len(buf) /\ pc # "fault" => AtUnit
       /\ pc \in {"idle", "meta"} => pos = 0
       /\ pc = "idle" /\ started = 1 => Exhausted

-----------------------------------------------------------------------------
(* The bytes of a start code.                                              *)
LEMMA CodeBytes ==
  ASSUME NEW q \in Seq(Nat), NEW c \in Nat, NEW b \in Nat, b - c \in {3, 4},
         SubSeq(q, c + 1, b) = Code(b - c)
  PROVE  /\ q[c + 1] = 0 /\ q[c + 2] = 0
         /\ b = c + 3 => q[c + 3] = 1
         /\ b = c + 4 => q[c + 3] = 0 /\ q[c + 4] = 1
<1> DEFINE code == SubSeq(q, c + 1, b)
<1>0. code = Code(b - c)
  OBVIOUS
<1>1. code = [i \in 1..(b - c) |-> q[c + i]]
  OBVIOUS
<1>2. \A i \in 1..(b - c) : code[i] = q[c + i]
  BY <1>1
<1>3. CASE b = c + 3
  <2>1. b - c = 3
    BY <1>3
  <2>2. Code(3) = <<0, 0, 1>>
    BY DEF Code
  <2>3. code = <<0, 0, 1>>
    BY <1>0, <2>1, <2>2
  <2>4. code[1] = q[c + 1] /\ code[2] = q[c + 2] /\ code[3] = q[c + 3]
    BY <1>2, <2>1
  <2> HIDE DEF code
  <2>5. q[c + 1] = 0 /\ q[c + 2] = 0 /\ q[c + 3] = 1
    BY <2>3, <2>4
  <2> QED
    BY <1>3, <2>5
<1>4. CASE b = c + 4
  <2>1. b - c = 4
    BY <1>4
  <2>2. Code(4) = <<0, 0, 0, 1>>
    BY DEF Code
  <2>3. code = <<0, 0, 0, 1>>
    BY <1>0, <2>1, <2>2
  <2>4. code[1] = q[c + 1] /\ code[2] = q[c + 2] /\ code[3] = q[c + 3] /\ code[4] = q[c + 4]
    BY <1>2, <2>1
  <2> HIDE DEF code
  <2>5. q[c + 1] = 0 /\ q[c + 2] = 0 /\ q[c + 3] = 0 /\ q[c + 4] = 1
    BY <2>3, <2>4
  <2> QED
    BY <1>4, <2>5
<1>5. b = c + 3 \/ b = c + 4
  OBVIOUS
<1> QED
  BY <1>3, <1>4, <1>5

(* Three bytes that are no start code.                                     *)
LEMMA NoCodeBytes ==
  ASSUME NEW q \in Seq(Nat), NEW k \in Nat, SubSeq(q, k, k + 2) # Code(3), k >= 1
  PROVE  ~(q[k] = 0 /\ q[k + 1] = 0 /\ q[k + 2] = 1)
<1> SUFFICES ASSUME q[k] = 0, q[k + 1] = 0, q[k + 2] = 1
             PROVE  SubSeq(q, k, k + 2) = <<0, 0, 1>>
  BY DEF Code
<1> DEFINE code == SubSeq(q, k, k + 2)
<1>1. code = [i \in 1..3 |-> q[k + i - 1]]
  OBVIOUS
<1>2. <<0, 0, 1>> = [i \in 1..3 |-> <<0, 0, 1>>[i]]
  OBVIOUS
<1>3. ASSUME NEW i \in 1..3 PROVE q[k + i - 1] = <<0, 0, 1>>[i]
  <2>1. i = 1 \/ i = 2 \/ i = 3
    OBVIOUS
  <2> QED
    BY <2>1
<1> QED
  BY <1>1, <1>2, <1>3

(* The types in a stream.                                                  *)
LEMMA StreamTypes ==
  ASSUME stream \in Streams
  PROVE  /\ stream.bytes \in Seq(Nat) /\ Len(stream.bytes) \in Nat
         /\ Len(stream.unit) \in Nat /\ Len(stream.unit) >= 2
         /\ stream.unit[Len(stream.unit)].end = Len(stream.bytes)
         /\ \A i \in 1..Len(stream.unit) :
              /\ stream.unit[i].begin \in Nat /\ stream.unit[i].end \in Nat
              /\ CodeAt(stream, i) \in Nat /\ UnitAt(stream, i)
<1>1. /\ stream.bytes \in Seq(Nat)
      /\ stream.unit \in Seq([begin : Nat, end : Nat])
      /\ Len(stream.unit) >= 2 /\ stream.unit[Len(stream.unit)].end = Len(stream.bytes)
      /\ \A i \in 1..Len(stream.unit) : UnitAt(stream, i)
  BY StreamsAssumption
<1>2. Len(stream.bytes) \in Nat /\ Len(stream.unit) \in Nat
  BY <1>1
<1>3. \A i \in 1..Len(stream.unit) : stream.unit[i] \in [begin : Nat, end : Nat]
  BY <1>1, ElementOfSeq, Zenon
<1>4. \A i \in 1..Len(stream.unit) : stream.unit[i].begin \in Nat /\ stream.unit[i].end \in Nat
  BY <1>3
<1>5. ASSUME NEW i \in 1..Len(stream.unit) PROVE CodeAt(stream, i) \in Nat
  <2>1. i = 1 \/ i - 1 \in 1..Len(stream.unit)
    BY <1>2
  <2> QED
    BY <1>4, <2>1 DEF CodeAt
<1> QED
  BY <1>1, <1>2, <1>4, <1>5

(* The units of a stream lie one behind the other and inside its bytes.    *)
LEMMA UnitOrder ==
  ASSUME stream \in Streams, NEW j \in 1..Len(stream.unit)
  PROVE  /\ stream.unit[j].begin < stream.unit[j].end
         /\ stream.unit[j].end <= Len(stream.bytes)
         /\ \A i \in 1..(j - 1) : stream.unit[i].end < stream.unit[j].begin
<1> USE StreamTypes
<1>1. \A i \in 1..Len(stream.unit) :
        /\ stream.unit[i].begin < stream.unit[i].end
        /\ \A h \in 1..(i - 1) : stream.unit[h].end < stream.unit[i].begin
  BY DEF UnitAt
<1>2. stream.unit[j].end <= Len(stream.bytes)
  <2> DEFINE n == Len(stream.unit)
  <2>1. n \in 1..n /\ n \in Nat /\ stream.unit[n].end = Len(stream.bytes)
    OBVIOUS
  <2>2. CASE j = n
    BY <2>1, <2>2
  <2>3. CASE j # n
    <3>1. j \in 1..(n - 1)
      BY <2>1, <2>3
    <3>2. stream.unit[j].end < stream.unit[n].begin /\ stream.unit[n].begin < stream.unit[n].end
      BY <1>1, <2>1, <3>1
    <3>3. stream.unit[j].end \in Nat /\ stream.unit[n].begin \in Nat /\ stream.unit[n].end \in Nat
      BY <2>1
    <3> QED
      BY <2>1, <3>2, <3>3
  <2> QED
    BY <2>2, <2>3
<1> QED
  BY <1>1, <1>2

(* The start code of a unit.                                               *)
LEMMA UnitCode ==
  ASSUME stream \in Streams, NEW j \in 1..Len(stream.unit),
         NEW c, c = CodeAt(stream, j), NEW b, b = stream.unit[j].begin
  PROVE  /\ c \in Nat /\ b \in Nat /\ b \in {c + 3, c + 4}
         /\ stream.bytes[c + 1] = 0 /\ stream.bytes[c + 2] = 0
         /\ b = c + 3 => stream.bytes[c + 3] = 1
         /\ b = c + 4 => stream.bytes[c + 3] = 0 /\ stream.bytes[c + 4] = 1
<1>1. c \in Nat /\ b \in Nat /\ stream.bytes \in Seq(Nat) /\ UnitAt(stream, j)
  BY StreamTypes
<1>2. b - c \in {3, 4} /\ SubSeq(stream.bytes, c + 1, b) = Code(b - c)
  BY <1>1 DEF UnitAt
<1>a. b - c = 3 \/ b - c = 4
  BY <1>2
<1>3. b = c + 3 \/ b = c + 4
  BY <1>1, <1>a
<1> QED
  BY <1>1, <1>2, <1>3, CodeBytes

(* Between the begin and the end of a payload no start code begins.        *)
LEMMA QuietPayload ==
  ASSUME stream \in Streams, NEW j \in 1..Len(stream.unit), NEW a \in Nat,
         stream.unit[j].begin <= a, a < stream.unit[j].end
  PROVE  ~/\ stream.bytes[a + 1] = 0 /\ stream.bytes[a + 2] = 0
          /\ \/ stream.bytes[a + 3] = 1
             \/ stream.bytes[a + 3] = 0 /\ stream.bytes[a + 4] = 1
<1> DEFINE q == stream.bytes
           b == stream.unit[j].begin
           e == stream.unit[j].end
<1>1. q \in Seq(Nat) /\ b \in Nat /\ e \in Nat /\ UnitAt(stream, j)
  BY StreamTypes
<1>2. q[e] # 0 /\ \A k \in (b + 1)..(e - 2) : SubSeq(q, k, k + 2) # Code(3)
  BY <1>1 DEF UnitAt
<1>3. b <= a /\ a < e
  OBVIOUS
<1> HIDE DEF q, b, e
<1>4. ASSUME NEW k \in (b + 1)..(e - 2)
      PROVE  ~(q[k] = 0 /\ q[k + 1] = 0 /\ q[k + 2] = 1)
  <2>1. k \in Nat /\ k >= 1
    BY <1>1
  <2> QED
    BY <1>1, <1>2, <2>1, NoCodeBytes
<1> SUFFICES ASSUME q[a + 1] = 0, q[a + 2] = 0, q[a + 3] = 1 \/ (q[a + 3] = 0 /\ q[a + 4] = 1)
             PROVE  FALSE
  BY DEF q
<1>5. e # a + 1 /\ e # a + 2
  BY <1>2
<1>6. CASE q[a + 3] = 1
  <2>1. a + 1 \in (b + 1)..(e - 2)
    BY <1>1, <1>3, <1>5
  <2>2. (a + 1) + 1 = a + 2 /\ (a + 1) + 2 = a + 3
    OBVIOUS
  <2> QED
    BY <1>4, <1>6, <2>1, <2>2
<1>7. CASE q[a + 3] = 0 /\ q[a + 4] = 1
  <2>1. e # a + 3
    BY <1>2, <1>7
  <2>2. a + 2 \in (b + 1)..(e - 2)
    BY <1>1, <1>3, <1>5, <2>1
  <2>3. (a + 2) + 1 = a + 3 /\ (a + 2) + 2 = a + 4
    OBVIOUS
  <2> QED
    BY <1>4, <1>7, <2>2, <2>3
<1> QED
  BY <1>6, <1>7

-----------------------------------------------------------------------------
(* A byte of the buffer is a byte of the stream.                           *)
LEMMA BufferByte ==
  ASSUME Suffix, NEW k \in Nat, k < Len(buf)
  PROVE  /\ Base \in Nat /\ Len(buf) \in Nat /\ sent = Base + Len(buf)
         /\ At(k) = stream.bytes[Base + (k + 1)]
<1>1. Len(buf) \in Nat /\ sent \in Nat /\ Len(buf) <= sent
  BY DEF Suffix
<1>2. Base \in Nat /\ sent = Base + Len(buf)
  BY <1>1 DEF Base
<1>3. k + 1 \in 1..Len(buf)
  BY <1>1
<1> QED
  BY <1>1, <1>2, <1>3 DEF Suffix, At

(* The four bytes find_start_code looks at, when the loop of nalu_read     *)
(* calls it.                                                               *)
LEMMA FourBytes ==
  ASSUME Suffix, NEW k \in Nat, k + 3 < Len(buf), NEW a, a = Base + k
  PROVE  /\ a \in Nat
         /\ At(k) = stream.bytes[a + 1] /\ At(k + 1) = stream.bytes[a + 2]
         /\ At(k + 2) = stream.bytes[a + 3] /\ At(k + 3) = stream.bytes[a + 4]
<1>1. Len(buf) \in Nat
  BY DEF Suffix
<1>2. /\ k \in Nat /\ k < Len(buf) /\ k + 1 \in Nat /\ k + 1 < Len(buf)
      /\ k + 2 \in Nat /\ k + 2 < Len(buf) /\ k + 3 \in Nat /\ k + 3 < Len(buf)
  BY <1>1
<1>3. Base \in Nat
  BY <1>2, BufferByte
<1>4. /\ At(k) = stream.bytes[Base + (k + 1)]
      /\ At(k + 1) = stream.bytes[Base + ((k + 1) + 1)]
      /\ At(k + 2) = stream.bytes[Base + ((k + 2) + 1)]
      /\ At(k + 3) = stream.bytes[Base + ((k + 3) + 1)]
  BY <1>2, BufferByte
<1>5. /\ Base + (k + 1) = a + 1 /\ Base + ((k + 1) + 1) = a + 2
      /\ Base + ((k + 2) + 1) = a + 3 /\ Base + ((k + 3) + 1) = a + 4
      /\ a \in Nat
  BY <1>3
<1> QED
  BY <1>4, <1>5

(* nalu_read does not stop inside a payload.                               *)
LEMMA NoHitInPayload ==
  ASSUME Suffix, NEW j \in 1..Len(stream.unit), NEW k \in Nat,
         stream.unit[j].begin <= Base + k, Base + k < stream.unit[j].end
  PROVE  ~Hit(k)
<1> SUFFICES ASSUME Hit(k) PROVE FALSE
  OBVIOUS
<1> DEFINE a == Base + k
<1>1. k + 3 < Len(buf) /\ find_start_code(k) # 0 /\ stream \in Streams
  BY DEF Hit, Suffix
<1>2. /\ a \in Nat
      /\ At(k) = stream.bytes[a + 1] /\ At(k + 1) = stream.bytes[a + 2]
      /\ At(k + 2) = stream.bytes[a + 3] /\ At(k + 3) = stream.bytes[a + 4]
  BY <1>1, FourBytes
<1>3. stream.unit[j].begin <= a /\ a < stream.unit[j].end
  OBVIOUS
<1> HIDE DEF a
<1>4. /\ stream.bytes[a + 1] = 0 /\ stream.bytes[a + 2] = 0
      /\ \/ stream.bytes[a + 3] = 1
         \/ stream.bytes[a + 3] = 0 /\ stream.bytes[a + 4] = 1
  BY <1>1, <1>2 DEF find_start_code
<1> QED
  BY <1>1, <1>2, <1>3, <1>4, QuietPayload

(* It stops at the end of the payload, as soon as that is known, and       *)
(* recognises the length of the start code there.                          *)
LEMMA HitAtEnd ==
  ASSUME Suffix, NEW j \in 1..(Len(stream.unit) - 1), NEW k \in Nat,
         Base + k = stream.unit[j].end, Delimited(j)
  PROVE  /\ Hit(k)
         /\ stream.unit[j].end + find_start_code(k) = stream.unit[j + 1].begin
<1> DEFINE e == stream.unit[j].end
           b == stream.unit[j + 1].begin
<1>1. /\ stream \in Streams /\ Len(stream.unit) \in Nat /\ Len(buf) \in Nat /\ sent \in Nat
      /\ Len(buf) <= sent
  BY StreamTypes DEF Suffix
<1>2. j \in 1..Len(stream.unit) /\ j + 1 \in 1..Len(stream.unit) /\ j + 1 # 1 /\ (j + 1) - 1 = j
  BY <1>1
<1>3. e = CodeAt(stream, j + 1)
  BY <1>2 DEF CodeAt
<1>4. e + 4 <= sent /\ Base + k = e /\ e \in Nat
  BY <1>1, <1>2, StreamTypes DEF Delimited
<1>5. k + 3 < Len(buf)
  BY <1>1, <1>4 DEF Base
<1>6. /\ b \in {e + 3, e + 4}
      /\ stream.bytes[e + 1] = 0 /\ stream.bytes[e + 2] = 0
      /\ b = e + 3 => stream.bytes[e + 3] = 1
      /\ b = e + 4 => stream.bytes[e + 3] = 0 /\ stream.bytes[e + 4] = 1
  BY <1>1, <1>2, <1>3, UnitCode
<1>7. /\ At(k) = stream.bytes[e + 1] /\ At(k + 1) = stream.bytes[e + 2]
      /\ At(k + 2) = stream.bytes[e + 3] /\ At(k + 3) = stream.bytes[e + 4]
  BY <1>4, <1>5, FourBytes
<1> HIDE DEF e, b
<1>8. CASE b = e + 3
  <2>1. find_start_code(k) = 3
    BY <1>6, <1>7, <1>8 DEF find_start_code
  <2> QED
    BY <1>5, <1>8, <2>1 DEF Hit, e, b
<1>9. CASE b = e + 4
  <2>1. find_start_code(k) = 4
    BY <1>6, <1>7, <1>9 DEF find_start_code
  <2> QED
    BY <1>5, <1>9, <2>1 DEF Hit, e, b
<1> QED
  BY <1>6, <1>8, <1>9

(* The end of the unit at the offset is not known: nalu_read finds nothing.*)
LEMMA ReadNothing ==
  ASSUME Suffix, NEW j \in 1..Len(stream.unit), NEW o \in Nat,
         Base + o = stream.unit[j].begin,
         ~(j < Len(stream.unit) /\ Delimited(j))
  PROVE  nalu_read(o) = {}
<1> DEFINE e == stream.unit[j].end
<1>1. /\ stream \in Streams /\ Len(buf) \in Nat /\ sent \in Nat /\ Len(buf) <= sent
      /\ sent <= Len(stream.bytes) /\ Len(stream.bytes) \in Nat
      /\ e \in Nat /\ stream.unit[j].begin \in Nat
      /\ stream.unit[Len(stream.unit)].end = Len(stream.bytes)
      /\ Len(stream.unit) \in Nat
  BY StreamTypes DEF Suffix
<1>2. e + 4 > sent
  <2>1. CASE j = Len(stream.unit)
    BY <1>1, <2>1
  <2>2. CASE j # Len(stream.unit)
    <3>1. j < Len(stream.unit)
      BY <1>1, <2>2
    <3>2. ~(e + 4 <= sent)
      BY <3>1 DEF Delimited
    <3> QED
      BY <1>1, <3>2
  <2> QED
    BY <2>1, <2>2
<1>3. ASSUME NEW k \in o..Len(buf) PROVE ~Hit(k)
  <2>1. k \in Nat /\ k >= o
    BY <1>1
  <2>2. Base \in Nat /\ sent = Base + Len(buf)
    BY <1>1 DEF Base
  <2>3. CASE Base + k < e
    <3>1. stream.unit[j].begin <= Base + k
      BY <2>1, <2>2
    <3> QED
      BY <2>1, <2>3, <3>1, NoHitInPayload
  <2>4. CASE ~(Base + k < e)
    <3>1. ~(k + 3 < Len(buf))
      BY <1>1, <1>2, <2>1, <2>2, <2>4
    <3> QED
      BY <3>1 DEF Hit
  <2> QED
    BY <2>3, <2>4
<1> QED
  BY <1>3 DEF nalu_read

(* Otherwise it finds that unit, cut off at its end.                       *)
LEMMA ReadUnit ==
  ASSUME Suffix, NEW j \in 1..(Len(stream.unit) - 1), NEW o \in Nat,
         Base + o = stream.unit[j].begin, Delimited(j)
  PROVE  nalu_read(o) = {NaluTo(o, stream.unit[j].end - Base)}
<1> DEFINE e == stream.unit[j].end
           k == e - Base
<1>1. /\ stream \in Streams /\ Len(buf) \in Nat /\ sent \in Nat /\ Len(buf) <= sent
      /\ Len(stream.unit) \in Nat
  BY StreamTypes DEF Suffix
<1>2. j \in 1..Len(stream.unit)
  BY <1>1
<1>3. e \in Nat /\ stream.unit[j].begin \in Nat /\ stream.unit[j].begin < e /\ e + 4 <= sent
  BY <1>1, <1>2, StreamTypes, UnitOrder DEF Delimited
<1>4. Base \in Nat /\ sent = Base + Len(buf)
  BY <1>1 DEF Base
<1> HIDE DEF e
<1>5. k \in Nat /\ o < k /\ k <= Len(buf) /\ Base + k = e
  BY <1>1, <1>3, <1>4
<1> HIDE DEF k
<1>6. Hit(k)
  BY <1>5, HitAtEnd DEF e
<1>7. ASSUME NEW i \in o..(k - 1) PROVE ~Hit(i)
  <2>1. i \in Nat /\ stream.unit[j].begin <= Base + i /\ Base + i < e
    BY <1>3, <1>4, <1>5
  <2> QED
    BY <1>2, <2>1, NoHitInPayload DEF e
<1>8. ASSUME NEW i \in o..Len(buf), Hit(i), \A h \in o..(i - 1) : ~Hit(h) PROVE i = k
  <2>1. ~(i < k)
    <3>1. i < k => i \in o..(k - 1)
      BY <1>5
    <3> QED
      BY <1>7, <1>8, <3>1
  <2>2. ~(k < i)
    <3>1. k < i => k \in o..(i - 1)
      BY <1>5
    <3> QED
      BY <1>6, <1>8, <3>1
  <2>3. i \in Nat /\ k \in Nat
    BY <1>1, <1>5
  <2> QED
    BY <2>1, <2>2, <2>3
<1> DEFINE stops == {i \in o..Len(buf) : Hit(i) /\ \A h \in o..(i - 1) : ~Hit(h)}
<1>9. stops = {k}
  <2>1. k \in o..Len(buf)
    BY <1>1, <1>5
  <2>2. k \in stops
    BY <1>6, <1>7, <2>1
  <2>3. \A i \in stops : i = k
    BY <1>8
  <2> HIDE DEF stops
  <2> QED
    BY <2>2, <2>3
<1>10. nalu_read(o) = {NaluTo(o, i) : i \in stops}
  BY DEF nalu_read
<1> HIDE DEF stops
<1>11. nalu_read(o) = {NaluTo(o, k)}
  BY <1>9, <1>10
<1> QED
  BY <1>11 DEF k, e

(* The elements of a part of a sequence.                                   *)
LEMMA Slice ==
  ASSUME NEW S, NEW q \in Seq(S), NEW m \in Nat, NEW n \in Nat
  PROVE  /\ SubSeq(q, m + 1, m + n) = [i \in 1..n |-> q[m + i]]
         /\ Len(SubSeq(q, m + 1, m + n)) = n
<1>1. SubSeq(q, m + 1, m + n) = [i \in 1..n |-> q[m + i]]
  OBVIOUS
<1>2. Len([i \in 1..n |-> q[m + i]]) = n
  OBVIOUS
<1> QED
  BY <1>1, <1>2

(* Where a sequence is a part of another one, so are its parts.            *)
LEMMA SameSlice ==
  ASSUME NEW S, NEW T, NEW p \in Seq(S), NEW q \in Seq(T),
         NEW base \in Nat, NEW o \in Nat, NEW n \in Nat, o + n <= Len(p),
         \A i \in 1..Len(p) : p[i] = q[base + i],
         NEW b \in Nat, b = base + o
  PROVE  SubSeq(p, o + 1, o + n) = SubSeq(q, b + 1, b + n)
<1>1. SubSeq(p, o + 1, o + n) = [i \in 1..n |-> p[o + i]]
  BY Slice
<1>2. SubSeq(q, b + 1, b + n) = [i \in 1..n |-> q[b + i]]
  BY Slice
<1>3. ASSUME NEW i \in 1..n PROVE p[o + i] = q[b + i]
  <2>1. Len(p) \in Nat
    OBVIOUS
  <2>2. o + i \in 1..Len(p)
    BY <2>1
  <2>3. base + (o + i) = b + i
    OBVIOUS
  <2> QED
    BY <2>2, <2>3
<1> QED
  BY <1>1, <1>2, <1>3

(* The bytes of a unit that lies in the buffer.                            *)
LEMMA PayloadInBuffer ==
  ASSUME Suffix, NEW j \in 1..Len(stream.unit), NEW o \in Nat, NEW k \in Nat,
         Base + o = stream.unit[j].begin, Base + k = stream.unit[j].end,
         k <= Len(buf)
  PROVE  SubSeq(buf, o + 1, o + (k - o)) = Payload(j) /\ TypeOf(At(o)) = Type(j)
<1> DEFINE q == stream.bytes
           b == stream.unit[j].begin
           e == stream.unit[j].end
           n == k - o
<1>1. /\ stream \in Streams /\ q \in Seq(Nat) /\ Len(q) \in Nat
      /\ b \in Nat /\ e \in Nat /\ b < e /\ e <= Len(q) /\ Len(buf) \in Nat
  BY StreamTypes, UnitOrder DEF Suffix
<1>2. sent \in Nat /\ Base \in Nat
  BY <1>1 DEF Base, Suffix
<1>3. n \in Nat /\ n >= 1 /\ b + n = e /\ o + n = k /\ b = Base + o /\ o < Len(buf)
  BY <1>1, <1>2
<1>4. Payload(j) = SubSeq(q, b + 1, b + n) /\ Type(j) = TypeOf(q[b + 1])
  BY <1>3 DEF Payload, Type
<1>5. buf \in Seq(ByteValues) /\ \A i \in 1..Len(buf) : buf[i] = q[Base + i]
  BY DEF Suffix
<1>6. o + n <= Len(buf)
  BY <1>3
<1> HIDE DEF q, b, e, n
<1>7. SubSeq(buf, o + 1, o + n) = SubSeq(q, b + 1, b + n)
  <2>1. q \in Seq(Nat) /\ Base \in Nat /\ n \in Nat /\ b \in Nat /\ b = Base + o
    BY <1>1, <1>2, <1>3
  <2> QED
    BY <2>1, <1>5, <1>6, SameSlice
<1>8. TypeOf(At(o)) = Type(j)
  <2>1. At(o) = stream.bytes[Base + (o + 1)]
    BY <1>3, BufferByte
  <2>2. Base + (o + 1) = b + 1
    BY <1>1, <1>2, <1>3
  <2> QED
    BY <1>4, <2>1, <2>2 DEF q
<1> QED
  BY <1>4, <1>7, <1>8 DEF n

(* What the unit that was cut off looks like.  The start code behind it is *)
(* skipped, unless nothing has been received behind that.                  *)
LEMMA UnitRead ==
  ASSUME Suffix, NEW j \in 1..(Len(stream.unit) - 1), NEW o \in Nat,
         Base + o = stream.unit[j].begin, Delimited(j),
         NEW nalu \in nalu_read(o)
  PROVE  /\ nalu.next \in Nat
         /\ o + nalu.next <= Len(buf) =>
              /\ nalu.data = Payload(j) /\ nalu.type = Type(j)
              /\ Base + (o + nalu.next) = stream.unit[j + 1].begin
<1> DEFINE e == stream.unit[j].end
           k == e - Base
           start == find_start_code(k)
           b == stream.unit[j + 1].begin
<1>1. /\ stream \in Streams /\ Len(buf) \in Nat /\ sent \in Nat /\ Len(buf) <= sent
      /\ Len(stream.unit) \in Nat
  BY StreamTypes DEF Suffix
<1>2. j \in 1..Len(stream.unit) /\ j + 1 \in 1..Len(stream.unit)
  BY <1>1
<1>3. /\ e \in Nat /\ stream.unit[j].begin \in Nat /\ stream.unit[j].begin < e
      /\ e + 4 <= sent /\ b \in Nat
  BY <1>1, <1>2, StreamTypes, UnitOrder DEF Delimited
<1>4. Base \in Nat /\ sent = Base + Len(buf)
  BY <1>1 DEF Base
<1>5. nalu = NaluTo(o, k)
  BY ReadUnit
<1> HIDE DEF e
<1>6. k \in Nat /\ o < k /\ k + 3 < Len(buf) /\ Base + k = e
  BY <1>1, <1>3, <1>4
<1> HIDE DEF k
<1>7. e + start = b /\ Hit(k)
  BY <1>6, HitAtEnd DEF e
<1>8. start \in {3, 4}
  BY <1>7, StartCode DEF Hit
<1> HIDE DEF start, b
<1> DEFINE len == (IF k + start = Len(buf) THEN k + start ELSE k) - o
<1>9. /\ nalu.data = SubSeq(buf, o + 1, o + len)
      /\ nalu.type = TypeOf(At(o)) /\ nalu.next = len + start
  BY <1>5 DEF NaluTo, start
<1>10. len \in Nat
  BY <1>6, <1>8
<1>11. nalu.next \in Nat
  <2> HIDE DEF len
  <2> QED
    BY <1>8, <1>9, <1>10
<1>12. CASE k + start = Len(buf)
  <2>1. len = (k + start) - o
    BY <1>12
  <2>2. o + nalu.next > Len(buf)
    BY <1>1, <1>6, <1>8, <1>9, <1>12, <2>1
  <2> QED
    BY <1>1, <1>11, <2>2
<1>13. CASE k + start # Len(buf)
  <2>1. len = k - o
    BY <1>13
  <2> HIDE DEF len
  <2>a. k <= Len(buf) /\ Base + k = stream.unit[j].end
    BY <1>1, <1>6 DEF e
  <2>2. SubSeq(buf, o + 1, o + (k - o)) = Payload(j) /\ TypeOf(At(o)) = Type(j)
    BY <1>2, <1>6, <2>a, PayloadInBuffer
  <2>b. nalu.next = (k - o) + start
    BY <1>9, <2>1
  <2>3. Base + (o + nalu.next) = b
    BY <1>4, <1>6, <1>7, <1>8, <2>b
  <2> QED
    BY <1>9, <1>11, <2>1, <2>2, <2>3 DEF b
<1> QED
  BY <1>12, <1>13

-----------------------------------------------------------------------------
(* One more group.                                                         *)
LEMMA ExpectedGrows ==
  ASSUME NEW n \in Nat, n >= 1, NEW next, next = n + 1, NEW g, g = Group(n)
  PROVE  /\ Append(Expected(n), g) = Expected(next)
         /\ Len(Expected(next)) = n /\ Expected(1) = <<>>
<1> DEFINE S == {Group(i) : i \in Nat}
           m == n - 1
<1>1. \A i \in Nat : Group(i) \in S
  BY Zenon
<1>2. Expected(n) = [i \in 1..m |-> Group(i)]
  BY DEF Expected
<1>3. Expected(n + 1) = [i \in 1..n |-> Group(i)]
  <2>1. (n + 1) - 1 = n
    OBVIOUS
  <2> QED
    BY <2>1 DEF Expected
<1>4. Expected(1) = <<>>
  BY DEF Expected
<1>5. m \in Nat /\ n = m + 1
  OBVIOUS
<1> HIDE DEF S, m
<1>6. \A i \in 1..n : Group(i) \in S
  BY <1>1
<1>7. [i \in 1..m |-> Group(i)] \in Seq(S)
  BY <1>5, <1>6
<1>8. [i \in 1..n |-> Group(i)] \in Seq(S)
  BY <1>6
<1> DEFINE old == [i \in 1..m |-> Group(i)]
           new == [i \in 1..n |-> Group(i)]
<1>9. Len(old) = m /\ Len(new) = n /\ g \in S
  BY <1>5, <1>6
<1>10. \A i \in 1..n : new[i] = IF i = n THEN g ELSE old[i]
  BY <1>5
<1> HIDE DEF old, new
<1>11. Append(old, g) = new
  BY <1>5, <1>7, <1>8, <1>9, <1>10 DEF old, new
<1> QED
  BY <1>2, <1>3, <1>4, <1>9, <1>11 DEF old, new

(* A part of a sequence, longer at its end.                                *)
LEMMA LongerSlice ==
  ASSUME NEW S, NEW p \in Seq(S), NEW d \in Seq(S), NEW q, NEW base \in Nat,
         \A i \in 1..Len(p) : p[i] = q[base + i],
         \A i \in 1..Len(d) : d[i] = q[(base + Len(p)) + i]
  PROVE  /\ Len(p \o d) = Len(p) + Len(d)
         /\ \A i \in 1..Len(p \o d) : (p \o d)[i] = q[base + i]
<1> DEFINE l == Len(p)
           n == Len(d)
           r == p \o d
<1>1. l \in Nat /\ n \in Nat
  OBVIOUS
<1>2. \A i \in 1..n : d[i] = q[(base + l) + i]
  OBVIOUS
<1>3. \A i \in 1..l : p[i] = q[base + i]
  OBVIOUS
<1>5. /\ Len(r) = l + n
      /\ \A i \in 1..(l + n) : r[i] = IF i <= l THEN p[i] ELSE d[i - l]
  BY ConcatProperties
<1> HIDE DEF r, l, n
<1>6. ASSUME NEW i \in 1..(l + n) PROVE r[i] = q[base + i]
  <2>1. CASE i <= l
    <3>1. i \in 1..l
      BY <1>1, <2>1
    <3> QED
      BY <1>3, <1>5, <2>1, <3>1
  <2>2. CASE ~(i <= l)
    <3>1. i - l \in 1..n /\ (base + l) + (i - l) = base + i
      BY <1>1, <2>2
    <3> QED
      BY <1>2, <1>5, <2>2, <3>1
  <2> QED
    BY <2>1, <2>2
<1> QED
  BY <1>5, <1>6 DEF r, l, n

(* A part of a sequence, cut off at its front.                             *)
LEMMA ShorterSlice ==
  ASSUME NEW S, NEW p \in Seq(S), NEW q, NEW base \in Nat,
         NEW m \in Nat, m <= Len(p),
         \A i \in 1..Len(p) : p[i] = q[base + i],
         NEW r, r = SubSeq(p, m + 1, Len(p))
  PROVE  Len(r) = Len(p) - m /\ \A i \in 1..Len(r) : r[i] = q[(base + m) + i]
<1> DEFINE n == Len(p) - m
<1>1. n \in Nat /\ Len(p) = m + n
  OBVIOUS
<1>a. r = SubSeq(p, m + 1, m + n)
  BY <1>1
<1>2. r = [i \in 1..n |-> p[m + i]] /\ Len(r) = n
  <2> HIDE DEF n
  <2> QED
    BY <1>1, <1>a, Slice
<1>3. Len(r) = n
  BY <1>2
<1>4. ASSUME NEW i \in 1..n PROVE r[i] = q[(base + m) + i]
  <2>1. m + i \in 1..Len(p) /\ base + (m + i) = (base + m) + i
    BY <1>1
  <2> QED
    BY <1>2, <2>1
<1> QED
  BY <1>3, <1>4

-----------------------------------------------------------------------------
(* Before the first body.                                                  *)
LEMMA InitUInv == Init => UInv
<1> SUFFICES ASSUME Init PROVE UInv
  OBVIOUS
<1>1. /\ stream \in Streams /\ sent = 0 /\ buf = <<>> /\ started = 0 /\ pos = 0
      /\ pc = "idle" /\ out = <<>> /\ failures = 0
  BY DEF Init
<1>2. Len(buf) = 0
  BY <1>1
<1>a. sent = 0
  BY <1>1
<1>3. Base = 0
  BY <1>2, <1>a DEF Base
<1>4. Suffix
  <2>1. buf \in Seq(ByteValues) /\ sent <= Len(stream.bytes)
    BY <1>1, StreamTypes
  <2> QED
    BY <1>1, <1>2, <2>1 DEF Suffix
<1> QED
  BY <1>1, <1>3, <1>4 DEF UInv

(* A body longer, the buffer still holds the bytes received last.          *)
LEMMA BodySuffix ==
  ASSUME Suffix, NEW n \in Nat, Body(n), buf' \in Seq(ByteValues)
  PROVE  Suffix' /\ Base' = Base
<1> DEFINE q == stream.bytes
           d == SubSeq(q, sent + 1, sent + n)
<1>1. /\ stream \in Streams /\ stream' = stream /\ sent' = sent + n /\ buf' = buf \o d
      /\ sent + n <= Len(q) /\ sent \in Nat /\ buf \in Seq(ByteValues)
      /\ Len(buf) \in Nat /\ Len(buf) <= sent
  BY DEF Suffix, Body
<1>2. q \in Seq(Nat) /\ Base \in Nat /\ sent = Base + Len(buf)
  BY <1>1, StreamTypes DEF Base
<1>a. Len(q) \in Nat
  BY <1>1, StreamTypes
<1>3. \A i \in 1..Len(buf) : buf[i] = q[Base + i]
  BY DEF Suffix
<1> HIDE DEF q
<1>b. q \in Seq(Nat) /\ sent \in Nat
  BY <1>1, <1>2
<1>4. d = [i \in 1..n |-> q[sent + i]] /\ Len(d) = n
  BY <1>b, Slice
<1>5. d \in Seq(ByteValues)
  <2>1. \A i \in Nat : q[i] \in ByteValues
    BY DEF ByteValues, q
  <2>2. \A i \in 1..n : q[sent + i] \in ByteValues
    BY <1>1, <2>1
  <2>3. d \in [1..n -> ByteValues]
    BY <1>4, <2>2
  <2> HIDE DEF d
  <2> QED
    BY <2>3, SeqDef
<1>6. \A i \in 1..Len(d) : d[i] = q[(Base + Len(buf)) + i]
  BY <1>2, <1>4
<1> HIDE DEF d
<1>7. /\ Len(buf \o d) = Len(buf) + Len(d)
      /\ \A i \in 1..Len(buf \o d) : (buf \o d)[i] = q[Base + i]
  BY <1>1, <1>2, <1>3, <1>5, <1>6, LongerSlice
<1>8. Len(buf') = Len(buf) + n /\ \A i \in 1..Len(buf') : buf'[i] = q[Base + i]
  BY <1>1, <1>4, <1>7
<1>9. Base' = Base
  <2>1. Base' = sent' - Len(buf')
    BY DEF Base
  <2> QED
    BY <1>1, <1>2, <1>8, <2>1
<1>10. Len(buf') <= sent' /\ sent' \in Nat /\ sent' <= Len(q)
  BY <1>1, <1>8
<1>11. ByteValues' = ByteValues
  BY <1>1 DEF ByteValues
<1> QED
  BY <1>1, <1>8, <1>9, <1>10, <1>11 DEF Suffix, q

(* A body begins a new call of h264_stream_proc.                           *)
LEMMA BodyUnits ==
  ASSUME UInv, HInv', NEW n \in 0..MaxBody, Body(n)
  PROVE  UInv'
<1> USE BodyAssumption
<1>1. /\ pc = "idle" /\ pos' = 0 /\ pc' = (IF started = 0 THEN "meta" ELSE "loop")
      /\ started' = started /\ out' = out /\ failures' = failures /\ undefined' = undefined
      /\ stream' = stream /\ sent' = sent + n /\ meta' = meta
  BY DEF Body
<1>2. started \in {0, 1} /\ failures \in Nat
  BY DEF UInv
<1>3. (started' = 0 => pc' # "loop") /\ (pc' = "meta" => started' = 0) /\ pc' # "idle" /\ pc' # "fault"
  BY <1>1, <1>2
<1>4. Clean' = Clean
  BY <1>1 DEF Clean
<1> SUFFICES ASSUME Clean
             PROVE  /\ Suffix'
                    /\ started' = 0 => Base' = 0 /\ out' = <<>>
                    /\ started' = 1 => AtUnit'
  BY <1>1, <1>2, <1>3, <1>4 DEF UInv
<1>5. /\ Suffix /\ (started = 0 => Base = 0 /\ out = <<>>) /\ pos = 0
      /\ (started = 1 /\ pos <= Len(buf) => AtUnit)
  BY <1>1 DEF UInv
<1>6. buf' \in Seq(ByteValues)
  <2>1. ByteValues' = ByteValues
    BY <1>1 DEF ByteValues
  <2> QED
    BY <2>1 DEF HInv
<1>7. n \in Nat
  OBVIOUS
<1>8. Suffix' /\ Base' = Base
  BY <1>5, <1>6, <1>7, BodySuffix
<1>9. ASSUME started' = 1 PROVE AtUnit'
  <2>1. AtUnit
    <3>1. Len(buf) \in Nat
      BY <1>5 DEF Suffix
    <3>2. pos <= Len(buf)
      BY <1>5, <3>1
    <3> QED
      BY <1>1, <1>5, <1>9, <3>2
  <2>2. /\ Turn' = Turn /\ Expected(Turn - 1)' = Expected(Turn - 1) /\ Config' = Config
        /\ Base' + pos' = Base + pos
    BY <1>1, <1>5, <1>8 DEF Turn, Expected, Group, Config, Payload, Type
  <2>3. Delimited(Turn - 1)'
    <3>1. stream.unit[Turn - 1].end + 4 <= sent
      BY <2>1 DEF AtUnit, Delimited
    <3>2. stream.unit[Turn - 1].end \in Nat
      <4>1. Turn - 1 \in 1..Len(stream.unit)
        <5>1. Turn \in 3..Len(stream.unit) /\ Len(stream.unit) \in Nat
          BY <1>5, <2>1, StreamTypes DEF AtUnit, Suffix
        <5> QED
          BY <5>1
      <4> QED
        BY <1>5, <4>1, StreamTypes DEF Suffix
    <3>3. sent \in Nat
      BY <1>5 DEF Suffix
    <3>4. stream.unit[Turn - 1].end + 4 <= sent + n
      BY <1>7, <3>1, <3>2, <3>3
    <3> QED
      BY <1>1, <2>2, <3>4 DEF Delimited
  <2> QED
    BY <1>1, <2>1, <2>2, <2>3 DEF AtUnit
<1> QED
  BY <1>1, <1>5, <1>8, <1>9

(* What depends on the stream and the buffer only.                         *)
LEMMA SameBuffer ==
  ASSUME stream' = stream, sent' = sent, buf' = buf
  PROVE  /\ Suffix' = Suffix /\ Base' = Base /\ Config' = Config
         /\ \A n : Expected(n)' = Expected(n) /\ Delimited(n)' = Delimited(n)
  BY DEF Suffix, Base, Config, Expected, Group, Payload, Type, Delimited, ByteValues

(* A unit can be read at the offset: its end is known.                     *)
LEMMA ReadMeansDelimited ==
  ASSUME Suffix, NEW j \in 1..Len(stream.unit), NEW o \in Nat,
         Base + o = stream.unit[j].begin, NEW nalu \in nalu_read(o)
  PROVE  j < Len(stream.unit) /\ Delimited(j) /\ j \in 1..(Len(stream.unit) - 1)
<1>1. j < Len(stream.unit) /\ Delimited(j)
  BY ReadNothing
<1>2. Len(stream.unit) \in Nat
  BY StreamTypes DEF Suffix
<1> QED
  BY <1>1, <1>2

(* A unit can be read only inside the buffer, which then has a start code. *)
LEMMA ReadInBuffer ==
  ASSUME NEW S, buf \in Seq(S), NEW o \in Nat, NEW nalu \in nalu_read(o)
  PROVE  o <= Len(buf) /\ o + 3 < Len(buf)
<1>1. PICK k \in o..Len(buf) : Hit(k)
  BY DEF nalu_read
<1>2. Len(buf) \in Nat /\ k + 3 < Len(buf)
  BY <1>1 DEF Hit
<1> QED
  BY <1>1, <1>2

(* The start code at the front of the stream.                              *)
LEMMA FirstUnit ==
  ASSUME Suffix, Base = 0, find_start_code(0) # 0,
         NEW sps \in nalu_read(find_start_code(0))
  PROVE  find_start_code(0) = stream.unit[1].begin /\ stream.unit[1].begin \in Nat
<1> DEFINE b == stream.unit[1].begin
<1>1. stream \in Streams /\ buf \in Seq(ByteValues) /\ Len(buf) \in Nat
  BY DEF Suffix
<1>2. 1 \in 1..Len(stream.unit) /\ 0 = CodeAt(stream, 1)
  BY <1>1, StreamTypes DEF CodeAt
<1>3. b \in Nat /\ b \in {0 + 3, 0 + 4}
  BY <1>1, <1>2, UnitCode
<1>4. /\ stream.bytes[0 + 1] = 0 /\ stream.bytes[0 + 2] = 0
      /\ b = 0 + 3 => stream.bytes[0 + 3] = 1
      /\ b = 0 + 4 => stream.bytes[0 + 3] = 0 /\ stream.bytes[0 + 4] = 1
  BY <1>1, <1>2, UnitCode
<1>5. find_start_code(0) \in {3, 4}
  BY StartCode
<1>6. 0 + 3 < Len(buf)
  <2> DEFINE o == find_start_code(0)
  <2>1. o \in Nat /\ sps \in nalu_read(o)
    BY <1>5
  <2> HIDE DEF o
  <2>2. o + 3 < Len(buf)
    BY <1>1, <2>1, ReadInBuffer
  <2> QED
    BY <1>1, <2>1, <2>2
<1>7. /\ At(0) = stream.bytes[0 + 1] /\ At(0 + 1) = stream.bytes[0 + 2]
      /\ At(0 + 2) = stream.bytes[0 + 3] /\ At(0 + 3) = stream.bytes[0 + 4]
  BY <1>6, FourBytes
<1> HIDE DEF b
<1>8. CASE b = 3
  <2>1. find_start_code(0) = 3
    BY <1>4, <1>7, <1>8 DEF find_start_code
  <2> QED
    BY <1>3, <1>8, <2>1 DEF b
<1>9. CASE b = 4
  <2>1. find_start_code(0) = 4
    BY <1>4, <1>7, <1>9 DEF find_start_code
  <2> QED
    BY <1>3, <1>9, <2>1 DEF b
<1> QED
  BY <1>3, <1>8, <1>9

(* h264_metadata_get finds both parameter sets: pos is at the third unit,  *)
(* and the configuration was queued.                                       *)
LEMMA MetaGetUnits ==
  ASSUME Suffix, Base = 0, out = <<>>, MetaGet, pos' <= Len(buf)
  PROVE  AtUnit'
<1> DEFINE first == find_start_code(0)
<1>1. PICK sps \in nalu_read(first) : \E pps \in nalu_read(first + sps.next) :
        meta' = MetaOf(sps, pps) /\ pos' = (first + sps.next) + pps.next
  BY DEF MetaGet
<1>2. PICK pps \in nalu_read(first + sps.next) :
        meta' = MetaOf(sps, pps) /\ pos' = (first + sps.next) + pps.next
  BY <1>1
<1>3. /\ stream' = stream /\ sent' = sent /\ buf' = buf
      /\ out' = Append(out, <<[kind |-> "meta", data |-> meta']>>)
  BY DEF MetaGet
<1>4. first = stream.unit[1].begin /\ first \in Nat
  BY FirstUnit DEF MetaGet
<1>5. /\ stream \in Streams /\ buf \in Seq(ByteValues) /\ Len(buf) \in Nat
      /\ Len(stream.unit) \in Nat /\ Len(stream.unit) >= 2
  BY StreamTypes DEF Suffix
<1> HIDE DEF first
<1>6. 1 \in 1..Len(stream.unit) /\ Base + first = stream.unit[1].begin
  BY <1>4, <1>5
<1>7. Delimited(1) /\ 1 \in 1..(Len(stream.unit) - 1)
  BY <1>4, <1>6, ReadMeansDelimited
<1> DEFINE second == first + sps.next
<1>8. sps.next \in Nat /\ second \in Nat
  <2>1. sps.next \in Nat
    BY <1>4, <1>6, <1>7, UnitRead
  <2> QED
    BY <1>4, <2>1
<1>9. second <= Len(buf)
  BY <1>2, <1>5, <1>8, ReadInBuffer
<1>10. /\ sps.data = Payload(1) /\ sps.type = Type(1)
       /\ Base + second = stream.unit[1 + 1].begin
  BY <1>4, <1>6, <1>7, <1>9, UnitRead
<1>11. pps \in nalu_read(second) /\ pos' = second + pps.next
  BY <1>2
<1> HIDE DEF second
<1>12. 2 \in 1..Len(stream.unit) /\ Base + second = stream.unit[2].begin
  BY <1>5, <1>10
<1>13. Delimited(2) /\ 2 \in 1..(Len(stream.unit) - 1)
  BY <1>8, <1>11, <1>12, ReadMeansDelimited
<1>14. second + pps.next <= Len(buf)
  BY <1>11
<1>15. /\ pps.data = Payload(2) /\ pps.type = Type(2)
       /\ Base + (second + pps.next) = stream.unit[2 + 1].begin
  BY <1>8, <1>11, <1>12, <1>13, <1>14, UnitRead
<1>16. meta' = Config
  BY <1>2, <1>10, <1>15 DEF MetaOf, Config
<1>17. out' = Expected(2) /\ Len(out') = 1
  <2> DEFINE g == <<[kind |-> "meta", data |-> Config]>>
  <2>1. g = Group(1)
    BY DEF Group
  <2> HIDE DEF g
  <2>a. 1 \in Nat /\ 1 >= 1 /\ 2 = 1 + 1
    OBVIOUS
  <2>2. /\ Append(Expected(1), g) = Expected(2) /\ Len(Expected(2)) = 1
        /\ Expected(1) = <<>>
    BY <2>1, <2>a, ExpectedGrows
  <2>3. out' = Append(<<>>, g)
    BY <1>3, <1>16 DEF g
  <2> QED
    BY <2>2, <2>3
<1>18. /\ Base' = Base /\ Config' = Config /\ Expected(2)' = Expected(2)
       /\ Delimited(2)' = Delimited(2)
  BY <1>3, SameBuffer
<1>a. Len(out)' = 1
  BY <1>17
<1>19. Len(out)' = 1 /\ Turn' = 3
  BY <1>a DEF Turn
<1>20. (Turn - 1)' = 2 /\ Turn' \in 3..Len(stream.unit)
  BY <1>5, <1>13, <1>19
<1>21. Base' + pos' = stream.unit[3].begin
  BY <1>11, <1>15, <1>18
<1>22. out' = Expected(Turn - 1)'
  BY <1>17, <1>18, <1>20, <1>3 DEF Expected, Group, Config, Payload, Type
<1>23. Delimited(Turn - 1)'
  BY <1>3, <1>13, <1>20 DEF Delimited
<1> QED
  BY <1>3, <1>16, <1>18, <1>19, <1>20, <1>21, <1>22, <1>23 DEF AtUnit

(* A turn of the loop: the next unit was queued, pos is at the one behind. *)
LEMMA NaluUnits ==
  ASSUME Suffix, AtUnit, Nalu, pos \in Nat, pos' <= Len(buf)
  PROVE  AtUnit'
<1> DEFINE j == Turn
<1>1. PICK nalu \in nalu_read(pos) :
        out' = Append(out, Packed(nalu)) /\ pos' = pos + nalu.next
  BY DEF Nalu
<1>2. stream' = stream /\ sent' = sent /\ buf' = buf /\ meta' = meta
  BY DEF Nalu
<1>3. /\ Len(out) \in Nat /\ j \in 3..Len(stream.unit) /\ j = Len(out) + 2
      /\ out = Expected(j - 1) /\ Base + pos = stream.unit[j].begin /\ meta = Config
  BY DEF AtUnit, Turn
<1>4. Len(stream.unit) \in Nat
  BY StreamTypes DEF Suffix
<1> HIDE DEF j
<1>5. j \in 1..Len(stream.unit)
  BY <1>3, <1>4
<1>6. Delimited(j) /\ j \in 1..(Len(stream.unit) - 1)
  BY <1>3, <1>5, ReadMeansDelimited
<1>7. pos + nalu.next <= Len(buf)
  BY <1>1
<1>8. /\ nalu.data = Payload(j) /\ nalu.type = Type(j)
      /\ Base + (pos + nalu.next) = stream.unit[j + 1].begin
  BY <1>3, <1>6, <1>7, UnitRead
<1>9. PICK n \in Nat : n = j - 1
  BY <1>3, <1>4
<1>a. j \in 3..Len(stream.unit)
  BY <1>3
<1>10. n >= 1 /\ n # 1 /\ n + 1 = j
  BY <1>4, <1>9, <1>a
<1>11. Packed(nalu) = Group(n)
  BY <1>3, <1>8, <1>10 DEF Packed, Group
<1>12. out' = Expected(j) /\ Len(Expected(j)) = n
  <2>1. out = Expected(n)
    BY <1>3, <1>9
  <2>2. Append(Expected(n), Packed(nalu)) = Expected(j) /\ Len(Expected(j)) = n
    BY <1>10, <1>11, ExpectedGrows
  <2> QED
    BY <1>1, <2>1, <2>2
<1>13. Len(out)' = n
  BY <1>12
<1>14. Turn' = j + 1
  <2>1. Turn' = n + 2
    BY <1>13 DEF Turn
  <2> QED
    BY <1>10, <2>1
<1>15. Turn' \in 3..Len(stream.unit) /\ (Turn - 1)' = j /\ Len(out)' \in Nat
  <2>1. (Turn - 1)' = (j + 1) - 1
    BY <1>14
  <2> QED
    BY <1>4, <1>6, <1>13, <1>14, <1>a, <2>1
<1>16. Base' = Base /\ Config' = Config
  BY <1>2, SameBuffer
<1>17. Base' + pos' = stream.unit[j + 1].begin
  BY <1>1, <1>8, <1>16
<1>18. out' = Expected(Turn - 1)'
  BY <1>2, <1>12, <1>15 DEF Expected, Group, Config, Payload, Type
<1>19. Delimited(Turn - 1)'
  BY <1>2, <1>6, <1>15 DEF Delimited
<1> QED
  BY <1>2, <1>3, <1>14, <1>15, <1>16, <1>17, <1>18, <1>19 DEF AtUnit

(* No further unit: the buffer begins where the payload of the next unit   *)
(* does, and the end of that is not known.                                 *)
LEMMA AlignUnits ==
  ASSUME Suffix, AtUnit, Align, pos \in Nat, buf' \in Seq(ByteValues)
  PROVE  Suffix' /\ AtUnit' /\ Exhausted'
<1> DEFINE q == stream.bytes
<1>1. /\ pos <= Len(buf) /\ nalu_read(pos) = {} /\ buf' = SubSeq(buf, pos + 1, Len(buf))
      /\ pos' = 0 /\ stream' = stream /\ sent' = sent /\ meta' = meta /\ out' = out
  BY DEF Align
<1>2. /\ stream \in Streams /\ buf \in Seq(ByteValues) /\ Len(buf) \in Nat /\ sent \in Nat
      /\ Len(buf) <= sent /\ sent <= Len(q)
      /\ \A i \in 1..Len(buf) : buf[i] = q[Base + i]
  BY DEF Suffix
<1>3. q \in Seq(Nat) /\ Base \in Nat /\ Len(stream.unit) \in Nat
  BY <1>2, StreamTypes DEF Base
<1>4. /\ Len(buf') = Len(buf) - pos
      /\ \A i \in 1..Len(buf') : buf'[i] = q[(Base + pos) + i]
  <2>1. /\ buf \in Seq(ByteValues) /\ Base \in Nat /\ pos <= Len(buf)
        /\ \A i \in 1..Len(buf) : buf[i] = q[Base + i]
        /\ buf' = SubSeq(buf, pos + 1, Len(buf))
    BY <1>1, <1>2, <1>3
  <2> HIDE DEF q
  <2> QED
    BY <2>1, ShorterSlice
<1>5. Base' = Base + pos
  <2>1. Base' = sent' - Len(buf') /\ Base = sent - Len(buf)
    BY DEF Base
  <2> QED
    BY <1>1, <1>2, <1>4, <2>1
<1>6. Suffix'
  <2>1. ByteValues' = ByteValues
    BY <1>1 DEF ByteValues
  <2>2. Len(buf') <= sent'
    BY <1>1, <1>2, <1>4
  <2> QED
    BY <1>1, <1>2, <1>4, <1>5, <2>1, <2>2 DEF Suffix
<1>7. /\ Turn' = Turn /\ Expected(Turn - 1)' = Expected(Turn - 1) /\ Config' = Config
      /\ Delimited(Turn - 1)' = Delimited(Turn - 1) /\ Delimited(Turn)' = Delimited(Turn)
  BY <1>1 DEF Turn, Expected, Group, Config, Payload, Type, Delimited
<1>8. Base' + pos' = Base + pos
  BY <1>1, <1>3, <1>5
<1>9. AtUnit'
  BY <1>1, <1>7, <1>8 DEF AtUnit
<1>10. ASSUME Turn < Len(stream.unit), Delimited(Turn) PROVE FALSE
  <2> DEFINE j == Turn
  <2>1. j \in 3..Len(stream.unit) /\ Base + pos = stream.unit[j].begin /\ j < Len(stream.unit)
    BY <1>10 DEF AtUnit
  <2>a. Delimited(j)
    BY <1>10
  <2> HIDE DEF j
  <2>2. j \in 1..(Len(stream.unit) - 1)
    BY <1>3, <2>1
  <2>3. nalu_read(pos) = {NaluTo(pos, stream.unit[j].end - Base)}
    BY <2>1, <2>2, <2>a, ReadUnit
  <2> QED
    BY <1>1, <2>3
<1>11. Exhausted'
  BY <1>1, <1>7, <1>10 DEF Exhausted
<1> QED
  BY <1>6, <1>9, <1>11

(* Every step of h264_stream_proc keeps the invariant.                     *)
LEMMA NextUInv == HInv /\ HInv' /\ UInv /\ [Next]_vars => UInv'
<1> SUFFICES ASSUME HInv, HInv', UInv, [Next]_vars PROVE UInv'
  OBVIOUS
<1>0. /\ started \in {0, 1} /\ failures \in Nat /\ pos \in Nat
      /\ (started = 0 => pc # "loop") /\ (pc = "meta" => started = 0)
  BY DEF UInv, HInv
<1>1. CASE \E n \in 0..MaxBody : Body(n)
  BY <1>1, BodyUnits
<1>2. ASSUME failures' = failures + 1, started' \in {0, 1}, pc' # "loop" \/ started' = 1,
             pc' = "meta" => started' = 0
      PROVE  UInv'
  BY <1>0, <1>2 DEF UInv, Clean
<1>3. CASE \E n \in 0..MaxBody : BodyLost(n)
  <2>1. /\ failures' = failures + 1 /\ started' = started
        /\ pc' = (IF started = 0 THEN "meta" ELSE "loop")
    BY <1>3 DEF BodyLost
  <2> QED
    BY <1>0, <1>2, <2>1
<1>4. CASE MetaAllocFails \/ MetaPackFails
  BY <1>0, <1>2, <1>4 DEF MetaAllocFails, MetaPackFails
<1>5. CASE NaluPackFails
  BY <1>0, <1>2, <1>5 DEF NaluPackFails
<1>6. CASE MetaUndefined
  <2>1. undefined' = TRUE /\ failures' = failures /\ pc = "meta"
    BY <1>6 DEF MetaUndefined
  <2>2. started' \in {0, 1} /\ (pc' # "loop" \/ started' = 1) /\ pc' # "meta"
    BY <1>0, <1>6 DEF MetaUndefined
  <2> QED
    BY <1>0, <2>1, <2>2 DEF UInv, Clean
<1>7. CASE MetaRefused
  <2>1. /\ pc = "meta" /\ pc' = "idle" /\ stream' = stream /\ sent' = sent /\ buf' = buf
        /\ started' = started /\ pos' = pos /\ out' = out /\ failures' = failures
        /\ undefined' = undefined
    BY <1>7 DEF MetaRefused
  <2>2. started = 0 /\ Suffix' = Suffix /\ Base' = Base /\ Clean' = Clean
    BY <1>0, <2>1, SameBuffer DEF Clean
  <2> QED
    BY <1>0, <2>1, <2>2 DEF UInv
<1>8. CASE MetaGet
  <2>1. /\ pc = "meta" /\ pc' = "loop" /\ stream' = stream /\ sent' = sent /\ buf' = buf
        /\ started' = 1 /\ failures' = failures /\ undefined' = undefined
    BY <1>8 DEF MetaGet
  <2>2. started = 0 /\ Suffix' = Suffix /\ Clean' = Clean
    BY <1>0, <2>1, SameBuffer DEF Clean
  <2>3. ASSUME Clean, pos' <= Len(buf) PROVE AtUnit'
    <3>1. Suffix /\ Base = 0 /\ out = <<>>
      BY <2>2, <2>3 DEF UInv
    <3> QED
      BY <1>8, <2>3, <3>1, MetaGetUnits
  <2> QED
    BY <1>0, <2>1, <2>2, <2>3 DEF UInv
<1>9. CASE Nalu
  <2>1. /\ pc = "loop" /\ pc' = "loop" /\ stream' = stream /\ sent' = sent /\ buf' = buf
        /\ started' = started /\ failures' = failures /\ undefined' = undefined
    BY <1>9 DEF Nalu
  <2>2. started = 1 /\ Suffix' = Suffix /\ Clean' = Clean
    BY <1>0, <2>1, SameBuffer DEF Clean
  <2>3. ASSUME Clean, pos' <= Len(buf) PROVE AtUnit'
    <3>1. PICK nalu \in nalu_read(pos) : TRUE
      BY <1>9 DEF Nalu
    <3>2. pos <= Len(buf)
      BY <1>0, <3>1, ReadInBuffer DEF HInv
    <3>3. Suffix /\ AtUnit
      BY <2>1, <2>2, <2>3, <3>2 DEF UInv
    <3> QED
      BY <1>0, <1>9, <2>3, <3>3, NaluUnits
  <2> QED
    BY <1>0, <2>1, <2>2, <2>3 DEF UInv
<1>10. CASE Align
  <2>1. /\ pc = "loop" /\ pc' = "idle" /\ pos <= Len(buf) /\ pos' = 0 /\ stream' = stream
        /\ started' = started /\ failures' = failures /\ undefined' = undefined
    BY <1>10 DEF Align
  <2>2. started = 1 /\ Clean' = Clean /\ ByteValues' = ByteValues
    BY <1>0, <2>1 DEF Clean, ByteValues
  <2>3. ASSUME Clean PROVE Suffix' /\ AtUnit' /\ Exhausted'
    <3>1. Suffix /\ AtUnit
      BY <2>1, <2>2, <2>3 DEF UInv
    <3>2. buf' \in Seq(ByteValues)
      BY <2>2 DEF HInv
    <3> QED
      BY <1>0, <1>10, <3>1, <3>2, AlignUnits
  <2> QED
    BY <1>0, <2>1, <2>2, <2>3 DEF UInv
<1>11. CASE AlignOverrun
  <2>1. /\ pc = "loop" /\ pc' = "fault" /\ stream' = stream /\ sent' = sent /\ buf' = buf
        /\ started' = started /\ failures' = failures /\ undefined' = undefined
    BY <1>11 DEF AlignOverrun
  <2>2. started = 1 /\ Suffix' = Suffix /\ Clean' = Clean
    BY <1>0, <2>1, SameBuffer DEF Clean
  <2> QED
    BY <1>0, <2>1, <2>2 DEF UInv
<1>12. CASE UNCHANGED vars
  <2>1. /\ stream' = stream /\ sent' = sent /\ buf' = buf /\ started' = started /\ meta' = meta
        /\ pos' = pos /\ pc' = pc /\ out' = out /\ failures' = failures
        /\ undefined' = undefined
    BY <1>12 DEF vars
  <2>2. Suffix' = Suffix /\ Base' = Base /\ Clean' = Clean
    BY <2>1, SameBuffer DEF Clean
  <2>3. Exhausted' = Exhausted
    BY <2>1 DEF Exhausted, Turn, Delimited
  <2>4. AtUnit' = AtUnit
    BY <2>1, <2>2 DEF AtUnit, Turn, Delimited, Expected, Group, Config, Payload, Type
  <2> QED
    BY <2>1, <2>2, <2>3, <2>4 DEF UInv
<1> QED
  BY <1>1, <1>3, <1>4, <1>5, <1>6, <1>7, <1>8, <1>9, <1>10, <1>11, <1>12 DEF Next, Proc

(* The end of a unit is known before that of a later one.                  *)
LEMMA DelimitedBefore ==
  ASSUME stream \in Streams, sent \in Nat, NEW j \in 1..Len(stream.unit),
         NEW i \in 1..(j - 1), Delimited(j)
  PROVE  Delimited(i)
<1>1. Len(stream.unit) \in Nat
  BY StreamTypes
<1>2. i \in 1..Len(stream.unit)
  BY <1>1
<1>3. stream.unit[i].end < stream.unit[j].begin /\ stream.unit[j].begin < stream.unit[j].end
  BY UnitOrder
<1>4. /\ stream.unit[i].end \in Nat /\ stream.unit[j].begin \in Nat
      /\ stream.unit[j].end \in Nat
  BY <1>2, StreamTypes
<1>5. stream.unit[j].end + 4 <= sent
  BY DEF Delimited
<1> DEFINE a == stream.unit[i].end
           b == stream.unit[j].begin
           c == stream.unit[j].end
<1>6. a \in Nat /\ b \in Nat /\ c \in Nat /\ a < b /\ b < c /\ c + 4 <= sent
  BY <1>3, <1>4, <1>5
<1> HIDE DEF a, b, c
<1>7. a + 4 <= sent
  BY <1>6
<1> QED
  BY <1>7 DEF a, Delimited

(* Between two bodies the units before the next one are those whose end is *)
(* known.                                                                  *)
LEMMA UInvUnits == UInv => UnitsExact
<1> SUFFICES ASSUME UInv, pc = "idle", failures = 0, ~undefined, started = 1
             PROVE  \E n \in 2..(Len(stream.unit) - 1) :
                      /\ \A i \in 1..(Len(stream.unit) - 1) : Delimited(i) <=> i <= n
                      /\ out = Expected(n)
  BY DEF UnitsExact
<1>1. Suffix /\ pos = 0 /\ Exhausted
  BY DEF UInv, Clean
<1>2. /\ stream \in Streams /\ Len(buf) \in Nat /\ Len(stream.unit) \in Nat /\ sent \in Nat
      /\ \A i \in 1..Len(stream.unit) :
           stream.unit[i].begin \in Nat /\ stream.unit[i].end \in Nat
  BY <1>1, StreamTypes DEF Suffix
<1>3. AtUnit
  <2>1. pos <= Len(buf)
    BY <1>1, <1>2
  <2> QED
    BY <2>1 DEF UInv, Clean
<1>4. PICK n \in Nat : n = Turn - 1
  BY <1>2, <1>3 DEF AtUnit
<1>5. /\ n \in 2..(Len(stream.unit) - 1) /\ Turn = n + 1
      /\ out = Expected(n) /\ Delimited(n) /\ n \in 1..Len(stream.unit)
  BY <1>2, <1>3, <1>4 DEF AtUnit
<1>6. ASSUME NEW i \in 1..(Len(stream.unit) - 1), i <= n PROVE Delimited(i)
  <2>1. CASE i = n
    BY <1>5, <2>1
  <2>2. CASE i # n
    <3>1. i \in 1..(n - 1)
      BY <1>2, <1>6, <2>2
    <3> QED
      BY <1>2, <1>5, <3>1, DelimitedBefore
  <2> QED
    BY <2>1, <2>2
<1>7. ASSUME NEW i \in 1..(Len(stream.unit) - 1), ~(i <= n) PROVE ~Delimited(i)
  <2> DEFINE t == n + 1
  <2>1. t < Len(stream.unit) /\ t \in 1..Len(stream.unit) /\ t <= i /\ i \in 1..Len(stream.unit)
    BY <1>2, <1>5, <1>7
  <2>2. ~Delimited(t)
    BY <1>1, <1>5, <2>1 DEF Exhausted
  <2> HIDE DEF t
  <2>3. CASE i = t
    BY <2>2, <2>3
  <2>4. CASE i # t
    <3>1. t \in 1..(i - 1)
      BY <2>1, <2>4
    <3> QED
      BY <1>2, <2>1, <2>2, <3>1, DelimitedBefore
  <2> QED
    BY <2>3, <2>4
<1> QED
  BY <1>5, <1>6, <1>7

(* For every stream of NAL units and every way to cut it into bodies: as   *)
(* long as no allocation failed and the first body held the parameter      *)
(* sets, between two bodies h264_stream_proc has queued exactly the units  *)
(* whose end is known, in order and with their own bytes.                  *)
THEOREM UnitsCorrect == Spec => []UnitsExact
<1>1. Init => HInv /\ UInv
  BY InitHInv, InitUInv
<1>2. HInv /\ UInv /\ [Next]_vars => HInv' /\ UInv'
  BY NextHInv, NextUInv
<1>3. HInv /\ UInv => UnitsExact
  BY UInvUnits
<1> QED
  BY <1>1, <1>2, <1>3, PTL DEF Spec

=============================================================================
