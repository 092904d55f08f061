------------------------ MODULE Jt1078FramingProofs ------------------------
(* The framing of a media connection implements PacketChannel, for every   *)
(* stream, every packet size and every choice of the watermarks.           *)
EXTENDS Jt1078Framing, SequenceTheorems, TLAPS

LastOut == IF out = <<>> THEN 0 ELSE out[Len(out)]

(* Where the buffer's front is: behind the bytes the last packet claimed.  *)
Front == IF LastOut = 0 THEN 0 ELSE stream[LastOut].at + stream[LastOut].claims

IInv ==
  /\ TypeOK
  /\ pc = "proc" => len = Buffered
  /\ drained = Front
  /\ CompleteWaits

(* The fields of a packet and the order of the packets of a stream.        *)
LEMMA StreamFacts ==
  ASSUME NEW s \in Streams
  PROVE  /\ s \in Seq(Packets) /\ Len(s) \in Nat
         /\ \A i \in 1..Len(s) :
              /\ s[i] \in Packets /\ s[i].at \in Nat /\ s[i].size \in Nat
              /\ s[i].claims \in Nat /\ s[i].claims >= HdrLen /\ s[i].size > 0
              /\ i < Len(s) => s[i + 1].at = s[i].at + s[i].size
         /\ \A i, j \in 1..Len(s) : i < j => s[i].at < s[j].at
         /\ Len(s) > 0 => s[1].at = 0
<1>1. s \in Seq(Packets) BY StreamAssumption
<1>2. \A i \in 1..Len(s) : s[i] \in Packets BY <1>1
<1> QED BY <1>1, <1>2, StreamAssumption DEF Packets

(* At most one packet begins at the front.                                 *)
LEMMA HeadUnique ==
  ASSUME TypeOK, NEW i \in Heads, NEW j \in Heads
  PROVE  i = j
BY StreamFacts DEF TypeOK, Heads

(* What a positive result of packet_jt1078_parse says.                     *)
LEMMA ParsePositive ==
  ASSUME TypeOK, Parse > 0
  PROVE  \E i \in Heads : /\ Heads = {i} /\ Parse = stream[i].claims
                          /\ stream[i].claims <= Buffered
                          /\ stream[i].claims <= PackSize
<1> DEFINE h == CHOOSE i \in Heads : TRUE
<1>1. Heads # {} BY DEF Parse
<1>2. h \in Heads BY <1>1
<1>3. Heads = {h} BY <1>2, HeadUnique
<1>4. h \in 1..Len(stream) /\ stream[h].claims \in Nat
  BY <1>2, StreamFacts DEF Heads, TypeOK
<1>5. Buffered \in Nat BY DEF Buffered, TypeOK
<1>6. /\ Parse = stream[h].claims
      /\ stream[h].claims <= Lesser(Buffered, PackSize)
  BY <1>1, <1>4, <1>5, FramingAssumption DEF Parse, Lesser
<1>7. stream[h].claims <= Buffered /\ stream[h].claims <= PackSize
  BY <1>4, <1>5, <1>6, FramingAssumption DEF Lesser
<1> HIDE DEF h
<1> QED BY <1>2, <1>3, <1>6, <1>7

(* A buffer that holds more than the copy buffer and still yields nothing  *)
(* has a front that never will.                                            *)
LEMMA FullUnparsed ==
  ASSUME TypeOK, Parse <= 0, Buffered >= PackSize, NEW i \in Heads
  PROVE  stream[i].claims > PackSize
<1> DEFINE h == CHOOSE k \in Heads : TRUE
<1>1. h = i BY HeadUnique
<1>2. /\ i \in 1..Len(stream) /\ stream[i].claims \in Nat
      /\ stream[i].claims >= HdrLen
  BY StreamFacts DEF Heads, TypeOK
<1>3. Buffered \in Nat BY DEF Buffered, TypeOK
<1>4. Lesser(Buffered, PackSize) = PackSize
  BY <1>3, FramingAssumption DEF Lesser
<1>5. Parse = IF stream[h].claims - HdrLen > PackSize - HdrLen
                THEN 0 ELSE stream[h].claims
  BY <1>4, FramingAssumption DEF Parse
<1> HIDE DEF h
<1> QED BY <1>1, <1>2, <1>5, FramingAssumption

(* The packet at the front comes after the last one handed on, and is the  *)
(* next one unless that one's length was wrong.                            *)
LEMMA HeadFollows ==
  ASSUME TypeOK, drained = Front, NEW i \in Heads
  PROVE  /\ i > LastOut
         /\ i # LastOut + 1 =>
              \E j \in 1..LastOut : stream[j].claims # stream[j].size
<1>1. i \in 1..Len(stream) /\ stream[i].at = drained /\ Len(stream) \in Nat
  BY StreamFacts DEF Heads, TypeOK
<1>2. LastOut \in 0..Len(stream) BY <1>1 DEF LastOut, TypeOK
<1>3. CASE LastOut = 0
  <2>1. stream[i].at = 0 BY <1>1, <1>3 DEF Front
  <2>2. i = 1
    <3>1. 1 \in 1..Len(stream) /\ stream[1].at = 0
      BY <1>1, StreamFacts DEF TypeOK
    <3> QED BY <1>1, <2>1, <3>1, StreamFacts DEF TypeOK
  <2> QED BY <2>2, <1>3
<1>4. CASE LastOut # 0
  <2>1. LastOut \in 1..Len(stream) BY <1>2, <1>4
  <2>2. stream[i].at = stream[LastOut].at + stream[LastOut].claims
    BY <1>1, <1>4 DEF Front
  <2>3. /\ stream[LastOut].claims > 0 /\ stream[LastOut].at \in Nat
        /\ stream[LastOut].claims \in Nat
    BY <2>1, StreamFacts, FramingAssumption DEF TypeOK
  <2>4. i > LastOut
    <3>1. ~(i < LastOut) BY <1>1, <2>1, <2>2, <2>3, StreamFacts DEF TypeOK
    <3>2. i # LastOut BY <2>2, <2>3
    <3> QED BY <1>1, <1>2, <3>1, <3>2
  <2>5. ASSUME stream[LastOut].claims = stream[LastOut].size
        PROVE  i = LastOut + 1
    <3>1. LastOut < Len(stream) /\ LastOut + 1 \in 1..Len(stream)
      BY <1>1, <2>1, <2>4
    <3>2. stream[LastOut + 1].at = stream[i].at
      BY <2>1, <2>2, <2>5, <3>1, StreamFacts DEF TypeOK
    <3> QED BY <1>1, <3>1, <3>2, StreamFacts DEF TypeOK
  <2> QED BY <2>1, <2>4, <2>5
<1> QED BY <1>3, <1>4

-----------------------------------------------------------------------------
(* A connection without a byte received satisfies the invariant.           *)
LEMMA InitInv == Init => IInv
<1> SUFFICES ASSUME Init PROVE IInv OBVIOUS
<1>1. TypeOK BY DEF Init, TypeOK
<1>2. drained = Front BY DEF Init, Front, LastOut
<1>3. Parse = -1 /\ ~(Parse > 0)
  BY FramingAssumption DEF Init, Parse, Lesser, Buffered
<1> QED BY <1>1, <1>2, <1>3 DEF Init, IInv, CompleteWaits

(* What Take does to the invariant.                                        *)
LEMMA TakeInv ==
  ASSUME IInv, Take
  PROVE  IInv'
<1>1. TypeOK /\ pc = "proc" /\ len = Buffered BY DEF IInv, Take
<1>2. PICK i \in Heads : /\ Heads = {i} /\ Parse = stream[i].claims
                         /\ stream[i].claims <= Buffered
  BY <1>1, ParsePositive DEF Take
<1>3. /\ i \in 1..Len(stream) /\ stream[i].claims \in Nat /\ Len(stream) \in Nat
      /\ stream[i].at = drained
  BY <1>1, StreamFacts DEF Heads, TypeOK
<1>4. out' = Append(out, i) /\ wmark' \in WmarkAfter(i)
  BY <1>2 DEF Take
<1>5. /\ out' \in Seq(1..Len(stream)) /\ out' # <<>>
      /\ out'[Len(out')] = i
  BY <1>1, <1>3, <1>4 DEF TypeOK
<1>6. /\ drained' = drained + stream[i].claims /\ received' = received
      /\ len' = len - stream[i].claims /\ stream' = stream
      /\ pc' = (IF len' > HdrLen /\ cond = 1 THEN "proc" ELSE "idle")
      /\ cond' = cond
  BY <1>2 DEF Take, bevVars
<1>7. Buffered \in Nat /\ drained \in Nat /\ received \in Nat
  BY <1>1 DEF TypeOK, Buffered
<1>8. len' = Buffered' /\ len' \in Nat /\ drained' \in Nat
      /\ drained' <= received'
  BY <1>1, <1>2, <1>3, <1>6, <1>7 DEF Buffered
<1>9. TypeOK'
  <2>1. wmark' \in {-1, 0, 1, 2} BY <1>1, <1>4 DEF WmarkAfter, TypeOK
  <2> QED BY <1>1, <1>5, <1>6, <1>8, <2>1
        DEF TypeOK, Take, bevVars, pendVars
<1>10. drained' = Front'
  BY <1>3, <1>5, <1>6 DEF Front, LastOut
<1>11. CompleteWaits'
  BY <1>6, <1>8, <1>9, FramingAssumption DEF CompleteWaits, TypeOK
<1> QED BY <1>8, <1>9, <1>10, <1>11 DEF IInv

(* Every other step leaves the front where it is.                          *)
LEMMA FrontKept ==
  ASSUME UNCHANGED <<stream, drained, out>>
  PROVE  Front' = Front /\ Heads' = Heads
BY DEF Front, LastOut, Heads

(* What the parser sees depends on the input buffer only.                  *)
LEMMA ParseKept ==
  ASSUME UNCHANGED <<stream, drained, received>>
  PROVE  Parse' = Parse /\ Buffered' = Buffered
BY DEF Parse, Heads, Buffered, Lesser

(* Every step of the bufferevent and the read handler keeps it.            *)
LEMMA StepInv == IInv /\ [Next]_vars => IInv'
<1> SUFFICES ASSUME IInv, [Next]_vars PROVE IInv' OBVIOUS
<1>t. TypeOK /\ drained = Front /\ CompleteWaits
      /\ (pc = "proc" => len = Buffered)
  BY DEF IInv
<1>1. ASSUME NEW n \in 1..High, Arrive(n) PROVE IInv'
  <2>1. n \in Nat /\ n > 0 BY <1>1, FramingAssumption
  <2>2. TypeOK' BY <1>t, <1>1, <2>1 DEF TypeOK, Arrive, cbVars
  <2>3. drained' = Front' BY <1>t, <1>1, FrontKept DEF Arrive
  <2>4. Buffered' = Buffered + n /\ Buffered \in Nat
    BY <1>t, <1>1, <2>1 DEF Arrive, Buffered, TypeOK
  <2>5. CompleteWaits'
    BY <1>t, <1>1, <2>1, <2>4 DEF CompleteWaits, Arrive, TypeOK
  <2> QED BY <1>1, <2>2, <2>3, <2>5 DEF IInv, Arrive, cbVars
<1>2. CASE ReadEnds
  <2>1. TypeOK' BY <1>t, <1>2 DEF TypeOK, ReadEnds, cbVars
  <2>2. drained' = Front' BY <1>t, <1>2, FrontKept DEF ReadEnds
  <2>3. Parse' = Parse /\ Buffered' = Buffered BY <1>2, ParseKept DEF ReadEnds
  <2> QED BY <1>t, <1>2, <2>1, <2>2, <2>3 DEF IInv, CompleteWaits, ReadEnds, cbVars
<1>3. CASE ReadCallback
  <2>1. TypeOK'
    <3>1. Buffered \in Nat BY <1>t DEF TypeOK, Buffered
    <3> QED BY <1>t, <1>3, <3>1 DEF TypeOK, ReadCallback
  <2>2. drained' = Front' BY <1>t, <1>3, FrontKept DEF ReadCallback
  <2>3. Parse' = Parse /\ Buffered' = Buffered
    BY <1>3, ParseKept DEF ReadCallback
  <2>4. pc' = "proc" => len' = Buffered'
    BY <1>3, <2>3 DEF ReadCallback
  <2>5. CompleteWaits'
    BY <1>t, <1>3, <2>3 DEF CompleteWaits, ReadCallback, TypeOK
  <2> QED BY <2>1, <2>2, <2>4, <2>5 DEF IInv
<1>4. CASE EventCallback
  <2>1. TypeOK' BY <1>t, <1>4 DEF TypeOK, EventCallback, cbVars
  <2>2. drained' = Front' BY <1>t, <1>4, FrontKept DEF EventCallback
  <2> QED BY <1>4, <2>1, <2>2 DEF IInv, CompleteWaits, EventCallback, cbVars
<1>5. CASE Take BY <1>5, TakeInv
<1>6. CASE Leave
  <2>1. TypeOK' BY <1>t, <1>6 DEF TypeOK, Leave, bevVars, pendVars
  <2>2. drained' = Front' BY <1>t, <1>6, FrontKept DEF Leave
  <2>3. Parse' = Parse BY <1>6, ParseKept DEF Leave, bevVars
  <2>4. Parse <= 0 /\ ~(Parse > 0)
    <3>1. Buffered \in Nat BY <1>t DEF TypeOK, Buffered
    <3>2. Parse \in Int
      BY <1>t, StreamFacts DEF Parse, Heads, TypeOK
    <3> QED BY <1>6, <3>2 DEF Leave
  <2> QED BY <1>6, <2>1, <2>2, <2>3, <2>4 DEF IInv, CompleteWaits, Leave
<1>7. CASE CloseDisable
  <2>1. TypeOK' BY <1>t, <1>7 DEF TypeOK, CloseDisable, cbVars, pendVars
  <2>2. drained' = Front' BY <1>t, <1>7, FrontKept DEF CloseDisable
  <2>3. Parse' = Parse /\ Buffered' = Buffered
    BY <1>7, ParseKept DEF CloseDisable
  <2> QED BY <1>t, <1>7, <2>1, <2>2, <2>3
        DEF IInv, CompleteWaits, CloseDisable, cbVars, pendVars
<1>8. CASE CloseCond
  <2>1. TypeOK' BY <1>t, <1>8 DEF TypeOK, CloseCond, bevVars, cbVars, pendVars
  <2>2. drained' = Front' BY <1>t, <1>8, FrontKept DEF CloseCond
  <2>3. Parse' = Parse /\ Buffered' = Buffered
    BY <1>8, ParseKept DEF CloseCond, bevVars
  <2> QED BY <1>t, <1>8, <2>1, <2>2, <2>3
        DEF IInv, CompleteWaits, CloseCond, cbVars
<1>9. CASE UNCHANGED vars
  <2>1. /\ UNCHANGED <<stream, received, reading, low, drained, readPending>>
        /\ UNCHANGED <<eventPending, wmark, cond, closer, pc, len, out>>
    BY <1>9 DEF vars, bevVars, pendVars, cbVars
  <2>2. TypeOK' BY <1>t, <2>1 DEF TypeOK
  <2>3. drained' = Front' BY <1>t, <2>1, FrontKept
  <2>4. Parse' = Parse /\ Buffered' = Buffered BY <2>1, ParseKept
  <2> QED BY <1>t, <2>1, <2>2, <2>3, <2>4 DEF IInv, CompleteWaits
<1> QED
  BY <1>1, <1>2, <1>3, <1>4, <1>5, <1>6, <1>7, <1>8, <1>9 DEF Next, Callback

(* The invariant holds of every behaviour.                                 *)
LEMMA Invariant == Spec => []IInv
BY InitInv, StepInv, PTL DEF Spec

-----------------------------------------------------------------------------
(* Type correctness of the framing: in particular stream_input_handler     *)
(* never removes more than the buffer holds.                               *)
THEOREM TypeCorrect == Spec => []TypeOK
<1>1. IInv => TypeOK BY DEF IInv
<1> QED BY Invariant, <1>1, PTL

(* stream_input_handler leaves a complete packet only for the reasons      *)
(* CompleteWaits names.                                                    *)
THEOREM WaitsCorrect == Spec => []CompleteWaits
<1>1. IInv => CompleteWaits BY DEF IInv
<1> QED BY Invariant, <1>1, PTL

(* Reading is suspended for good only behind a packet that the parser can  *)
(* never return.                                                           *)
THEOREM SuspendedCorrect == Spec => []SuspendedOnlyStalled
<1>1. IInv => SuspendedOnlyStalled
  <2> SUFFICES ASSUME IInv, pc = "idle", readPending = 0, cond = 1, Suspended,
                      NEW i \in Heads
               PROVE  stream[i].claims > PackSize
    BY DEF SuspendedOnlyStalled
  <2>1. TypeOK /\ CompleteWaits BY DEF IInv
  <2>2. Buffered \in Nat /\ Buffered >= High
    BY <2>1 DEF TypeOK, Buffered, Suspended
  <2>3. ~(Buffered < low) /\ ~(Buffered <= HdrLen) /\ Buffered >= PackSize
    BY <2>1, <2>2, FramingAssumption DEF TypeOK
  <2>4. ~(Parse > 0) BY <2>1, <2>3 DEF CompleteWaits
  <2>5. Parse \in Int BY <2>1, StreamFacts DEF Parse, Heads, TypeOK
  <2> QED BY <2>1, <2>3, <2>4, <2>5, FullUnparsed
<1> QED BY Invariant, <1>1, PTL

(* A front the parser refuses for its magic code or its length is never    *)
(* drained.                                                                *)
THEOREM StalledCorrect == Spec => StalledStays
<1>1. ASSUME IInv, [Next]_vars,
             Heads = {} \/ \A i \in Heads : stream[i].claims > PackSize
      PROVE  drained' = drained /\ out' = out
  <2>1. ~Take
    <3> SUFFICES ASSUME Take PROVE FALSE OBVIOUS
    <3>1. PICK i \in Heads : stream[i].claims <= PackSize
      BY <1>1, ParsePositive DEF Take, IInv
    <3>2. stream[i].claims \in Nat BY <1>1, StreamFacts DEF Heads, IInv, TypeOK
    <3> QED BY <1>1, <3>1, <3>2, FramingAssumption
  <2> QED BY <1>1, <2>1
        DEF Next, Callback, vars, Arrive, ReadEnds, ReadCallback,
            EventCallback, Leave, CloseDisable, CloseCond
<1>2. IInv /\ [Next]_vars =>
        [Heads = {} \/ (\A i \in Heads : stream[i].claims > PackSize)
           => drained' = drained /\ out' = out]_vars
  BY <1>1
<1> QED BY Invariant, <1>2, PTL DEF Spec, StalledStays

-----------------------------------------------------------------------------
(* The detailed framing implements PacketChannel: the first state maps to  *)
(* a first state, and Take is a Deliver, everything else a Stop or a       *)
(* stutter.                                                                *)
THEOREM ChannelCorrect == Spec => ChannelSpec
<1>1. Init => Channel!Init BY DEF Init, Channel!Init
<1>2. ASSUME IInv, [Next]_vars PROVE [Channel!Next]_(Channel!vars)
  <2>t. TypeOK /\ drained = Front BY <1>2 DEF IInv
  <2>1. CASE Take
    <3>1. PICK i \in Heads : Heads = {i} /\ Parse = stream[i].claims
      BY <2>t, <2>1, ParsePositive DEF Take
    <3>2. out' = Append(out, i) /\ stream' = stream /\ pc = "proc"
      BY <2>1, <3>1 DEF Take
    <3>3. i \in 1..Len(stream) BY DEF Heads
    <3>4. LastOut = Channel!Last BY DEF LastOut, Channel!Last
    <3>5. Channel!Deliver(i)
      BY <2>t, <3>2, <3>3, <3>4, HeadFollows DEF Channel!Deliver
    <3> QED BY <3>3, <3>5 DEF Channel!Next
  <2>2. CASE UNCHANGED <<stream, out, cond, pc>>
    BY <2>2 DEF Channel!vars
  <2>3. ASSUME UNCHANGED <<stream, out>>, ~(cond' = 1 \/ pc' = "proc")
        PROVE  Channel!Next
    BY <2>3 DEF Channel!Next, Channel!Stop
  <2>4. ASSUME ReadCallback PROVE [Channel!Next]_(Channel!vars)
    <3>1. CASE cond = 0 BY <2>2, <2>4, <3>1 DEF ReadCallback
    <3>2. CASE cond # 0
      <4>1. cond = 1 /\ UNCHANGED <<stream, out, cond>>
        BY <2>t, <2>4, <3>2 DEF ReadCallback, TypeOK
      <4> QED BY <4>1 DEF Channel!vars
    <3> QED BY <3>1, <3>2
  <2>5. ASSUME EventCallback PROVE [Channel!Next]_(Channel!vars)
    BY <2>3, <2>5 DEF EventCallback, cbVars
  <2>6. ASSUME Leave PROVE [Channel!Next]_(Channel!vars)
    <3>1. CASE cond = 1
      BY <2>6, <3>1 DEF Leave, Channel!vars
    <3>2. CASE cond # 1
      BY <2>3, <2>6, <3>2 DEF Leave
    <3> QED BY <3>1, <3>2
  <2>7. ASSUME CloseCond PROVE [Channel!Next]_(Channel!vars)
    <3>1. CASE pc = "proc"
      BY <2>7, <3>1 DEF CloseCond, cbVars, Channel!vars
    <3>2. CASE pc # "proc"
      BY <2>3, <2>7, <3>2 DEF CloseCond, cbVars
    <3> QED BY <3>1, <3>2
  <2>8. ASSUME NEW n \in 1..High, Arrive(n) PROVE [Channel!Next]_(Channel!vars)
    BY <2>2, <2>8 DEF Arrive, cbVars
  <2>9. CASE ReadEnds BY <2>2, <2>9 DEF ReadEnds, cbVars
  <2>10. CASE CloseDisable BY <2>2, <2>10 DEF CloseDisable, cbVars
  <2>11. CASE UNCHANGED vars BY <2>2, <2>11 DEF vars, cbVars
  <2> QED
    BY <1>2, <2>1, <2>4, <2>5, <2>6, <2>7, <2>8, <2>9, <2>10, <2>11
    DEF Next, Callback
<1> QED BY Invariant, <1>1, <1>2, PTL DEF Spec, ChannelSpec, Channel!Spec

=============================================================================
