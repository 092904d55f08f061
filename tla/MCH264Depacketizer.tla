------------------------- MODULE MCH264Depacketizer -------------------------
(* Parameter sets first, then every choice of three units; both lengths of *)
(* start codes.                                                            *)
EXTENDS H264Depacketizer, SequencesExt

(* The stream of a list of units, each with the length of its start code   *)
(* and its payload.                                                        *)
StreamOf(list) ==
  LET bytes(n) == FlattenSeq([i \in 1..n |-> Code(list[i].code) \o list[i].data])
  IN [bytes |-> bytes(Len(list)),
      unit |-> [i \in 1..Len(list) |->
                  [begin |-> Len(bytes(i - 1)) + list[i].code,
                   end |-> Len(bytes(i))]]]

U(code, data) == [code |-> code, data |-> data]

(* First bytes as encoders write them: the type with the importance bits.  *)
SpsByte == 96 + Sps
PpsByte == 96 + Pps
IdrByte == 96 + Idr
Slice == 65

MCStreams ==
  {StreamOf(<<U(c, <<SpsByte, 9>>), U(4, <<PpsByte>>), U(d, <<t>>),
              U(c, <<u, 0, 9>>), U(4, <<Slice>>)>>) :
     c \in {3, 4}, d \in {3, 4}, t \in {IdrByte, Slice},
     u \in {IdrByte, Sei, SpsByte, Slice}}
=============================================================================
