-------------------------- MODULE MCJt1078Framing --------------------------
(* Streams of up to three packets: whole, oversized, with a bad magic code *)
(* or, as voice without its own header, with a wrong length.               *)
EXTENDS Jt1078Framing, SequencesExt

P(kind, size, claims) == [kind |-> kind, size |-> size, claims |-> claims]

MCShapes == {P("video", 3, 3), P("video", 5, 5),
             P("other", 3, 4), P("video", 7, 7), P("bad", 4, 4)}

Place(shapes) ==
  [i \in 1..Len(shapes) |->
     [kind |-> shapes[i].kind, size |-> shapes[i].size, claims |-> shapes[i].claims,
      at |-> FoldSeq(LAMBDA p, sum : p.size + sum, 0, SubSeq(shapes, 1, i - 1))]]

MCStreams == {Place(s) : s \in UNION {[1..n -> MCShapes] : n \in 1..3}}
=============================================================================
