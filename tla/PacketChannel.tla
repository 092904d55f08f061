--------------------------- MODULE PacketChannel ---------------------------
(***************************************************************************)
(* What the framing of a media connection promises to the code behind it:  *)
(* packets of the peer's stream are handed on one at a time, in the order  *)
(* sent, none twice and none once it is closed; and until one of them      *)
(* carries a wrong length, none is left out.                               *)
(***************************************************************************)
EXTENDS Integers, Sequences

VARIABLES
  stream,        (* the packets the peer sends                               *)
  got,           (* numbers of the packets handed on                         *)
  open           (* whether more may be handed on                            *)

vars == <<stream, got, open>>

Last == IF got = <<>> THEN 0 ELSE got[Len(got)]

Init == got = <<>> /\ open = TRUE

(* Packet i is next: it follows the last one, or lies beyond a wrong one.  *)
(* It may be the last.                                                     *)
Deliver(i) ==
  /\ open
  /\ i > Last
  /\ i # Last + 1 => \E j \in 1..Last : stream[j].claims # stream[j].size
  /\ got' = Append(got, i)
  /\ open' \in BOOLEAN
  /\ UNCHANGED stream

Stop == open' = FALSE /\ UNCHANGED <<stream, got>>

Next == Stop \/ \E i \in 1..Len(stream) : Deliver(i)

Spec == Init /\ [][Next]_vars
=============================================================================
