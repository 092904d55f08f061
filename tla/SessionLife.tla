---------------------------- MODULE SessionLife ----------------------------
(***************************************************************************)
(* What a streaming session promises to the server and to its RTMP server: *)
(* packages are sent in the order queued, each at most once and none left  *)
(* out; the session is closed, then counted out once, then released; and   *)
(* behind its release nothing is queued or sent.  A race may break the     *)
(* session's life, and then only the order of what is sent is promised.    *)
(***************************************************************************)
EXTENDS Integers

VARIABLES
  queued,        (* packages queued so far                                   *)
  sent,          (* packages sent so far                                     *)
  counted,       (* times the session was counted out                        *)
  life           (* "open", "closing", "released" or "broken"                *)

vars == <<queued, sent, counted, life>>

Init == queued = 0 /\ sent = 0 /\ counted = 0 /\ life = "open"

Queue ==
  /\ life # "released"
  /\ queued' = queued + 1
  /\ UNCHANGED <<sent, counted, life>>

Send ==
  /\ life # "released" /\ sent < queued
  /\ sent' = sent + 1
  /\ UNCHANGED <<queued, counted, life>>

Close ==
  /\ life = "open"
  /\ life' = "closing"
  /\ UNCHANGED <<queued, sent, counted>>

CountOut ==
  /\ (life = "closing" /\ counted = 0) \/ life = "broken"
  /\ counted' = counted + 1
  /\ UNCHANGED <<queued, sent, life>>

Release ==
  /\ life = "closing" /\ counted = 1
  /\ life' = "released"
  /\ UNCHANGED <<queued, sent, counted>>

Break ==
  /\ life' = "broken"
  /\ UNCHANGED <<queued, sent, counted>>

Next == Queue \/ Send \/ Close \/ CountOut \/ Release \/ Break

Spec == Init /\ [][Next]_vars
=============================================================================
