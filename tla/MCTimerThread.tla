--------------------------- MODULE MCTimerThread ---------------------------
(* Three events, one caller, and two threads of the pool beside the        *)
(* timer's own.  A caller schedules short jobs that use the timer and      *)
(* persistent jobs; the events such a short job schedules are short jobs   *)
(* that do not.                                                            *)
EXTENDS TimerThread

MCJobKinds == {[persistent |-> FALSE, calls |-> TRUE],
               [persistent |-> TRUE, calls |-> FALSE]}
=============================================================================
