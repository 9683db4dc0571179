----------------------------- MODULE MCLocTimer -----------------------------
(* Two LocTimers, which one client thread each starts and stops, and three    *)
(* starts between them, so that a timer is started again while a message      *)
(* about its last start is under way.                                         *)
EXTENDS LocTimer

MCDelays == {1, 2}
=============================================================================
