---------------------------- MODULE MCRilWakeLock ----------------------------
(* Two threads of the vendor library, five messages and three timers: enough *)
(* for a timer that expires while the next message cancels it, for a third    *)
(* message that meets what the two have left behind, and for one that finds   *)
(* no memory for its timer.                                                   *)
EXTENDS RilWakeLock
=============================================================================
