-------------------------- MODULE MCDSStateMachine --------------------------
(* Two handles of emergency SUPL: one that is alone, and one that joins.   *)
EXTENDS DSStateMachine
=============================================================================
