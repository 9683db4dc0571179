------------------------------ MODULE MCGpsUtils ------------------------------
(* The two parts of gps/utils that LocTimer takes for granted, one after the  *)
(* other: a heap until it is empty again, and then a task.  They do not share *)
(* anything, so that nothing is lost by not mixing their steps.               *)
(* The task has a few messages, sent from anywhere and by each other.  The    *)
(* heap has seven objects, some of which rank the same, in any order of       *)
(* pushes, pops and removes: trees of up to five levels, full ones and        *)
(* lopsided ones.                                                             *)
EXTENDS MsgTask, LocHeap

MCData == 1..7
MCRank == <<1, 2, 2, 3, 3, 3, 4>>

HeapSteps == owner = "new" /\ HeapNext /\ UNCHANGED taskVars
TaskSteps == tree = <<>> /\ answer = NoData /\ TaskNext /\ UNCHANGED heapVars

MCInit == TaskInit /\ HeapInit
MCNext == HeapSteps \/ TaskSteps
MCSpec == MCInit /\ [][MCNext]_<<taskVars, heapVars>> /\ TaskFairness
=============================================================================
