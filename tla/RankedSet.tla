----------------------------- MODULE RankedSet -----------------------------
(***************************************************************************)
(* What LocHeap.cpp does, without the tree: a set of ranked objects, of    *)
(* which one that nothing outranks is at the top. An object is removed by  *)
(* its identity; LocHeap.h:84 documents remove as removing the node that   *)
(* ranks the same as the one given, which is another promise.              *)
(***************************************************************************)
EXTENDS Integers

CONSTANTS Data, Rank, NoData

VARIABLES members,  \* the objects in the set
          answer    \* what the last operation returned

vars == <<members, answer>>

Highest == {d \in members : \A e \in members : Rank[e] <= Rank[d]}

Init == members = {} /\ answer = NoData

push(d) ==
  /\ d \notin members
  /\ members' = members \cup {d}
  /\ UNCHANGED answer

peek ==
  /\ answer' \in IF members = {} THEN {NoData} ELSE Highest
  /\ UNCHANGED members

pop ==
  /\ answer' \in IF members = {} THEN {NoData} ELSE Highest
  /\ members' = members \ {answer'}

remove(d) ==
  /\ answer' = IF d \in members THEN d ELSE NoData
  /\ members' = members \ {d}

Next ==
  \/ \E d \in Data : push(d) \/ remove(d)
  \/ peek
  \/ pop

Spec == Init /\ [][Next]_vars
=============================================================================
