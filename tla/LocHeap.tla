------------------------------ MODULE LocHeap ------------------------------
(***************************************************************************)
(* The tree of gps/utils/LocHeap.cpp, on which a LocTimerContainer keeps   *)
(* its timers.                                                             *)
(*                                                                         *)
(* A node is the way to it from the top: a sequence of sides.  The code's  *)
(* recursions follow one way down from the top, push to a new leaf, pop    *)
(* and remove to an old one; they swap the nodes' data on it and leave the *)
(* nodes where they are.  An operation is a step, for the heap belongs to  *)
(* one thread (LocTimer.cpp:307).                                          *)
(***************************************************************************)
EXTENDS Integers, Sequences

CONSTANTS
  Data,    \* LocRankable objects
  Rank,    \* how they rank, which does not change while they are in the heap
  NoData   \* NULL

ASSUME RankAssumption ==
  /\ NoData \notin Data
  /\ Rank \in [Data -> Int]

VARIABLES
  tree,    \* per node: mData
  mSize,   \* per node: mSize
  answer   \* what the last operation returned

heapVars == <<tree, mSize, answer>>

Nodes == DOMAIN tree
Held  == {tree[p] : p \in Nodes}

outRanks(d, e) == Rank[d] > Rank[e]

Top == <<>>
Left(p)  == Append(p, "left")
Right(p) == Append(p, "right")
IsLeaf(p) == Left(p) \notin Nodes /\ Right(p) \notin Nodes

\* The nodes from the top down to p.
WayTo(p) == {SubSeq(p, 1, k) : k \in 0..Len(p)}

\* The way to p leaves x, which is on it, by this side.
SideAt(p, x) == p[Len(x) + 1]

HeapInit ==
  /\ tree = <<>>
  /\ mSize = <<>>
  /\ answer = NoData

-----------------------------------------------------------------------------
\* The side a new node goes to: one that is free, or the smaller one.
SmallerSide(x) ==
  IF Left(x) \notin Nodes THEN "left"
  ELSE IF Right(x) \notin Nodes THEN "right"
  ELSE IF mSize[Left(x)] <= mSize[Right(x)] THEN "left" ELSE "right"

\* Where the way of smaller sides leaves the tree.
FreeLeaves ==
  {p \in {Top} \cup {Left(x) : x \in Nodes} \cup {Right(x) : x \in Nodes} :
     /\ p \notin Nodes
     /\ \A x \in WayTo(p) \ {p} : x \in Nodes /\ SideAt(p, x) = SmallerSide(x)}

\* What a node keeps of its data and of the data that comes down to it, and what goes on.
Kept(new, old)    == IF outRanks(new, old) THEN new ELSE old
Dropped(new, old) == IF outRanks(new, old) THEN old ELSE new

\* coming[k] is what comes down to the node at depth k: first d itself.
ComesDown(coming, d, p) ==
  /\ coming[0] = d
  /\ \A k \in 0 .. Len(p) - 1 : coming[k + 1] = Dropped(coming[k], tree[SubSeq(p, 1, k)])

\* A mutant of Grown: a node that gets a new one below it does not count it.
GrownAtLeaf(p) == [x \in Nodes \cup {p} |-> IF x = p THEN 1 ELSE mSize[x]]

Grown(p) ==
  [x \in Nodes \cup {p} |-> IF x = p THEN 1 ELSE IF x \in WayTo(p) THEN mSize[x] + 1 ELSE mSize[x]]

\* LocHeap::push. An object is pushed when it is not in the heap.
push(d) ==
  /\ d \notin Held
  /\ \E p \in FreeLeaves : \E coming \in [0..Len(p) -> Data] :
       /\ ComesDown(coming, d, p)
       /\ tree' = [x \in Nodes \cup {p} |->
                     IF x = p THEN coming[Len(p)]
                     ELSE IF x \in WayTo(p) THEN Kept(coming[Len(x)], tree[x]) ELSE tree[x]]
       /\ mSize' = Grown(p)
  /\ UNCHANGED answer

-----------------------------------------------------------------------------
\* The child whose data comes up when a node loses its own.
HeirSide(x) ==
  IF Left(x) \notin Nodes THEN "right"
  ELSE IF Right(x) \notin Nodes THEN "left"
  ELSE IF outRanks(tree[Left(x)], tree[Right(x)]) THEN "left" ELSE "right"

\* The leaf that the way of heirs leads to from q.
LastHeirs(q) ==
  {r \in Nodes :
     /\ IsLeaf(r) /\ q \in WayTo(r)
     /\ \A x \in WayTo(r) \ {r} : Len(x) >= Len(q) => SideAt(r, x) = HeirSide(x)}

\* LocHeapNode::pop of the node q, with what its callers take off their sizes: the data
\* below it on the way of heirs come up by one node, and the last node goes.
TakeOut(q) ==
  \E r \in LastHeirs(q) :
    /\ tree' = [x \in Nodes \ {r} |->
                  IF x \in WayTo(r) /\ Len(x) >= Len(q) THEN tree[SubSeq(r, 1, Len(x) + 1)]
                  ELSE tree[x]]
    /\ mSize' = [x \in Nodes \ {r} |-> IF x \in WayTo(r) THEN mSize[x] - 1 ELSE mSize[x]]
    /\ answer' = tree[q]

Nothing == answer' = NoData /\ UNCHANGED <<tree, mSize>>

pop == IF Nodes = {} THEN Nothing ELSE TakeOut(Top)

\* A mutant of Found: the search does not look below a node that d ranks with either.
FoundBelowHigher(d) ==
  {q \in Nodes : tree[q] = d /\ \A x \in WayTo(q) \ {q} : outRanks(tree[x], d)}

\* The nodes with d in them that the search comes to: it does not look below a node that
\* d outranks.
Found(d) ==
  {q \in Nodes : tree[q] = d /\ \A x \in WayTo(q) \ {q} : ~outRanks(d, tree[x])}

remove(d) == IF Found(d) = {} THEN Nothing ELSE \E q \in Found(d) : TakeOut(q)

peek ==
  /\ answer' = IF Nodes = {} THEN NoData ELSE tree[Top]
  /\ UNCHANGED <<tree, mSize>>

HeapNext ==
  \/ \E d \in Data : push(d) \/ remove(d)
  \/ pop
  \/ peek

HeapSpec == HeapInit /\ [][HeapNext]_heapVars

-----------------------------------------------------------------------------
SizeAt(p) == IF p \in Nodes THEN mSize[p] ELSE 0

\* What checkTree asks of every node (LocHeap.cpp:199), after any pushes, pops and removes:
\* no child outranks it, and its size is its own and its children's.  And every node hangs
\* from another, so that ~LocHeapNode of a node that is taken out deletes no other.
CheckTree ==
  \A p \in Nodes :
    /\ \A c \in {Left(p), Right(p)} \cap Nodes : ~outRanks(tree[c], tree[p])
    /\ mSize[p] = 1 + SizeAt(Left(p)) + SizeAt(Right(p))
    /\ WayTo(p) \subseteq Nodes

\* The heap is the set it is used as: a push adds one object, a pop takes out one that
\* nothing outranks, a remove finds its object wherever it is and takes out no other.
AsSet == INSTANCE RankedSet WITH members <- Held
ImplementsSet == AsSet!Spec
=============================================================================
