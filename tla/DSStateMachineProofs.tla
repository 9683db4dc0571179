------------------------ MODULE DSStateMachineProofs ------------------------
(***************************************************************************)
(* Theorems about DSStateMachine, for any finite set of handles, any       *)
(* number of retries, and any number of messages, timers and restarts.     *)
(***************************************************************************)
EXTENDS DSStateMachine, FiniteSetTheorems, TLAPS

Messages ==
  [kind : {"request", "release", "atl"}, handle : Handles]
    \cup [kind : {"opened", "closed", "up"}]

TypeInv ==
  /\ state \in {"Released", "Pending", "Acquired", "Releasing"}
  /\ active \in SUBSET Handles
  /\ inactive \in SUBSET Handles
  /\ queue \in Seq(Messages)
  /\ call \in {"down", "starting", "up"}

-----------------------------------------------------------------------------
(* Reports of a closed call on a queue.                                    *)

NoClosed(q) == \A i \in 1..Len(q) : q[i].kind # "closed"

OneClosed(q) ==
  \A i, j \in 1..Len(q) : q[i].kind = "closed" /\ q[j].kind = "closed" => i = j

LEMMA TailKeeps ==
  ASSUME NEW q \in Seq(Messages), q # <<>>
  PROVE  /\ Tail(q) \in Seq(Messages)
         /\ Head(q) \in Messages
         /\ NoClosed(q) => NoClosed(Tail(q))
         /\ OneClosed(q) => OneClosed(Tail(q))
         /\ OneClosed(q) /\ Head(q).kind = "closed" => NoClosed(Tail(q))
<1>1. /\ Tail(q) \in Seq(Messages)
      /\ Head(q) \in Messages
      /\ Len(q) \in Nat \ {0}
      /\ Len(Tail(q)) = Len(q) - 1
      /\ \A i \in 1..Len(Tail(q)) : Tail(q)[i] = q[i + 1] /\ i + 1 \in 1..Len(q)
      /\ Head(q) = q[1] /\ 1 \in 1..Len(q)
  OBVIOUS
<1>2. NoClosed(q) => NoClosed(Tail(q))
  BY <1>1 DEF NoClosed
<1>3. ASSUME OneClosed(q)
      PROVE  OneClosed(Tail(q))
  <2> SUFFICES ASSUME NEW i \in 1..Len(Tail(q)), NEW j \in 1..Len(Tail(q)),
                      Tail(q)[i].kind = "closed", Tail(q)[j].kind = "closed"
               PROVE  i = j
    BY DEF OneClosed
  <2>1. i + 1 = j + 1
    BY <1>1, <1>3 DEF OneClosed
  <2> QED
    BY <2>1
<1>4. ASSUME OneClosed(q), Head(q).kind = "closed"
      PROVE  NoClosed(Tail(q))
  <2> SUFFICES ASSUME NEW i \in 1..Len(Tail(q)), Tail(q)[i].kind = "closed"
               PROVE  FALSE
    BY DEF NoClosed
  <2>1. i + 1 = 1
    BY <1>1, <1>4 DEF OneClosed
  <2> QED
    BY <2>1
<1> QED
  BY <1>1, <1>2, <1>3, <1>4

LEMMA AppendKeeps ==
  ASSUME NEW q \in Seq(Messages), NEW m \in Messages
  PROVE  /\ Append(q, m) \in Seq(Messages)
         /\ m.kind # "closed" /\ NoClosed(q) => NoClosed(Append(q, m))
         /\ m.kind # "closed" /\ OneClosed(q) => OneClosed(Append(q, m))
         /\ NoClosed(q) => OneClosed(Append(q, m))
<1>1. /\ Append(q, m) \in Seq(Messages)
      /\ Len(q) \in Nat
      /\ Len(Append(q, m)) = Len(q) + 1
      /\ \A i \in 1..Len(q) : Append(q, m)[i] = q[i]
      /\ Append(q, m)[Len(q) + 1] = m
      /\ \A i \in 1..Len(Append(q, m)) : i \in 1..Len(q) \/ i = Len(q) + 1
  OBVIOUS
<1>2. m.kind # "closed" /\ NoClosed(q) => NoClosed(Append(q, m))
  BY <1>1 DEF NoClosed
<1>3. m.kind # "closed" /\ OneClosed(q) => OneClosed(Append(q, m))
  BY <1>1 DEF OneClosed
<1>4. NoClosed(q) => OneClosed(Append(q, m))
  BY <1>1 DEF NoClosed, OneClosed
<1> QED
  BY <1>1, <1>2, <1>3, <1>4

LEMMA ConcatKeeps ==
  ASSUME NEW q \in Seq(Messages), NEW r \in Seq(Messages), NoClosed(r)
  PROVE  /\ q \o r \in Seq(Messages)
         /\ NoClosed(q) => NoClosed(q \o r)
<1>1. /\ q \o r \in Seq(Messages)
      /\ Len(q) \in Nat /\ Len(r) \in Nat
      /\ Len(q \o r) = Len(q) + Len(r)
      /\ \A i \in 1..Len(q) : (q \o r)[i] = q[i]
      /\ \A i \in 1..Len(q \o r) :
           i \in 1..Len(q) \/ (i - Len(q) \in 1..Len(r) /\ (q \o r)[i] = r[i - Len(q)])
  OBVIOUS
<1> QED
  BY <1>1 DEF NoClosed

-----------------------------------------------------------------------------
(* Types.                                                                  *)

LEMMA InitType == Init => TypeInv
BY DEF Init, TypeInv

\* A message of a kind the handler names.
LEMMA HandleType ==
  ASSUME TypeInv, queue # <<>>, Head(queue).kind \in {"request", "release", "atl"}
  PROVE  Handle \in Handles
<1>1. Head(queue) \in Messages
  BY TailKeeps DEF TypeInv
<1> QED
  BY <1>1 DEF Messages, Handle

LEMMA MessageTypes ==
  /\ \A h \in Handles : \A k \in {"request", "release", "atl"} :
       Msg(k, h) \in Messages /\ Msg(k, h).kind = k
  /\ \A k \in {"opened", "closed", "up"} : Report(k) \in Messages /\ Report(k).kind = k
BY DEF Msg, Report, Messages

\* The messages that hand over every listed handle.
LEMMA OrderTypes ==
  ASSUME NEW S \in SUBSET Handles, NEW order \in Orders(S)
  PROVE  LET r == [i \in DOMAIN order |-> Msg("atl", order[i])]
         IN  r \in Seq(Messages) /\ NoClosed(r)
<1> DEFINE r == [i \in DOMAIN order |-> Msg("atl", order[i])]
<1>1. IsFiniteSet(S)
  BY HandlesAssumption, FS_Subset
<1>2. Cardinality(S) \in Nat
  BY <1>1, FS_CardinalityType
<1>3. order \in [1..Cardinality(S) -> S]
  BY DEF Orders
<1>4. r \in [1..Cardinality(S) -> Messages] /\ \A i \in DOMAIN r : r[i].kind = "atl"
  BY <1>3, MessageTypes
<1>5. r \in Seq(Messages) /\ Len(r) = Cardinality(S)
  BY <1>2, <1>4
<1> QED
  BY <1>4, <1>5 DEF NoClosed

-----------------------------------------------------------------------------
(* What a step may do to the queue without a new report of a closed call.  *)

QueueKept ==
  /\ queue' \in Seq(Messages)
  /\ NoClosed(queue) => NoClosed(queue')
  /\ OneClosed(queue) => OneClosed(queue')

\* The report that was taken was the only one.
ReportTaken == OneClosed(queue) /\ Head(queue).kind = "closed" => NoClosed(queue')

LEMMA GoesKeeps ==
  ASSUME TypeInv, queue # <<>>, Goes
  PROVE  QueueKept /\ ReportTaken
BY TailKeeps DEF TypeInv, Goes, QueueKept, ReportTaken

LEMMA GoesAndPostsKeeps ==
  ASSUME TypeInv, queue # <<>>, NEW m \in Messages, m.kind # "closed", GoesAndPosts(m)
  PROVE  QueueKept /\ ReportTaken
<1>1. /\ Tail(queue) \in Seq(Messages)
      /\ NoClosed(queue) => NoClosed(Tail(queue))
      /\ OneClosed(queue) => OneClosed(Tail(queue))
      /\ OneClosed(queue) /\ Head(queue).kind = "closed" => NoClosed(Tail(queue))
  BY TailKeeps DEF TypeInv
<1>2. queue' = Append(Tail(queue), m)
  BY DEF GoesAndPosts
<1> QED
  BY <1>1, <1>2, AppendKeeps DEF QueueKept, ReportTaken

LEMMA PostKeeps ==
  ASSUME TypeInv, NEW m \in Messages, m.kind # "closed", Post(m)
  PROVE  QueueKept
BY AppendKeeps DEF TypeInv, Post, QueueKept

LEMMA StartedKeeps ==
  ASSUME TypeInv, queue # <<>>, Started
  PROVE  /\ QueueKept /\ ReportTaken
         /\ call' \in {"starting", "up"}
<1>1. CASE call = "up"
  <2>1. GoesAndPosts(Report("opened"))
    BY <1>1 DEF Started
  <2>2. QueueKept /\ ReportTaken
    BY <2>1, GoesAndPostsKeeps, MessageTypes
  <2> QED
    BY <1>1, <2>2 DEF Started
<1>2. CASE call # "up"
  <2>1. Goes
    BY <1>2 DEF Started
  <2>2. QueueKept /\ ReportTaken
    BY <2>1, GoesKeeps
  <2> QED
    BY <1>2, <2>2 DEF Started, TypeInv
<1> QED
  BY <1>1, <1>2

LEMMA GivesUpKeeps ==
  ASSUME TypeInv, queue # <<>>, NEW left \in SUBSET Handles, GivesUp(left)
  PROVE  QueueKept /\ ReportTaken
<1>1. PICK h \in left : GoesAndPosts(Msg("atl", h))
  BY DEF GivesUp
<1> QED
  BY <1>1, GoesAndPostsKeeps, MessageTypes

LEMMA NotStartedKeeps ==
  ASSUME TypeInv, queue # <<>>, NEW left \in SUBSET Handles, NotStarted(left)
  PROVE  /\ QueueKept /\ ReportTaken
         /\ call' = call
<1>1. CASE GivesUp(left)
  BY <1>1, GivesUpKeeps DEF NotStarted
<1>2. CASE Busy(left)
  <2>1. GivesUp(left) \/ Goes
    BY <1>2 DEF Busy
  <2> QED
    BY <2>1, GivesUpKeeps, GoesKeeps DEF NotStarted
<1> QED
  BY <1>1, <1>2 DEF NotStarted

-----------------------------------------------------------------------------
(* The invariant: there is at most one report of a closed call under way,  *)
(* and then the call is down and the machine has not heard of it.          *)

TrackInv ==
  /\ OneClosed(queue)
  /\ NoClosed(queue) \/ (call = "down" /\ state # "Released")
  /\ CallIsTracked

IInv == TypeInv /\ TrackInv

LEMMA InitIInv == Init => IInv
<1> SUFFICES ASSUME Init
             PROVE  IInv
  OBVIOUS
<1>1. Len(queue) = 0
  BY DEF Init
<1>2. NoClosed(queue) /\ OneClosed(queue)
  BY <1>1 DEF NoClosed, OneClosed
<1>3. CallIsTracked
  BY DEF Init, CallIsTracked
<1> QED
  BY <1>2, <1>3, InitType DEF IInv, TrackInv

\* A step that leaves the call alone, and does not go to Released.
LEMMA QuietStep ==
  ASSUME IInv, QueueKept, call' = call,
         state' \in {"Released", "Pending", "Acquired", "Releasing"},
         state' = "Released" => state = "Released",
         active' \in SUBSET Handles, inactive' \in SUBSET Handles
  PROVE  IInv'
<1>1. TypeInv'
  BY DEF IInv, TypeInv, QueueKept
<1>2. TrackInv'
  BY DEF IInv, TrackInv, QueueKept, CallIsTracked
<1> QED
  BY <1>1, <1>2 DEF IInv

-----------------------------------------------------------------------------
(* Every step keeps it.                                                    *)

\* The handlers that leave the call alone.
LEMMA QuietHandlers ==
  ASSUME IInv,
         \/ SubscribeWaiting \/ SubscribeAcquired
         \/ ReleaseFallback \/ ReleaseUnlisted
         \/ RequestATL \/ LocEngUp \/ Opened
  PROVE  IInv'
<1> USE DEF Takes
<1>1. TypeInv
  BY DEF IInv
<1>2. queue # <<>> /\ Goes /\ call' = call
  BY DEF SubscribeWaiting, SubscribeAcquired, ReleaseFallback, ReleaseUnlisted, RequestATL,
     LocEngUp,
         Opened, Subscribes, Releases
<1>3. QueueKept
  BY <1>1, <1>2, GoesKeeps
<1>4. CASE SubscribeWaiting \/ SubscribeAcquired
  <2>1. Subscribes /\ state' = state
    BY <1>4 DEF SubscribeWaiting, SubscribeAcquired
  <2>2. Handle \in Handles
    BY <1>1, <2>1, HandleType DEF Subscribes
  <2>3. active' \in SUBSET Handles /\ inactive' = inactive
    BY <1>1, <2>1, <2>2 DEF Subscribes, addSubscriber, TypeInv
  <2> QED
    BY <1>1, <1>2, <1>3, <2>1, <2>3, QuietStep DEF TypeInv
<1>5. CASE \/ ReleaseFallback \/ ReleaseUnlisted
           \/ RequestATL \/ LocEngUp \/ Opened
  <2>1. active' = active /\ inactive' = inactive
    BY <1>5 DEF ReleaseFallback, ReleaseUnlisted, RequestATL,
     LocEngUp, Opened, list
  <2>2. state' = state \/ state' = "Acquired"
    BY <1>5 DEF ReleaseFallback, ReleaseUnlisted, RequestATL,
     LocEngUp, Opened
  <2> QED
    BY <1>1, <1>2, <1>3, <2>1, <2>2, QuietStep DEF TypeInv
<1> QED
  BY <1>4, <1>5

LEMMA SubscribeReleasedStep ==
  ASSUME IInv, SubscribeReleased
  PROVE  IInv'
<1>1. TypeInv /\ TrackInv /\ queue # <<>> /\ state = "Released"
  BY DEF IInv, SubscribeReleased, Subscribes, Takes
<1>2. Subscribes
  BY DEF SubscribeReleased
<1>3. Handle \in Handles
  BY <1>1, <1>2, HandleType DEF Subscribes, Takes
<1>4. active' \in SUBSET Handles /\ inactive' = inactive
  BY <1>1, <1>2, <1>3 DEF Subscribes, addSubscriber, TypeInv
<1>5. CASE Started /\ state' = "Pending"
  <2>1. NoClosed(queue)
    BY <1>1 DEF TrackInv
  <2>2. QueueKept /\ call' \in {"starting", "up"}
    BY <1>1, <1>5, StartedKeeps
  <2>3. TypeInv'
    BY <1>1, <1>4, <1>5, <2>2 DEF TypeInv, QueueKept
  <2>4. TrackInv'
    BY <1>1, <1>5, <2>1, <2>2 DEF TrackInv, QueueKept, CallIsTracked
  <2> QED
    BY <2>3, <2>4 DEF IInv
<1>6. CASE NotStarted(active') /\ UNCHANGED state
  <2>1. QueueKept /\ call' = call
    BY <1>1, <1>4, <1>6, NotStartedKeeps
  <2> QED
    BY <1>1, <1>4, <1>6, <2>1, QuietStep DEF TypeInv
<1> QED
  BY <1>5, <1>6 DEF SubscribeReleased

LEMMA ReleaseHeldStep ==
  ASSUME IInv, ReleaseHeld
  PROVE  IInv'
<1>1. TypeInv /\ TrackInv /\ queue # <<>>
  BY DEF IInv, ReleaseHeld, Releases, Takes
<1>2. active' \in SUBSET Handles /\ inactive' \in SUBSET Handles
  BY <1>1 DEF ReleaseHeld, TypeInv
<1>3. CASE state' = "Releasing" /\ Stopped
  <2>1. CASE call = "down"
    <3>1. QueueKept /\ call' = call
      BY <1>1, <1>3, <2>1, GoesKeeps DEF Stopped
    <3> QED
      BY <1>2, <1>3, <3>1, QuietStep
  <2>2. CASE call # "down"
    <3>1. NoClosed(queue)
      BY <1>1, <2>2 DEF TrackInv
    <3>2. queue' = Append(Tail(queue), Report("closed"))
      BY <1>3, <2>2 DEF Stopped, GoesAndPosts
    <3>3. Tail(queue) \in Seq(Messages) /\ NoClosed(Tail(queue))
      BY <1>1, <3>1, TailKeeps DEF TypeInv
    <3>4. queue' \in Seq(Messages) /\ OneClosed(queue')
      BY <3>2, <3>3, AppendKeeps, MessageTypes
    <3>5. call' = "down"
      BY <1>3 DEF Stopped
    <3> QED
      BY <1>2, <1>3, <3>4, <3>5 DEF IInv, TypeInv, TrackInv, CallIsTracked
  <2> QED
    BY <2>1, <2>2
<1>4. CASE UNCHANGED <<state, call>> /\ Goes
  BY <1>1, <1>2, <1>4, GoesKeeps, QuietStep DEF TypeInv
<1> QED
  BY <1>3, <1>4 DEF ReleaseHeld

\* The machine hears that the call is closed: it was the only report.
LEMMA ClosedStep ==
  ASSUME IInv, ClosedPending \/ ClosedAcquired \/ ClosedReleasing
  PROVE  IInv'
<1>1. TypeInv /\ TrackInv /\ queue # <<>> /\ Head(queue).kind = "closed"
  BY DEF IInv, ClosedPending, ClosedAcquired, ClosedReleasing, Takes
<1>2. ~NoClosed(queue)
  <2>1. Len(queue) \in Nat \ {0} /\ Head(queue) = queue[1]
    BY <1>1 DEF TypeInv
  <2> QED
    BY <1>1, <2>1 DEF NoClosed
<1>3. call = "down"
  BY <1>1, <1>2 DEF TrackInv
<1>4. CASE ClosedPending
  <2>1. PICK order \in Orders(active \cup inactive) :
          queue' = Tail(queue) \o [i \in DOMAIN order |-> Msg("atl", order[i])]
    BY <1>4 DEF ClosedPending
  <2>2. Tail(queue) \in Seq(Messages) /\ NoClosed(Tail(queue))
    BY <1>1, TailKeeps DEF TypeInv, TrackInv
  <2>3. active \cup inactive \in SUBSET Handles
    BY <1>1 DEF TypeInv
  <2>4. queue' \in Seq(Messages) /\ NoClosed(queue')
    BY <2>1, <2>2, <2>3, OrderTypes, ConcatKeeps
  <2>5. OneClosed(queue')
    BY <2>4 DEF NoClosed, OneClosed
  <2> QED
    BY <1>3, <1>4, <2>4, <2>5 DEF ClosedPending, IInv, TypeInv, TrackInv, CallIsTracked
<1>5. CASE ClosedAcquired
  <2>1. QueueKept /\ NoClosed(queue')
    BY <1>1, <1>5, GoesKeeps DEF ClosedAcquired, ReportTaken, TrackInv
  <2> QED
    BY <1>1, <1>3, <1>5, <2>1
       DEF ClosedAcquired, IInv, TypeInv, TrackInv, CallIsTracked, QueueKept
<1>6. CASE ClosedReleasing
  <2>1. active' = active /\ inactive' = {}
    BY <1>6 DEF ClosedReleasing
  <2>2. CASE state' = "Pending" /\ (Started \/ NotStarted(active))
    <3>1. /\ QueueKept /\ NoClosed(queue')
          /\ call' \in {"down", "starting", "up"}
      BY <1>1, <1>3, <2>2, StartedKeeps, NotStartedKeeps DEF ReportTaken, TrackInv, TypeInv
    <3> QED
      BY <1>1, <2>1, <2>2, <3>1 DEF IInv, TypeInv, TrackInv, CallIsTracked, QueueKept
  <2>3. CASE state' = "Released" /\ Goes /\ call' = call
    <3>1. QueueKept /\ NoClosed(queue')
      BY <1>1, <2>3, GoesKeeps DEF ReportTaken, TrackInv
    <3> QED
      BY <1>1, <1>3, <2>1, <2>3, <3>1 DEF IInv, TypeInv, TrackInv, CallIsTracked, QueueKept
  <2> QED
    BY <1>6, <2>2, <2>3 DEF ClosedReleasing
<1> QED
  BY <1>4, <1>5, <1>6

LEMMA ReportsStep ==
  ASSUME IInv, Ends \/ Lost
  PROVE  IInv'
<1>1. TypeInv /\ TrackInv
  BY DEF IInv
<1>2. /\ call # "down"
      /\ UNCHANGED <<state, active, inactive>>
  BY DEF Ends, Lost, Reports, list
<1>3. NoClosed(queue) /\ state # "Released"
  BY <1>1, <1>2 DEF TrackInv, CallIsTracked
<1>4. CASE call' = "up" /\ Post(Report("opened"))
  <2>1. QueueKept
    BY <1>1, <1>4, PostKeeps, MessageTypes
  <2> QED
    BY <1>1, <1>2, <1>3, <1>4, <2>1 DEF IInv, TypeInv, TrackInv, CallIsTracked, QueueKept
<1>5. CASE call' = "down" /\ Post(Report("closed"))
  <2>1. queue' \in Seq(Messages) /\ OneClosed(queue')
    BY <1>1, <1>3, <1>5, AppendKeeps, MessageTypes DEF Post, TypeInv
  <2> QED
    BY <1>1, <1>2, <1>3, <1>5, <2>1 DEF IInv, TypeInv, TrackInv, CallIsTracked
<1> QED
  BY <1>4, <1>5 DEF Ends, Lost, Reports

\* The timers' thread and the modem only post messages.
LEMMA PostingStep ==
  ASSUME IInv,
         retryCallback \/ Restart \/ \E h \in Handles : Asks(h) \/ GivesBack(h)
  PROVE  IInv'
<1>1. TypeInv
  BY DEF IInv
<1>2. UNCHANGED <<state, active, inactive, call>>
  BY DEF retryCallback, Restart, Asks, GivesBack, list
<1>3. CASE retryCallback
  <2>1. CASE \E h \in active : Post(Msg("request", h))
    <3>1. PICK h \in active : Post(Msg("request", h))
      BY <2>1
    <3>2. h \in Handles
      BY <1>1 DEF TypeInv
    <3>3. QueueKept
      BY <1>1, <3>1, <3>2, PostKeeps, MessageTypes
    <3> QED
      BY <1>1, <1>2, <3>3, QuietStep DEF TypeInv
  <2>2. CASE UNCHANGED queue
    BY <1>1, <1>2, <2>2, QuietStep DEF TypeInv, QueueKept
  <2> QED
    BY <1>3, <2>1, <2>2 DEF retryCallback
<1>4. CASE Restart
  <2>1. QueueKept
    BY <1>1, <1>4, PostKeeps, MessageTypes DEF Restart
  <2> QED
    BY <1>1, <1>2, <2>1, QuietStep DEF TypeInv
<1>5. ASSUME NEW h \in Handles, Asks(h) \/ GivesBack(h)
      PROVE  IInv'
  <2>1. Post(Msg("request", h)) \/ Post(Msg("release", h))
    BY <1>5 DEF Asks, GivesBack
  <2>2. QueueKept
    BY <1>1, <2>1, PostKeeps, MessageTypes
  <2> QED
    BY <1>1, <1>2, <2>2, QuietStep DEF TypeInv
<1> QED
  BY <1>3, <1>4, <1>5

LEMMA NextIInv == IInv /\ [Next]_vars => IInv'
<1> SUFFICES ASSUME IInv, [Next]_vars
             PROVE  IInv'
  OBVIOUS
<1>1. CASE MsgTask
  BY <1>1, QuietHandlers, SubscribeReleasedStep, ReleaseHeldStep, ClosedStep DEF MsgTask
<1>2. CASE Ends \/ Lost
  BY <1>2, ReportsStep
<1>3. CASE retryCallback \/ Restart \/ \E h \in Handles : Asks(h) \/ GivesBack(h)
  BY <1>3, PostingStep
<1>4. CASE UNCHANGED vars
  BY <1>4, QuietStep DEF IInv, TypeInv, QueueKept, vars, list
<1> QED
  BY <1>1, <1>2, <1>3, <1>4 DEF Next

\* However calls, reports, refusals, retries and restarts cross, a data call that is up
\* or coming up belongs to a machine that is not Released (DSStateMachine::onRsrcEvent,
\* AgpsReleasedState), for any handles and any number of messages under way: the report
\* that it is closed is unique and comes before the machine lets go.
THEOREM CallAlwaysTracked == Spec => []CallIsTracked
<1>1. IInv => CallIsTracked
  BY DEF IInv, TrackInv
<1> QED
  BY <1>1, InitIInv, NextIInv, PTL DEF Spec
=============================================================================
