-------------------------- MODULE RilWakeLockProofs --------------------------
(***************************************************************************)
(* The wake lock of the RIL daemon, for any number of sending threads,     *)
(* timers and messages: the variables have their types, the lock of the    *)
(* kernel agrees with the count, and the phone is never awake without a    *)
(* timer to put it to sleep.                                               *)
(*                                                                         *)
(* AwakeHasTimeout speaks of some timer; what is kept from step to step is *)
(* about the newest.  The timer a sender has just started is on the list   *)
(* and not cancelled, or its callback waits for the mutex the sender       *)
(* holds.  The timer it cancels is another one, because last never points  *)
(* to a block that is free to be allocated.                                *)
(***************************************************************************)
EXTENDS RilWakeLock, TLAPS

\* Who holds the mutex, what the holder has read, and what the loop is at.
MutexInv ==
  /\ \A p \in Threads : pc[p] # "idle" <=> mutex = p
  /\ \A p \in Threads : pc[p] = "cancel" => saw \in Timers
  /\ pc[Binder] # "start"
  /\ loop = "idle" => firing = None

\* The lock and the count, at every point of the threads that change them.
LockInv ==
  /\ mutex = None => (held => count > 0) /\ (count > 0 => held \/ starved)
  /\ \A p \in Senders : mutex = p => held /\ (pc[p] # "start" => count > 0)
  /\ mutex = Binder => ~held /\ count = 0

\* Timer t will release the lock.
Live(t) ==
  \/ t \in Running \ cancelled /\ t # firing
  \/ t = firing /\ loop = "release"

\* last does not dangle.
LastInv ==
  last # None =>
    /\ last \in Running \cup {firing}
    /\ loop = "free" => last # firing

\* The timer a sender has started.
OwnInv ==
  \A p \in Senders : pc[p] \in {"test", "cancel", "done"} =>
    /\ own[p] \in Timers
    /\ Live(own[p])
    /\ pc[p] = "test" => last # own[p]
    /\ pc[p] = "cancel" => saw # own[p]

IInv == TypeOK /\ MutexInv /\ LockInv /\ LastInv /\ OwnInv /\ AwakeHasTimeout

-----------------------------------------------------------------------------
(* The list of timers                                                      *)

\* ril_timer_add puts one more timer on the list (ril_event.cpp:286-312).
LEMMA RunningAfterStart ==
  ASSUME TypeOK, NEW t \in Timers, queue' = Append(queue, t)
  PROVE  Running' = Running \cup {t}
BY DEF TypeOK, Running

\* processTimeouts takes the soonest off, and no other (ril_event.cpp:158-180).
LEMMA RunningAfterExpire ==
  ASSUME TypeOK, queue # <<>>, queue' = Tail(queue)
  PROVE  /\ Head(queue) \in Timers
         /\ Running' \subseteq Running
         /\ Running \subseteq Running' \cup {Head(queue)}
<1>1. Len(queue) \in Nat \ {0} /\ Head(queue) = queue[1] /\ Head(queue) \in Timers
  BY DEF TypeOK
<1>2. Len(Tail(queue)) = Len(queue) - 1
      /\ \A i \in 1..(Len(queue) - 1) : Tail(queue)[i] = queue[i + 1]
  BY <1>1 DEF TypeOK
<1>3. Running' \subseteq Running
  BY <1>1, <1>2 DEF Running
<1>4. ASSUME NEW i \in 1..Len(queue), i # 1
      PROVE  queue[i] \in Running'
  <2>1. i - 1 \in 1..(Len(queue) - 1) /\ Tail(queue)[i - 1] = queue[i]
    BY <1>1, <1>2, <1>4
  <2>2. QED
    BY <1>1, <1>2, <2>1 DEF Running
<1>5. QED
  BY <1>1, <1>3, <1>4 DEF Running

\* Every running timer is a timer.
LEMMA RunningIsTimers ==
  ASSUME TypeOK
  PROVE  Running \subseteq Timers
BY DEF TypeOK, Running

-----------------------------------------------------------------------------
(* The invariant                                                           *)

LEMMA InitInv == Init => IInv
<1> SUFFICES ASSUME Init PROVE IInv
  OBVIOUS
<1>1. TypeOK
  <2>1. queue \in Seq(Timers)
    BY DEF Init
  <2>2. pc \in [Threads -> {"idle", "start", "test", "cancel", "done", "dead"}]
        /\ own \in [Senders -> Timers \cup {None}]
    BY DEF Init
  <2>3. held \in BOOLEAN /\ starved \in BOOLEAN
    BY DEF Init
  <2>4. count \in Nat /\ owed \in Nat /\ sent \in 0..MaxMessages
    BY ThreadsAssumption DEF Init
  <2>5. QED
    BY <2>1, <2>2, <2>3, <2>4 DEF Init, TypeOK
<1>2. MutexInv /\ LockInv
  BY ThreadsAssumption DEF Init, MutexInv, LockInv, Threads
<1>3. LastInv /\ OwnInv /\ AwakeHasTimeout
  BY DEF Init, LastInv, OwnInv, AwakeHasTimeout, Threads
<1>4. QED
  BY <1>1, <1>2, <1>3 DEF IInv

\* grabPartialWakeLock, acknowledgements and the event loop keep the invariant.
LEMMA GrabInv ==
  ASSUME IInv, NEW p \in Senders, Grab(p)
  PROVE  IInv'
<1>0. p \in Threads /\ p # Binder /\ p # None
  BY ThreadsAssumption DEF Threads
<1>1. TypeOK'
  <2>1. held' \in BOOLEAN /\ starved' \in BOOLEAN
    BY DEF Grab
  <2>2. pc' \in [Threads -> {"idle", "start", "test", "cancel", "done", "dead"}]
        /\ mutex' \in Threads
    BY <1>0 DEF IInv, TypeOK, Grab
  <2>3. sent' \in 0..MaxMessages
    BY ThreadsAssumption DEF IInv, TypeOK, Grab
  <2>4. QED
    BY <2>1, <2>2, <2>3 DEF IInv, TypeOK, Grab
<1>2. MutexInv'
  BY <1>0, ThreadsAssumption DEF IInv, TypeOK, MutexInv, Grab, Threads
<1>3. LockInv'
  BY <1>0, ThreadsAssumption DEF IInv, TypeOK, MutexInv, LockInv, Grab, Threads
<1>4. LastInv' /\ AwakeHasTimeout'
  BY <1>0 DEF IInv, LastInv, AwakeHasTimeout, Grab, Running
<1>5. OwnInv'
  BY <1>0 DEF IInv, TypeOK, MutexInv, OwnInv, Live, Grab, Running, Threads
<1>6. QED
  BY <1>1, <1>2, <1>3, <1>4, <1>5 DEF IInv

LEMMA StartTimerInv ==
  ASSUME IInv, NEW p \in Senders, StartTimer(p)
  PROVE  IInv'
<1>0. p \in Threads /\ p # Binder /\ p # None /\ mutex = p
  BY ThreadsAssumption DEF Threads, IInv, MutexInv, StartTimer
<1>t. PICK t \in Free : /\ own' = [own EXCEPT ![p] = t]
                        /\ queue' = Append(queue, t)
                        /\ cancelled' = cancelled \ {t}
  BY DEF StartTimer
<1>r. t \in Timers /\ t \notin Running /\ t # firing /\ Running' = Running \cup {t}
  BY <1>t, RunningAfterStart DEF Free, IInv
<1>1. TypeOK'
  BY <1>0, <1>t, <1>r DEF IInv, TypeOK, StartTimer, Threads
<1>2. MutexInv'
  BY <1>0, ThreadsAssumption DEF IInv, TypeOK, MutexInv, StartTimer, Threads
<1>3. LockInv'
  BY <1>0, ThreadsAssumption DEF IInv, TypeOK, MutexInv, LockInv, StartTimer, Threads
<1>4. LastInv' /\ AwakeHasTimeout'
  BY <1>0, <1>r DEF IInv, LastInv, AwakeHasTimeout, StartTimer
<1>5. OwnInv'
  <2>1. last # t
    BY <1>r, ThreadsAssumption DEF IInv, LastInv
  <2>2. \A q \in Senders : q # p => pc'[q] = "idle"
    BY <1>0 DEF IInv, MutexInv, StartTimer, Threads, TypeOK
  <2>3. own'[p] = t /\ pc'[p] = "test"
    BY <1>0, <1>t DEF IInv, TypeOK, StartTimer, Threads
  <2>4. Live(t)'
    BY <1>t, <1>r DEF Live, StartTimer
  <2>5. QED
    BY <1>r, <2>1, <2>2, <2>3, <2>4 DEF OwnInv, StartTimer
<1>6. QED
  BY <1>1, <1>2, <1>3, <1>4, <1>5 DEF IInv

\* The mutex is free again, and the lock is not held.
LEMMA StartTimerFailsInv ==
  ASSUME IInv, NEW p \in Senders, StartTimerFails(p)
  PROVE  IInv'
<1>0. p \in Threads /\ mutex = p /\ p # Binder /\ mutex # None
  BY ThreadsAssumption DEF Threads, IInv, MutexInv, StartTimerFails
<1>1. TypeOK'
  <2>1. held' \in BOOLEAN /\ starved' \in BOOLEAN
    BY DEF StartTimerFails
  <2>2. pc' \in [Threads -> {"idle", "start", "test", "cancel", "done", "dead"}]
    BY DEF IInv, TypeOK, StartTimerFails
  <2>3. owed' \in Nat
    BY DEF IInv, TypeOK, StartTimerFails
  <2>4. QED
    BY <2>1, <2>2, <2>3 DEF IInv, TypeOK, StartTimerFails
<1>2. MutexInv'
  BY <1>0, ThreadsAssumption DEF IInv, TypeOK, MutexInv, StartTimerFails, Threads
<1>3. LockInv' /\ AwakeHasTimeout'
  BY <1>0, ThreadsAssumption DEF LockInv, AwakeHasTimeout, StartTimerFails
<1>4. LastInv'
  BY DEF IInv, LastInv, StartTimerFails, Running
<1>5. OwnInv'
  <2>1. \A q \in Senders : pc'[q] = "idle"
    BY <1>0 DEF IInv, MutexInv, TypeOK, StartTimerFails, Threads
  <2>2. QED
    BY <2>1 DEF OwnInv
<1>6. QED
  BY <1>1, <1>2, <1>3, <1>4, <1>5 DEF IInv

\* Test, Cancel: the same steps for senders and binder.
LEMMA TestInv ==
  ASSUME IInv, NEW p \in Threads, Test(p)
  PROVE  IInv'
<1>0. mutex = p
  BY DEF IInv, MutexInv, Test
<1>1. TypeOK'
  BY DEF IInv, TypeOK, Test
<1>2. MutexInv'
  <2>1. \A q \in Threads : q # p => pc'[q] = "idle"
    BY <1>0 DEF IInv, MutexInv, TypeOK, Test
  <2>2. pc'[p] \in {"done", "cancel"} /\ (pc'[p] = "cancel" => last # None)
    BY DEF IInv, TypeOK, Test
  <2>3. QED
    BY <1>0, <2>1, <2>2, ThreadsAssumption DEF IInv, MutexInv, TypeOK, Test, Threads
<1>3. LockInv'
  BY <1>0 DEF IInv, TypeOK, LockInv, Test
<1>4. LastInv' /\ AwakeHasTimeout'
  BY DEF IInv, LastInv, AwakeHasTimeout, Test, Running
<1>5. OwnInv'
  <2> SUFFICES ASSUME NEW q \in Senders, pc'[q] \in {"test", "cancel", "done"}
               PROVE  /\ own'[q] \in Timers
                      /\ Live(own[q])'
                      /\ pc'[q] = "test" => last' # own'[q]
                      /\ pc'[q] = "cancel" => saw' # own'[q]
    BY DEF OwnInv
  <2>1. q \in Threads
    BY DEF Threads
  <2>2. q = p
    BY <1>0, <2>1 DEF IInv, MutexInv, TypeOK, Test
  <2>3. pc'[p] # "test"
    BY DEF IInv, TypeOK, Test
  <2>4. QED
    BY <2>2, <2>3 DEF IInv, OwnInv, Live, Test, Running
<1>6. QED
  BY <1>1, <1>2, <1>3, <1>4, <1>5 DEF IInv

LEMMA CancelInv ==
  ASSUME IInv, NEW p \in Threads, Cancel(p)
  PROVE  IInv'
<1>0. mutex = p /\ saw \in Timers /\ mutex # None
  BY ThreadsAssumption DEF IInv, MutexInv, Cancel, Threads
<1>1. TypeOK'
  BY <1>0 DEF IInv, TypeOK, Cancel
<1>2. MutexInv'
  BY <1>0 DEF IInv, TypeOK, MutexInv, Cancel
<1>3. LockInv'
  BY <1>0 DEF IInv, TypeOK, LockInv, Cancel
<1>4. LastInv' /\ AwakeHasTimeout'
  BY <1>0 DEF IInv, LastInv, AwakeHasTimeout, Cancel, Running
<1>5. OwnInv'
  <2> SUFFICES ASSUME NEW q \in Senders, pc'[q] \in {"test", "cancel", "done"}
               PROVE  /\ own'[q] \in Timers
                      /\ Live(own[q])'
                      /\ pc'[q] = "test" => last' # own'[q]
                      /\ pc'[q] = "cancel" => saw' # own'[q]
    BY DEF OwnInv
  <2>1. q \in Threads
    BY DEF Threads
  <2>2. q = p
    BY <1>0, <2>1 DEF IInv, MutexInv, TypeOK, Cancel
  <2>3. pc'[p] = "done" /\ pc[p] = "cancel"
    BY DEF IInv, TypeOK, Cancel
  <2>4. own[p] \in Timers /\ Live(own[p]) /\ saw # own[p]
    BY <2>2, <2>3 DEF IInv, OwnInv
  <2>5. Live(own[p])'
    BY <2>4 DEF Live, Cancel, Running
  <2>6. QED
    BY <2>2, <2>3, <2>4, <2>5 DEF Cancel
<1>6. QED
  BY <1>1, <1>2, <1>3, <1>4, <1>5 DEF IInv

\* A daemon that is dead keeps the mutex: nobody else is past it.
LEMMA CancelNothingInv ==
  ASSUME IInv, NEW p \in Threads, CancelNothing(p)
  PROVE  IInv'
<1>0. mutex = p /\ mutex # None
  BY ThreadsAssumption DEF IInv, MutexInv, CancelNothing, Threads
<1>1. TypeOK'
  BY DEF IInv, TypeOK, CancelNothing
<1>2. MutexInv'
  BY <1>0 DEF IInv, TypeOK, MutexInv, CancelNothing
<1>3. LockInv'
  BY <1>0 DEF IInv, TypeOK, LockInv, CancelNothing
<1>4. LastInv' /\ AwakeHasTimeout'
  BY <1>0, ThreadsAssumption DEF LastInv, AwakeHasTimeout, CancelNothing
<1>5. OwnInv'
  <2>1. \A q \in Senders : pc'[q] \in {"idle", "dead"}
    BY <1>0 DEF IInv, MutexInv, TypeOK, CancelNothing, Threads
  <2>2. QED
    BY <2>1 DEF OwnInv
<1>6. QED
  BY <1>1, <1>2, <1>3, <1>4, <1>5 DEF IInv

\* The new timer becomes the last one; it will put the phone to sleep.
LEMMA GrabbedInv ==
  ASSUME IInv, NEW p \in Senders, Grabbed(p)
  PROVE  IInv'
<1>0. p \in Threads /\ mutex = p /\ p # Binder /\ mutex # None
  BY ThreadsAssumption DEF Threads, IInv, MutexInv, Grabbed
<1>o. own[p] \in Timers /\ Live(own[p])
  BY DEF IInv, OwnInv, Grabbed
<1>1. TypeOK'
  BY <1>0, <1>o DEF IInv, TypeOK, Grabbed
<1>2. MutexInv'
  BY <1>0, ThreadsAssumption DEF IInv, TypeOK, MutexInv, Grabbed, Threads
<1>3. LockInv'
  BY <1>0, ThreadsAssumption DEF IInv, TypeOK, LockInv, Grabbed
<1>4. LastInv' /\ AwakeHasTimeout'
  BY <1>o DEF LastInv, AwakeHasTimeout, Live, Grabbed, Running
<1>5. OwnInv'
  <2>1. \A q \in Senders : pc'[q] = "idle"
    BY <1>0 DEF IInv, MutexInv, TypeOK, Grabbed, Threads
  <2>2. QED
    BY <2>1 DEF OwnInv
<1>6. QED
  BY <1>1, <1>2, <1>3, <1>4, <1>5 DEF IInv

LEMMA BinderInv ==
  ASSUME IInv, AcknowledgeOneOfMany \/ AcknowledgeLast \/ Released \/ ClientDies
  PROVE  IInv'
<1>0. Binder \in Threads /\ Binder \notin Senders /\ Binder # None
  BY ThreadsAssumption DEF Threads
<1>l. LastInv'
  BY DEF IInv, LastInv, AcknowledgeOneOfMany, AcknowledgeLast, Released, ClientDies, Running
<1>w. OwnInv'
  <2>1. \A q \in Senders : pc'[q] = pc[q] /\ q \in Threads
    BY <1>0 DEF IInv, TypeOK, Threads, AcknowledgeOneOfMany, AcknowledgeLast, Released, ClientDies
  <2>2. own' = own /\ last' = last /\ queue' = queue /\ cancelled' = cancelled
        /\ firing' = firing /\ loop' = loop
    BY DEF AcknowledgeOneOfMany, AcknowledgeLast, Released, ClientDies
  <2>3. \A q \in Senders : Live(own[q])' <=> Live(own[q])
    BY <2>2 DEF Live, Running
  <2>4. saw' = saw \/ \A q \in Senders : pc[q] = "idle"
    BY <1>0 DEF IInv, MutexInv, Threads, AcknowledgeOneOfMany, AcknowledgeLast, Released, ClientDies
  <2>5. QED
    BY <2>1, <2>2, <2>3, <2>4 DEF IInv, OwnInv
<1>1. CASE AcknowledgeOneOfMany
  <2>1. TypeOK' /\ MutexInv'
    BY <1>1 DEF IInv, TypeOK, MutexInv, AcknowledgeOneOfMany
  <2>2. LockInv' /\ AwakeHasTimeout'
    BY <1>0, <1>1, ThreadsAssumption
    DEF IInv, TypeOK, LockInv, AwakeHasTimeout, AcknowledgeOneOfMany, Running
  <2>3. QED
    BY <1>l, <1>w, <2>1, <2>2 DEF IInv
<1>2. CASE AcknowledgeLast
  <2>1. TypeOK'
    <3>1. /\ pc' \in [Threads -> {"idle", "start", "test", "cancel", "done", "dead"}]
          /\ mutex' \in Threads
      BY <1>0, <1>2 DEF IInv, TypeOK, AcknowledgeLast
    <3>2. owed' \in Nat /\ count' \in Nat
      BY <1>2 DEF IInv, TypeOK, AcknowledgeLast
    <3>3. held' \in BOOLEAN
      BY <1>2 DEF AcknowledgeLast
    <3>4. QED
      BY <1>2, <3>1, <3>2, <3>3 DEF IInv, TypeOK, AcknowledgeLast
  <2>2. MutexInv'
    BY <1>0, <1>2, ThreadsAssumption DEF IInv, TypeOK, MutexInv, AcknowledgeLast, Threads
  <2>3. LockInv' /\ AwakeHasTimeout'
    BY <1>0, <1>2 DEF LockInv, AwakeHasTimeout, AcknowledgeLast
  <2>4. QED
    BY <1>l, <1>w, <2>1, <2>2, <2>3 DEF IInv
<1>3. CASE Released
  <2>0. mutex = Binder
    BY <1>0, <1>3 DEF IInv, MutexInv, Released
  <2>1. TypeOK'
    BY <1>0, <1>3 DEF IInv, TypeOK, Released
  <2>2. MutexInv'
    BY <1>0, <1>3, <2>0, ThreadsAssumption DEF IInv, TypeOK, MutexInv, Released, Threads
  <2>3. LockInv' /\ AwakeHasTimeout'
    BY <1>0, <1>3, <2>0, ThreadsAssumption DEF IInv, LockInv, AwakeHasTimeout, Released
  <2>4. QED
    BY <1>l, <1>w, <2>1, <2>2, <2>3 DEF IInv
<1>4. CASE ClientDies
  <2>1. TypeOK' /\ MutexInv' /\ LockInv' /\ AwakeHasTimeout'
    BY <1>4 DEF IInv, TypeOK, MutexInv, LockInv, AwakeHasTimeout, ClientDies, Running
  <2>2. QED
    BY <1>l, <1>w, <2>1 DEF IInv
<1>5. QED
  BY <1>1, <1>2, <1>3, <1>4

\* The event loop never holds the mutex for longer than a step.  Only Timeout
\* and Clear change what the others read, and Clear makes last NULL.
LEMMA EventLoopInv ==
  ASSUME IInv, EventLoop
  PROVE  IInv'
<1>l. \A q \in Senders : q \in Threads /\ q # None
  BY ThreadsAssumption DEF Threads
<1>1. CASE Expire
  <2>0. /\ Head(queue) \in Timers
        /\ Running' \subseteq Running
        /\ Running \subseteq Running' \cup {Head(queue)}
        /\ firing' = Head(queue)
    BY <1>1, RunningAfterExpire DEF IInv, Expire
  <2>1. TypeOK'
    <3>1. queue' \in Seq(Timers)
      BY <1>1 DEF IInv, TypeOK, Expire
    <3>2. QED
      BY <1>1, <2>0, <3>1 DEF IInv, TypeOK, Expire
  <2>2. MutexInv' /\ LockInv'
    BY <1>1 DEF IInv, TypeOK, MutexInv, LockInv, Expire
  <2>3. LastInv'
    <3>1. last # None => last \in Running
      BY <1>1 DEF IInv, MutexInv, LastInv, Expire
    <3>2. QED
      BY <1>1, <2>0, <3>1 DEF LastInv, Expire
  <2>4. OwnInv'
    <3> SUFFICES ASSUME NEW q \in Senders, Live(own[q]) PROVE Live(own[q])'
      BY <1>1 DEF IInv, OwnInv, Expire
    <3>1. own[q] \in Running \ cancelled
      BY <1>1 DEF Live, Expire
    <3>2. QED
      BY <1>1, <2>0, <3>1 DEF Live, Expire
  <2>5. AwakeHasTimeout'
    BY <1>1, <2>0 DEF IInv, AwakeHasTimeout, Expire
  <2>6. QED
    BY <2>1, <2>2, <2>3, <2>4, <2>5 DEF IInv
<1>2. CASE Timeout
  <2>1. TypeOK' /\ MutexInv'
    BY <1>2 DEF IInv, TypeOK, MutexInv, Timeout
  <2>2. LockInv' /\ AwakeHasTimeout'
    BY <1>2, <1>l, ThreadsAssumption DEF LockInv, AwakeHasTimeout, Timeout
  <2>3. LastInv'
    BY <1>2 DEF IInv, LastInv, Timeout, Running
  <2>4. OwnInv'
    BY <1>2, <1>l DEF IInv, MutexInv, OwnInv, Timeout
  <2>5. QED
    BY <2>1, <2>2, <2>3, <2>4 DEF IInv
<1>3. CASE Compare
  <2>1. TypeOK' /\ MutexInv' /\ LockInv'
    BY <1>3 DEF IInv, TypeOK, MutexInv, LockInv, Compare
  <2>2. LastInv' /\ OwnInv' /\ AwakeHasTimeout'
    BY <1>3 DEF IInv, LastInv, OwnInv, Live, AwakeHasTimeout, Compare, Running
  <2>3. QED
    BY <2>1, <2>2 DEF IInv
<1>4. CASE Clear
  <2>1. TypeOK' /\ MutexInv' /\ LockInv' /\ LastInv'
    BY <1>4 DEF IInv, TypeOK, MutexInv, LockInv, LastInv, Clear
  <2>2. OwnInv' /\ AwakeHasTimeout'
    BY <1>4, ThreadsAssumption DEF IInv, OwnInv, Live, AwakeHasTimeout, Clear, Running
  <2>3. QED
    BY <2>1, <2>2 DEF IInv
<1>5. CASE FreeTimer
  <2>1. TypeOK' /\ MutexInv' /\ LockInv'
    BY <1>5 DEF IInv, TypeOK, MutexInv, LockInv, FreeTimer
  <2>2. LastInv'
    BY <1>5 DEF IInv, LastInv, FreeTimer, Running
  <2>3. OwnInv'
    <3> SUFFICES ASSUME NEW q \in Senders, own[q] \in Timers, Live(own[q]) PROVE Live(own[q])'
      BY <1>5 DEF IInv, OwnInv, FreeTimer
    <3>1. own[q] \in Running \ cancelled
      BY <1>5 DEF Live, FreeTimer
    <3>2. QED
      BY <1>5, <3>1, ThreadsAssumption DEF Live, FreeTimer, Running
  <2>4. AwakeHasTimeout'
    BY <1>5 DEF IInv, AwakeHasTimeout, FreeTimer, Running
  <2>5. QED
    BY <2>1, <2>2, <2>3, <2>4 DEF IInv
<1>6. QED
  BY <1>1, <1>2, <1>3, <1>4, <1>5 DEF EventLoop

LEMMA StutterInv ==
  ASSUME IInv, UNCHANGED vars
  PROVE  IInv'
<1>1. TypeOK' /\ MutexInv' /\ LockInv'
  BY DEF IInv, TypeOK, MutexInv, LockInv, vars
<1>2. LastInv' /\ OwnInv' /\ AwakeHasTimeout'
  BY DEF IInv, LastInv, OwnInv, Live, AwakeHasTimeout, Running, vars
<1>3. QED
  BY <1>1, <1>2 DEF IInv

LEMMA NextInv == IInv /\ [Next]_vars => IInv'
<1> SUFFICES ASSUME IInv, [Next]_vars PROVE IInv'
  OBVIOUS
<1>1. ASSUME NEW p \in Senders, Grab(p) \/ Sends(p)
      PROVE  IInv'
  BY <1>1, GrabInv, StartTimerInv, StartTimerFailsInv, TestInv, CancelInv, CancelNothingInv,
     GrabbedInv DEF Sends, Threads
<1>2. CASE Acknowledges \/ ClientDies
  BY <1>2, BinderInv, TestInv, CancelInv, CancelNothingInv DEF Acknowledges, Threads
<1>3. QED
  BY <1>1, <1>2, EventLoopInv, StutterInv DEF Next

LEMMA Invariant == Spec => []IInv
BY InitInv, NextInv, PTL DEF Spec

-----------------------------------------------------------------------------
(* Theorems                                                                *)

\* The variables of the wake lock keep their types: the count never drops below
\* zero and last never points at anything but a timer (ril.cpp:130, 159).
THEOREM TypeCorrect == Spec => []TypeOK
BY Invariant, PTL DEF IInv

\* Grabs, acknowledgements and timeouts leave the kernel's lock and
\* s_wakelock_count in agreement (grabPartialWakeLock, releaseWakeLock,
\* wakeTimeoutCallback), but for messages that stay counted when the lock was given up
\* for want of memory.
THEOREM LockIsCounted == Spec => []HeldIffCounted
<1>1. IInv => HeldIffCounted
  BY DEF IInv, TypeOK, LockInv, HeldIffCounted
<1>2. QED
  BY <1>1, Invariant, PTL

\* The phone is never awake without a timer that will put it to sleep, although
\* the event loop clears last and frees timers without the mutex
\* (userTimerCallback, ril.cpp:358-363).
THEOREM AwakeAlwaysHasTimeout == Spec => []AwakeHasTimeout
BY Invariant, PTL DEF IInv
=============================================================================
