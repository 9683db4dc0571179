----------------------------- MODULE LocTimer ------------------------------
(***************************************************************************)
(* The timers of gps/utils: LocTimer.cpp, with the heap of LocHeap.cpp.    *)
(*                                                                         *)
(* A client starts and stops its LocTimer from a thread of its own, under  *)
(* the timer's lock.  Each start makes a LocTimerDelegate (here its number, *)
(* 1, 2, ...; 0 is NULL), which goes into the container by a message.  The *)
(* MsgTask thread does all the work on the heap, arms the timerfd for the  *)
(* soonest delegate, and calls the clients back.  The poll thread waits    *)
(* for the timerfd and turns each expiry into a message.                   *)
(*                                                                         *)
(* The MsgTask thread arms with two calls of the kernel (epoll, timerfd),  *)
(* and the poll thread disarms with two: they may cross.                   *)
(*                                                                         *)
(* One container stands for both (timers and alarms): they share only the  *)
(* two threads.  The heap is the set of its delegates; of two with the     *)
(* same time either may be on top.  LocTimers are not deleted.             *)
(***************************************************************************)
EXTENDS Naturals, Sequences

CONSTANTS
  Clients,     \* LocTimer objects
  NoClient,    \* NULL
  Delays,      \* times a client may ask for
  MaxStarts,   \* bound: starts
  MaxTime      \* bound: the clock

ASSUME TimerAssumption ==
  /\ NoClient \notin Clients
  /\ Delays \subseteq Nat
  /\ MaxStarts \in Nat
  /\ MaxTime \in Nat

VARIABLES
  now,         \* CLOCK_BOOTTIME
  starts,      \* delegates made so far
  timer,       \* per LocTimer: mTimer
  client,      \* per delegate: mClient
  due,         \* per delegate: mFutureTime
  heap,        \* the delegates in the container
  freed,       \* delegates deleted
  queue,       \* messages to the MsgTask thread
  task,        \* what that thread is at
  armed,       \* the time the timerfd is set to; 0: disarmed
  polled,      \* is the timerfd in the epoll set?
  poll         \* what the poll thread does next

clients == <<starts, timer, client, due>>
kernel  == <<armed, polled>>
vars    == <<now, clients, heap, freed, queue, task, kernel, poll>>

Delegates == 1..MaxStarts

MsgTimerPush(d)   == [kind |-> "push", timer |-> d]
MsgTimerRemove(d) == [kind |-> "remove", timer |-> d]
MsgTimerExpire    == [kind |-> "expire", timer |-> 0]

\* The MsgTask thread is at a stage, with a delegate, a client, and a time.
AtStage(stage, d, c, time) == [at |-> stage, timer |-> d, client |-> c, time |-> time]
IdleTask == AtStage("idle", 0, NoClient, 0)

Init ==
  /\ now = 1
  /\ starts = 0
  /\ timer = [c \in Clients |-> 0]
  /\ client = [d \in Delegates |-> NoClient]
  /\ due = [d \in Delegates |-> 0]
  /\ heap = {}
  /\ freed = {}
  /\ queue = <<>>
  /\ task = IdleTask
  /\ armed = 0
  /\ polled = FALSE
  /\ poll = "wait"

Tick ==
  /\ now < MaxTime
  /\ now' = now + 1
  /\ UNCHANGED <<clients, heap, freed, queue, task, kernel, poll>>

-----------------------------------------------------------------------------
(* Clients                                                                 *)

Start(c) ==
  /\ timer[c] = 0
  /\ starts < MaxStarts
  /\ \E delay \in Delays :
       /\ now + delay <= MaxTime
       /\ due' = [due EXCEPT ![starts + 1] = now + delay]
  /\ starts' = starts + 1
  /\ timer' = [timer EXCEPT ![c] = starts']
  /\ client' = [client EXCEPT ![starts'] = c]
  /\ queue' = Append(queue, MsgTimerPush(starts'))
  /\ UNCHANGED <<now, heap, freed, task, kernel, poll>>

\* LocTimer::stop of a timer that runs: the delegate is cut off from its client
\* and sent to be removed and deleted (destroyLocked).
StopLocked(c) ==
  /\ timer[c] # 0
  /\ timer' = [timer EXCEPT ![c] = 0]
  /\ client' = [client EXCEPT ![timer[c]] = NoClient]
  /\ queue' = Append(queue, MsgTimerRemove(timer[c]))
  /\ UNCHANGED <<starts, due>>

Stop(c) ==
  /\ StopLocked(c)
  /\ UNCHANGED <<now, heap, freed, task, kernel, poll>>

-----------------------------------------------------------------------------
(* The MsgTask thread                                                      *)

Soonest(set) == {d \in set : \A e \in set : due[d] <= due[e]}

\* updateSoonestTime, when the top of set is new to the kernel.  It is always
\* called with no prior top or with one that is outranked, so that an empty
\* heap leaves the timerfd as it is.
Update(set) ==
  IF set = {} THEN task' = IdleTask
  ELSE \E d \in Soonest(set) : task' = AtStage("addPoll", d, NoClient, due[d])

\* The next message is of this kind; it is taken off the queue.
Takes(kind) ==
  /\ task.at = "idle"
  /\ queue # <<>>
  /\ Head(queue).kind = kind
  /\ queue' = Tail(queue)

\* MsgTimerPush: a delegate that outranks all others becomes the top.
TakePush ==
  /\ Takes("push")
  /\ LET d == Head(queue).timer IN
       /\ heap' = heap \cup {d}
       /\ IF \A e \in heap : due[d] < due[e] THEN Update({d}) ELSE UNCHANGED task
  /\ UNCHANGED <<now, clients, freed, kernel, poll>>

\* Mutant: the old top is passed on, and the new one does not outrank it.
TakeRemoveAsPush ==
  /\ Takes("remove")
  /\ heap' = heap \ {Head(queue).timer}
  /\ freed' = freed \cup {Head(queue).timer}
  /\ UNCHANGED <<now, clients, task, kernel, poll>>

\* MsgTimerRemove: a delegate that was on top has a successor.
TakeRemove ==
  /\ Takes("remove")
  /\ LET d == Head(queue).timer IN
       /\ heap' = heap \ {d}
       /\ freed' = freed \cup {d}
       /\ \/ d \in Soonest(heap) /\ Update(heap')
          \/ Soonest(heap) # {d} /\ UNCHANGED task
  /\ UNCHANGED <<now, clients, kernel, poll>>

\* The loop of MsgTimerExpire: the top goes to its client, if there is one.
Pop(time) ==
  \E d \in Soonest(heap) :
    /\ heap' = heap \ {d}
    /\ task' = AtStage("expire", d, NoClient, time)

\* MsgTimerExpire pops the top whatever its time.
TakeExpire ==
  /\ Takes("expire")
  /\ IF heap = {} THEN UNCHANGED <<heap, task>> ELSE Pop(now)
  /\ UNCHANGED <<now, clients, freed, kernel, poll>>

\* LocTimerDelegate::expire reads mClient without the lock ...
ReadClient ==
  /\ task.at = "expire"
  /\ task' = IF client[task.timer] = NoClient
             THEN [task EXCEPT !.at = "pop"]
             ELSE [task EXCEPT !.at = "stop", !.client = client[task.timer]]
  /\ UNCHANGED <<now, clients, heap, freed, queue, kernel, poll>>

\* Mutant: the delegate that expired is deleted at once.
StopClientAndDelete ==
  /\ task.at = "stop"
  /\ freed' = freed \cup {task.timer}
  /\ \/ /\ StopLocked(task.client)
        /\ task' = [task EXCEPT !.at = "call", !.timer = timer[task.client]]
     \/ /\ timer[task.client] = 0
        /\ task' = [task EXCEPT !.at = "pop"]
        /\ UNCHANGED <<clients, queue>>
  /\ UNCHANGED <<now, heap, kernel, poll>>

\* Mutant: the delegate is dropped, since it is no longer in the heap.
StopClientAndDrop ==
  /\ task.at = "stop"
  /\ LET d == timer[task.client] IN
       /\ timer' = [timer EXCEPT ![task.client] = 0]
       /\ task' = [task EXCEPT !.at = IF d = 0 THEN "pop" ELSE "call", !.timer = d]
  /\ UNCHANGED <<now, starts, client, due, heap, freed, queue, kernel, poll>>

\* ... and stops the client's timer: the one that runs by now.
StopClient ==
  /\ task.at = "stop"
  /\ \/ /\ StopLocked(task.client)
        /\ task' = [task EXCEPT !.at = "call", !.timer = timer[task.client]]
     \/ /\ timer[task.client] = 0
        /\ task' = [task EXCEPT !.at = "pop"]
        /\ UNCHANGED <<clients, queue>>
  /\ UNCHANGED <<now, heap, freed, kernel, poll>>

\* timeOutCallback, without the lock
Call ==
  /\ task.at = "call"
  /\ task' = [task EXCEPT !.at = "pop"]
  /\ UNCHANGED <<now, clients, heap, freed, queue, kernel, poll>>

\* Mutant: the timerfd is left to the next push.
PopNextOrRest ==
  /\ task.at = "pop"
  /\ IF \E d \in heap : due[d] <= task.time
     THEN Pop(task.time)
     ELSE task' = IdleTask /\ UNCHANGED heap
  /\ UNCHANGED <<now, clients, freed, queue, kernel, poll>>

\* popIfOutRanks, of the time the message was taken, or the end of the loop.
PopNext ==
  /\ task.at = "pop"
  /\ IF \E d \in heap : due[d] <= task.time
     THEN Pop(task.time)
     ELSE Update(heap) /\ UNCHANGED heap
  /\ UNCHANGED <<now, clients, freed, queue, kernel, poll>>

AddPoll ==
  /\ task.at = "addPoll"
  /\ polled' = TRUE
  /\ task' = [task EXCEPT !.at = "setTime"]
  /\ UNCHANGED <<now, clients, heap, freed, queue, armed, poll>>

SetTime ==
  /\ task.at = "setTime"
  /\ armed' = task.time
  /\ task' = IdleTask
  /\ UNCHANGED <<now, clients, heap, freed, queue, polled, poll>>

-----------------------------------------------------------------------------
(* The poll thread: epoll_wait and LocTimerContainer::expire               *)

Wake ==
  /\ poll = "wait"
  /\ polled /\ armed # 0 /\ armed <= now
  /\ poll' = "disarm"
  /\ UNCHANGED <<now, clients, heap, freed, queue, task, kernel>>

Disarm ==
  /\ poll = "disarm"
  /\ armed' = 0
  /\ poll' = "removePoll"
  /\ UNCHANGED <<now, clients, heap, freed, queue, task, polled>>

RemovePoll ==
  /\ poll = "removePoll"
  /\ polled' = FALSE
  /\ poll' = "send"
  /\ UNCHANGED <<now, clients, heap, freed, queue, task, armed>>

SendExpire ==
  /\ poll = "send"
  /\ queue' = Append(queue, MsgTimerExpire)
  /\ poll' = "wait"
  /\ UNCHANGED <<now, clients, heap, freed, task, kernel>>

-----------------------------------------------------------------------------
MsgTask ==
  \/ TakePush \/ TakeRemove \/ TakeExpire
  \/ ReadClient \/ StopClient \/ Call \/ PopNext
  \/ AddPoll \/ SetTime

PollTask == Wake \/ Disarm \/ RemovePoll \/ SendExpire

Next ==
  \/ Tick
  \/ \E c \in Clients : Start(c) \/ Stop(c)
  \/ MsgTask
  \/ PollTask

Spec == Init /\ [][Next]_vars

\* Time goes on and both threads run.  No client has to start or stop.
Fairness == WF_vars(Tick) /\ WF_vars(MsgTask) /\ WF_vars(PollTask)

FairSpec == Spec /\ Fairness

-----------------------------------------------------------------------------
(* Properties                                                              *)

Stages == {"idle", "expire", "stop", "call", "pop", "addPoll", "setTime"}

InQueue(kind) == {queue[i].timer : i \in {j \in DOMAIN queue : queue[j].kind = kind}}

\* A delegate that is deleted is nowhere any more: "all timers are deleted here,
\* and only here" (MsgTimerRemove), after the push and with no second remove.
NothingDangles ==
  /\ freed \cap (heap \cup InQueue("push") \cup InQueue("remove")) = {}
  /\ \A c \in Clients : timer[c] \notin freed
  /\ task.at = "expire" => task.timer \notin freed
  /\ \A i, j \in DOMAIN queue :
       queue[i] = queue[j] /\ queue[i].kind # "expire" => i = j

AtRest == task.at = "idle" /\ queue = <<>>

\* When all messages are handled, what is in the heap and what is not deleted is
\* what runs (add, remove and stop).
NothingLeaks ==
  AtRest =>
    LET running == {timer[c] : c \in Clients} \ {0}
    IN heap = running /\ freed = (1..starts) \ running

\* ... and the kernel waits for the soonest, however its calls have crossed
\* (updateSoonestTime against LocTimerContainer::expire).
SoonestIsArmed ==
  AtRest /\ poll = "wait" /\ heap # {} =>
    polled /\ \A d \in Soonest(heap) : armed = due[d]

\* A timer that is started is stopped or expires.
Expires ==
  \A c \in Clients, d \in Delegates : timer[c] = d ~> timer[c] # d

=============================================================================
