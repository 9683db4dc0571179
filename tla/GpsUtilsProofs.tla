--------------------------- MODULE GpsUtilsProofs ---------------------------
(***************************************************************************)
(* The utilities of the location stack (gps/utils), each for itself: the   *)
(* queue of a message thread and the objects of that thread, the timers, and *)
(* the tree on which the timers are kept. The three share no variable here; *)
(* a LocTimer keeps its delegates on a heap of its own abstraction.        *)
(***************************************************************************)
EXTENDS MsgTask, LocTimer, LocHeap, FiniteSetTheorems, FunctionTheorems, TLAPS

-----------------------------------------------------------------------------
(***************************************************************************)
(* LocTimer. For any number of clients, starts and times: a delegate that is *)
(* deleted is used no more, none is forgotten, and the kernel waits for the *)
(* soonest.                                                                *)
(*                                                                         *)
(* A delegate is followed through the places it can be in: its client, a   *)
(* push and a remove in the queue (in this order), the heap, the hands of  *)
(* the MsgTask thread, and the deleted ones.                               *)
(***************************************************************************)

Msgs == [kind : {"push", "remove"}, timer : Delegates] \cup {MsgTimerExpire}

Tasks == [at : Stages, timer : 0..MaxStarts, client : Clients \cup {NoClient}, time : Nat]

TypeInv ==
  /\ now \in Nat
  /\ starts \in 0..MaxStarts
  /\ timer \in [Clients -> 0..MaxStarts]
  /\ client \in [Delegates -> Clients \cup {NoClient}]
  /\ due \in [Delegates -> Nat]
  /\ heap \subseteq Delegates
  /\ freed \subseteq Delegates
  /\ queue \in Seq(Msgs)
  /\ task \in Tasks
  /\ task.at = "expire" => task.timer \in Delegates
  /\ task.at = "stop" => task.client \in Clients
  /\ armed \in Nat
  /\ polled \in BOOLEAN
  /\ poll \in {"wait", "disarm", "removePoll", "send"}

-----------------------------------------------------------------------------
(* Messages about a delegate                                               *)

\* The delegates that q has a message of this kind about.
Of(q, kind) == {q[i].timer : i \in {j \in DOMAIN q : q[j].kind = kind}}

\* No message about a delegate comes twice, and its push comes before its remove.
PushFirst(q) ==
  /\ \A i, j \in DOMAIN q : q[i] = q[j] /\ q[i].kind # "expire" => i = j
  /\ \A i, j \in DOMAIN q :
       q[i].kind = "push" /\ q[j].kind = "remove" /\ q[i].timer = q[j].timer => i < j

HasExpire(q) == \E i \in DOMAIN q : q[i].kind = "expire"

LEMMA AppendMsg ==
  ASSUME NEW q \in Seq(Msgs), NEW m \in Msgs
  PROVE  /\ Append(q, m) \in Seq(Msgs)
         /\ Len(q) \in Nat /\ DOMAIN q = 1..Len(q)
         /\ DOMAIN Append(q, m) = 1..(Len(q) + 1)
         /\ \A i \in DOMAIN q : Append(q, m)[i] = q[i] /\ q[i] \in Msgs
         /\ Append(q, m)[Len(q) + 1] = m
OBVIOUS

LEMMA AppendOf ==
  ASSUME NEW q \in Seq(Msgs), NEW m \in Msgs, NEW kind
  PROVE  /\ m.kind = kind => Of(Append(q, m), kind) = Of(q, kind) \cup {m.timer}
         /\ m.kind # kind => Of(Append(q, m), kind) = Of(q, kind)
BY AppendMsg DEF Of

LEMMA AppendExpire ==
  ASSUME NEW q \in Seq(Msgs), NEW m \in Msgs
  PROVE  HasExpire(Append(q, m)) <=> HasExpire(q) \/ m.kind = "expire"
BY AppendMsg DEF HasExpire

LEMMA AppendPushFirst ==
  ASSUME NEW q \in Seq(Msgs), PushFirst(q), NEW m \in Msgs,
         m.kind # "expire" => m.timer \notin Of(q, m.kind),
         m.kind = "push" => m.timer \notin Of(q, "remove")
  PROVE  PushFirst(Append(q, m))
<1>1. ASSUME NEW i \in DOMAIN q
      PROVE  /\ q[i] = m => m.kind = "expire"
             /\ ~(m.kind = "push" /\ q[i].kind = "remove" /\ q[i].timer = m.timer)
  BY DEF Of
<1>2. QED
  BY <1>1, AppendMsg DEF PushFirst

LEMMA TailMsg ==
  ASSUME NEW q \in Seq(Msgs), q # <<>>, PushFirst(q)
  PROVE  LET m == Head(q) IN
         /\ m \in Msgs /\ Tail(q) \in Seq(Msgs) /\ PushFirst(Tail(q))
         /\ m.timer \in Of(q, m.kind)
         /\ \A kind : kind # m.kind => Of(Tail(q), kind) = Of(q, kind)
         /\ m.kind # "expire" => Of(Tail(q), m.kind) = Of(q, m.kind) \ {m.timer}
         /\ m.kind = "remove" => m.timer \notin Of(q, "push")
         /\ m.kind # "expire" => (HasExpire(Tail(q)) <=> HasExpire(q))
         /\ HasExpire(Tail(q)) => HasExpire(q)
<1> DEFINE m == Head(q)
<1>1. /\ m \in Msgs /\ m = q[1] /\ Tail(q) \in Seq(Msgs)
      /\ Len(q) \in Nat \ {0} /\ DOMAIN q = 1..Len(q)
      /\ DOMAIN Tail(q) = 1..(Len(q) - 1)
      /\ \A i \in DOMAIN q : q[i] \in Msgs
      /\ \A i \in DOMAIN Tail(q) : Tail(q)[i] = q[i + 1] /\ i + 1 \in DOMAIN q
      /\ \A i \in DOMAIN q : i = 1 \/ (i - 1 \in DOMAIN Tail(q) /\ q[i] = Tail(q)[i - 1])
  OBVIOUS
<1>2. PushFirst(Tail(q))
  <2> SUFFICES ASSUME NEW i \in DOMAIN Tail(q), NEW j \in DOMAIN Tail(q)
               PROVE  /\ q[i + 1] = q[j + 1] /\ q[i + 1].kind # "expire" => i = j
                      /\ q[i + 1].kind = "push" /\ q[j + 1].kind = "remove"
                           /\ q[i + 1].timer = q[j + 1].timer => i < j
    BY <1>1 DEF PushFirst
  <2>1. i \in Nat /\ j \in Nat /\ i + 1 \in DOMAIN q /\ j + 1 \in DOMAIN q
    BY <1>1
  <2>2. /\ q[i + 1] = q[j + 1] /\ q[i + 1].kind # "expire" => i + 1 = j + 1
        /\ q[i + 1].kind = "push" /\ q[j + 1].kind = "remove"
             /\ q[i + 1].timer = q[j + 1].timer => i + 1 < j + 1
    BY <2>1 DEF PushFirst
  <2>3. QED
    BY <2>1, <2>2
<1>3. m.timer \in Of(q, m.kind)
  BY <1>1 DEF Of
<1>4. ASSUME NEW kind
      PROVE  /\ Of(Tail(q), kind) \subseteq Of(q, kind)
             /\ m.kind = kind => Of(q, kind) \subseteq Of(Tail(q), kind) \cup {m.timer}
             /\ m.kind # kind => Of(q, kind) \subseteq Of(Tail(q), kind)
  <2>1. Of(Tail(q), kind) \subseteq Of(q, kind)
    BY <1>1 DEF Of
  <2>2. ASSUME NEW d \in Of(q, kind)
        PROVE  d \in Of(Tail(q), kind) \/ (m.kind = kind /\ d = m.timer)
    BY <1>1 DEF Of
  <2>3. QED
    BY <2>1, <2>2
<1>5. m.kind # "expire" => m.timer \notin Of(Tail(q), m.kind)
  <2> SUFFICES ASSUME m.kind # "expire", NEW i \in DOMAIN Tail(q),
                      Tail(q)[i].kind = m.kind, Tail(q)[i].timer = m.timer
               PROVE  FALSE
    BY DEF Of
  <2>1. q[i + 1] = q[1] /\ q[1].kind # "expire" /\ i + 1 \in DOMAIN q /\ 1 \in DOMAIN q
    BY <1>1 DEF Msgs, MsgTimerExpire
  <2>2. i + 1 = 1
    BY <2>1 DEF PushFirst
  <2>3. QED
    BY <1>1, <2>2
<1>6. m.kind = "remove" => m.timer \notin Of(q, "push")
  <2> SUFFICES ASSUME m.kind = "remove", NEW i \in DOMAIN q,
                      q[i].kind = "push", q[i].timer = m.timer
               PROVE  FALSE
    BY DEF Of
  <2>1. i < 1
    BY <1>1 DEF PushFirst
  <2>2. QED
    BY <1>1, <2>1
<1>7. /\ m.kind # "expire" => (HasExpire(Tail(q)) <=> HasExpire(q))
      /\ HasExpire(Tail(q)) => HasExpire(q)
  BY <1>1 DEF HasExpire
<1>8. ASSUME NEW kind, kind # m.kind
      PROVE  Of(Tail(q), kind) = Of(q, kind)
  <2>1. /\ Of(Tail(q), kind) \subseteq Of(q, kind)
        /\ Of(q, kind) \subseteq Of(Tail(q), kind)
    BY <1>4, <1>8
  <2>2. QED
    BY <2>1
<1>9. m.kind # "expire" => Of(Tail(q), m.kind) = Of(q, m.kind) \ {m.timer}
  BY <1>4, <1>5
<1>10. QED
  BY <1>1, <1>2, <1>3, <1>6, <1>7, <1>8, <1>9

-----------------------------------------------------------------------------
(* Types                                                                   *)

LEMMA MsgTypes ==
  /\ \A d \in Delegates : MsgTimerPush(d) \in Msgs /\ MsgTimerRemove(d) \in Msgs
  /\ MsgTimerExpire \in Msgs
BY DEF MsgTimerPush, MsgTimerRemove, Msgs

LEMMA TypeInit == Init => TypeInv
<1> SUFFICES ASSUME Init
             PROVE  TypeInv
  OBVIOUS
<1> USE TimerAssumption
<1>1. task \in Tasks
  BY DEF Init, IdleTask, AtStage, Stages, Tasks
<1>2. queue \in Seq(Msgs)
  BY DEF Init
<1>3. task.at = "idle"
  BY DEF Init, IdleTask, AtStage
<1>4. timer \in [Clients -> 0..MaxStarts] /\ starts \in 0..MaxStarts
  BY DEF Init
<1>5. QED
  BY <1>1, <1>2, <1>3, <1>4 DEF Init, TypeInv

LEMMA StopTypes ==
  ASSUME TypeInv, NEW c \in Clients, StopLocked(c)
  PROVE  /\ timer[c] \in Delegates
         /\ timer' \in [Clients -> 0..MaxStarts]
         /\ client' \in [Delegates -> Clients \cup {NoClient}]
         /\ queue' \in Seq(Msgs)
<1> USE TimerAssumption
<1>1. timer[c] \in Delegates
  BY DEF TypeInv, StopLocked, Delegates
<1>2. queue' \in Seq(Msgs)
  BY <1>1, MsgTypes, AppendMsg DEF TypeInv, StopLocked
<1>3. QED
  BY <1>1, <1>2 DEF TypeInv, StopLocked

LEMMA UpdateTypes ==
  ASSUME TypeInv, NEW set \in SUBSET Delegates, Update(set)
  PROVE  /\ task' \in Tasks
         /\ task'.at \in {"idle", "addPoll"}
<1> USE TimerAssumption
<1>1. CASE set = {}
  BY <1>1 DEF Update, IdleTask, AtStage, Stages, Tasks
<1>2. CASE set # {}
  <2>1. PICK d \in set : task' = AtStage("addPoll", d, NoClient, due[d])
    BY <1>2 DEF Update, Soonest
  <2>2. due[d] \in Nat /\ d \in 0..MaxStarts
    BY DEF TypeInv, Delegates
  <2>3. QED
    BY <2>1, <2>2 DEF AtStage, Stages, Tasks
<1>3. QED
  BY <1>1, <1>2

LEMMA PopTypes ==
  ASSUME TypeInv, NEW time \in Nat, Pop(time)
  PROVE  /\ task' \in Tasks /\ task'.at = "expire" /\ task'.timer \in Delegates
         /\ heap' \subseteq Delegates
<1> USE TimerAssumption
<1>1. PICK d \in heap : heap' = heap \ {d} /\ task' = AtStage("expire", d, NoClient, time)
  BY DEF Pop, Soonest
<1>2. d \in Delegates /\ d \in 0..MaxStarts
  BY DEF TypeInv, Delegates
<1>3. QED
  BY <1>1, <1>2 DEF AtStage, Stages, Tasks, TypeInv

LEMMA TypeStep == TypeInv /\ [Next]_vars => TypeInv'
<1> SUFFICES ASSUME TypeInv, [Next]_vars
             PROVE  TypeInv'
  OBVIOUS
<1> USE TimerAssumption
<1> USE DEF TypeInv, clients, kernel
<1>1. CASE Tick
  BY <1>1 DEF Tick
<1>2. ASSUME NEW c \in Clients, Start(c)
      PROVE  TypeInv'
  <2>1. starts' \in Delegates /\ starts' \in 0..MaxStarts /\ starts' = starts + 1
    BY <1>2 DEF Start, Delegates
  <2>2. queue' \in Seq(Msgs)
    BY <1>2, <2>1, MsgTypes, AppendMsg DEF Start
  <2>3. due' \in [Delegates -> Nat]
    BY <1>2, <2>1 DEF Start
  <2>4. QED
    BY <1>2, <2>1, <2>2, <2>3 DEF Start
<1>3. ASSUME NEW c \in Clients, Stop(c)
      PROVE  TypeInv'
  BY <1>3, StopTypes DEF Stop, StopLocked
<1>4. ASSUME queue # <<>>, queue' = Tail(queue)
      PROVE  queue' \in Seq(Msgs) /\ Head(queue) \in Msgs
  BY <1>4
<1>5. CASE TakePush
  <2>1. Head(queue).timer \in Delegates
    BY <1>4, <1>5 DEF TakePush, Takes, Msgs, MsgTimerExpire
  <2>2. task' = task \/ (task' \in Tasks /\ task'.at \in {"idle", "addPoll"})
    BY <1>5, <2>1, UpdateTypes DEF TakePush
  <2>3. QED
    BY <1>4, <1>5, <2>1, <2>2 DEF TakePush, Takes
<1>6. CASE TakeRemove
  <2>1. Head(queue).timer \in Delegates
    BY <1>4, <1>6 DEF TakeRemove, Takes, Msgs, MsgTimerExpire
  <2>2. heap' \in SUBSET Delegates
    BY <1>6, <2>1 DEF TakeRemove
  <2>3. task' = task \/ (task' \in Tasks /\ task'.at \in {"idle", "addPoll"})
    BY <1>6, <2>2, UpdateTypes DEF TakeRemove
  <2>4. QED
    BY <1>4, <1>6, <2>1, <2>2, <2>3 DEF TakeRemove, Takes
<1>7. CASE TakeExpire
  <2>1. CASE heap = {}
    BY <1>4, <1>7, <2>1 DEF TakeExpire, Takes
  <2>2. CASE heap # {}
    BY <1>4, <1>7, <2>2, PopTypes DEF TakeExpire, Takes
  <2>3. QED
    BY <2>1, <2>2
<1>8. CASE ReadClient
  <2>1. client[task.timer] \in Clients \cup {NoClient}
    BY <1>8 DEF ReadClient
  <2>2. /\ task' \in Tasks /\ task'.at \in {"pop", "stop"}
        /\ task'.at = "stop" => task'.client \in Clients
    BY <1>8, <2>1 DEF ReadClient, Tasks, Stages
  <2>3. QED
    BY <1>8, <2>2 DEF ReadClient
<1>9. CASE StopClient
  <2> DEFINE c == task.client
  <2>1. c \in Clients
    BY <1>9 DEF StopClient
  <2>2. CASE /\ StopLocked(c)
             /\ task' = [task EXCEPT !.at = "call", !.timer = timer[c]]
    <3>1. task' \in Tasks /\ task'.at = "call"
      BY <2>1, <2>2 DEF Tasks, Stages
    <3>2. QED
      BY <1>9, <2>1, <2>2, <3>1, StopTypes DEF StopClient, StopLocked
  <2>3. CASE task' = [task EXCEPT !.at = "pop"] /\ UNCHANGED <<clients, queue>>
    <3>1. task' \in Tasks /\ task'.at = "pop"
      BY <2>3 DEF Tasks, Stages
    <3>2. QED
      BY <1>9, <2>3, <3>1 DEF StopClient
  <2>4. QED
    BY <1>9, <2>2, <2>3 DEF StopClient
<1>10. CASE Call
  <2>1. task' \in Tasks /\ task'.at = "pop"
    BY <1>10 DEF Call, Tasks, Stages
  <2>2. QED
    BY <1>10, <2>1 DEF Call
<1>11. CASE PopNext
  <2>1. task.time \in Nat
    BY DEF Tasks
  <2>2. CASE Pop(task.time)
    BY <1>11, <2>1, <2>2, PopTypes DEF PopNext
  <2>3. CASE Update(heap) /\ UNCHANGED heap
    BY <1>11, <2>3, UpdateTypes DEF PopNext
  <2>4. QED
    BY <1>11, <2>2, <2>3 DEF PopNext
<1>12. CASE AddPoll
  <2>1. task' \in Tasks /\ task'.at = "setTime"
    BY <1>12 DEF AddPoll, Tasks, Stages
  <2>2. QED
    BY <1>12, <2>1 DEF AddPoll
<1>13. CASE SetTime
  <2>1. task' \in Tasks /\ task'.at = "idle" /\ task.time \in Nat
    BY <1>13 DEF SetTime, Tasks, Stages, IdleTask, AtStage
  <2>2. QED
    BY <1>13, <2>1 DEF SetTime
<1>14. CASE Wake \/ Disarm \/ RemovePoll
  <2>1. CASE Wake
    BY <2>1 DEF Wake
  <2>2. CASE Disarm
    BY <2>2 DEF Disarm
  <2>3. CASE RemovePoll
    BY <2>3 DEF RemovePoll
  <2>4. QED
    BY <1>14, <2>1, <2>2, <2>3
<1>15. CASE SendExpire
  <2>1. queue' \in Seq(Msgs)
    BY <1>15, MsgTypes, AppendMsg DEF SendExpire
  <2>2. QED
    BY <1>15, <2>1 DEF SendExpire
<1>16. CASE UNCHANGED vars
  BY <1>16 DEF vars
<1>17. QED
  BY <1>1, <1>2, <1>3, <1>5, <1>6, <1>7, <1>8, <1>9, <1>10, <1>11, <1>12, <1>13, <1>14,
     <1>15, <1>16 DEF Next, MsgTask, PollTask

-----------------------------------------------------------------------------
(* The life of a delegate                                                  *)

Pushes  == Of(queue, "push")
Removes == Of(queue, "remove")

\* The MsgTask thread has popped delegate d, and has yet to look at its client.
Popped(d) == task.at = "expire" /\ task.timer = d

\* It is about to stop what runs for client c.
Stopping(c) == task.at = "stop" /\ task.client = c

\* A client and its delegate point at each other. A delegate whose remove is queued or
\* handled has no client, and one that is deleted is nowhere else: its push has been
\* handled, so that it comes into the heap no more, and it is not in the thread's hands.
LifeInv ==
  /\ \A c \in Clients : timer[c] \in 0..starts /\ (timer[c] # 0 => client[timer[c]] = c)
  /\ \A d \in Delegates : client[d] # NoClient => d <= starts /\ timer[client[d]] = d
  /\ Pushes \cup Removes \cup heap \cup freed \subseteq 1..starts
  /\ \A d \in Delegates : Popped(d) => d <= starts /\ d \notin freed
  /\ \A d \in Pushes : d \notin heap /\ d \notin freed /\ ~Popped(d)
  /\ \A d \in Removes \cup freed : client[d] = NoClient
  /\ freed \cap (Removes \cup heap) = {}
  /\ PushFirst(queue)

\* No delegate is forgotten: one that has no client will be deleted, and one that has will
\* expire, or is about to be stopped.
KeptInv ==
  /\ \A d \in 1..starts : client[d] = NoClient => d \in Removes \cup freed
  /\ \A c \in Clients : timer[c] # 0 =>
       \/ timer[c] \in Pushes \cup heap \/ Popped(timer[c])
       \/ Stopping(c)

LifeKept == TypeInv /\ LifeInv /\ KeptInv

LEMMA LifeInit == Init => LifeInv /\ KeptInv
<1> SUFFICES ASSUME Init
             PROVE  LifeInv /\ KeptInv
  OBVIOUS
<1>1. /\ starts = 0 /\ heap = {} /\ freed = {} /\ queue = <<>> /\ task.at = "idle"
      /\ timer = [c \in Clients |-> 0] /\ client = [d \in Delegates |-> NoClient]
  BY DEF Init, IdleTask, AtStage
<1>2. Pushes = {} /\ Removes = {} /\ PushFirst(queue)
  BY <1>1 DEF Pushes, Removes, Of, PushFirst
<1>3. QED
  BY <1>1, <1>2 DEF LifeInv, KeptInv, Popped, Stopping

\* StopLocked cuts a delegate off and has it removed.
LEMMA StopMoves ==
  ASSUME TypeInv, LifeInv, NEW c \in Clients, StopLocked(c)
  PROVE  LET d == timer[c] IN
         /\ d \in Delegates /\ d \in 1..starts
         /\ timer' = [timer EXCEPT ![c] = 0]
         /\ client' = [client EXCEPT ![d] = NoClient]
         /\ d \notin freed /\ d \notin Removes
         /\ Pushes' = Pushes /\ Removes' = Removes \cup {d}
         /\ PushFirst(queue')
         /\ starts' = starts
<1> DEFINE d == timer[c]
<1>1. /\ timer' = [timer EXCEPT ![c] = 0] /\ client' = [client EXCEPT ![d] = NoClient]
      /\ queue' = Append(queue, MsgTimerRemove(d)) /\ d # 0 /\ starts' = starts
  BY DEF StopLocked
<1>2. d \in Delegates /\ d \in 1..starts
  BY <1>1, StopTypes DEF LifeInv, Delegates
<1>3. client[d] # NoClient
  BY <1>1, TimerAssumption DEF LifeInv
<1>4. d \notin Removes /\ d \notin freed
  BY <1>3 DEF LifeInv
<1>5. /\ MsgTimerRemove(d) \in Msgs /\ MsgTimerRemove(d).kind = "remove"
      /\ MsgTimerRemove(d).timer = d
      /\ queue \in Seq(Msgs) /\ PushFirst(queue)
  BY <1>2, MsgTypes DEF MsgTimerRemove, TypeInv, LifeInv
<1>6. Pushes' = Pushes /\ Removes' = Removes \cup {d}
  <2>1. /\ Of(Append(queue, MsgTimerRemove(d)), "push") = Of(queue, "push")
        /\ Of(Append(queue, MsgTimerRemove(d)), "remove") = Of(queue, "remove") \cup {d}
    BY <1>5, AppendOf
  <2>2. QED
    BY <1>1, <2>1 DEF Pushes, Removes
<1>7. PushFirst(queue')
  <2>1. d \notin Of(queue, MsgTimerRemove(d).kind)
    BY <1>4, <1>5 DEF Removes
  <2>2. PushFirst(Append(queue, MsgTimerRemove(d)))
    BY <1>5, <2>1, AppendPushFirst
  <2>3. QED
    BY <1>1, <2>2
<1>8. QED
  BY <1>1, <1>2, <1>4, <1>6, <1>7

LEMMA TakesMoves ==
  ASSUME TypeInv, LifeInv, NEW kind \in {"push", "remove", "expire"}, Takes(kind)
  PROVE  LET d == Head(queue).timer IN
         /\ task.at = "idle" /\ PushFirst(queue')
         /\ kind = "push" => d \in Pushes /\ Pushes' = Pushes \ {d} /\ Removes' = Removes
         /\ kind = "remove" =>
              d \in Removes /\ d \notin Pushes /\ Pushes' = Pushes /\ Removes' = Removes \ {d}
         /\ kind = "expire" => Pushes' = Pushes /\ Removes' = Removes
         /\ HasExpire(queue') => HasExpire(queue)
         /\ kind # "expire" => (HasExpire(queue') <=> HasExpire(queue))
<1>1. /\ task.at = "idle" /\ queue # <<>> /\ queue' = Tail(queue) /\ Head(queue).kind = kind
      /\ queue \in Seq(Msgs) /\ PushFirst(queue)
  BY DEF Takes, TypeInv, LifeInv
<1>2. QED
  BY <1>1, TailMsg DEF Pushes, Removes

LEMMA UpdateMoves ==
  ASSUME NEW set, Update(set)
  PROVE  /\ task'.at \in {"idle", "addPoll"}
         /\ task'.at = "idle" => set = {}
         /\ task'.at = "addPoll" =>
              \E d \in set : task'.time = due[d] /\ \A e \in set : due[d] <= due[e]
BY DEF Update, Soonest, AtStage, IdleTask

LEMMA PopMoves ==
  ASSUME NEW time, Pop(time)
  PROVE  \E d \in heap : heap' = heap \ {d} /\ task'.at = "expire" /\ task'.timer = d
BY DEF Pop, Soonest, AtStage

LEMMA LifeStep == LifeKept /\ [Next]_vars => LifeInv' /\ KeptInv'
<1> SUFFICES ASSUME LifeKept, [Next]_vars
             PROVE  LifeInv' /\ KeptInv'
  OBVIOUS
<1> USE TimerAssumption
<1> USE DEF LifeKept, LifeInv, KeptInv, Popped, Stopping
<1>0. /\ heap \subseteq Delegates /\ freed \subseteq Delegates /\ starts \in Nat
      /\ DOMAIN timer = Clients /\ DOMAIN client = Delegates
      /\ 1..starts \subseteq Delegates
  BY DEF TypeInv, Delegates
<1>1. ASSUME UNCHANGED <<starts, timer, client, heap, freed, Pushes, Removes>>,
             PushFirst(queue'),
             \A d \in Delegates : Popped(d)' <=> Popped(d),
             \A c \in Clients : Stopping(c) => Stopping(c)'
      PROVE  LifeInv' /\ KeptInv'
  <2>1. LifeInv'
    <3>1. /\ \A d \in Delegates : Popped(d)' => d <= starts /\ d \notin freed
          /\ \A d \in Pushes : ~Popped(d)'
      BY <1>0, <1>1
    <3>2. QED
      BY <1>1, <3>1
  <2>2. KeptInv'
    BY <1>0, <1>1
  <2>3. QED
    BY <2>1, <2>2
<1>2. ASSUME NEW c \in Clients, Start(c)
      PROVE  LifeInv' /\ KeptInv'
  <2> DEFINE d == starts + 1
  <2>1. /\ timer[c] = 0 /\ starts' = d /\ d \in Delegates /\ d \notin 1..starts
        /\ timer' = [timer EXCEPT ![c] = d] /\ client' = [client EXCEPT ![d] = c]
        /\ queue' = Append(queue, MsgTimerPush(d)) /\ UNCHANGED <<heap, freed, task>>
    BY <1>0, <1>2 DEF Start, TypeInv, Delegates
  <2>2. /\ MsgTimerPush(d) \in Msgs /\ MsgTimerPush(d).kind = "push" /\ MsgTimerPush(d).timer = d
        /\ queue \in Seq(Msgs) /\ PushFirst(queue)
    BY <2>1, MsgTypes DEF MsgTimerPush, TypeInv
  <2>3. d \notin Pushes /\ d \notin Removes /\ d \notin heap /\ d \notin freed /\ ~Popped(d)
    BY <1>0, <2>1
  <2>4. Pushes' = Pushes \cup {d} /\ Removes' = Removes
    <3>1. /\ Of(Append(queue, MsgTimerPush(d)), "push") = Of(queue, "push") \cup {d}
          /\ Of(Append(queue, MsgTimerPush(d)), "remove") = Of(queue, "remove")
      BY <2>2, AppendOf
    <3>2. QED
      BY <2>1, <3>1 DEF Pushes, Removes
  <2>5. PushFirst(queue')
    <3>1. d \notin Of(queue, MsgTimerPush(d).kind) /\ d \notin Of(queue, "remove")
      BY <2>2, <2>3 DEF Pushes, Removes
    <3>2. PushFirst(Append(queue, MsgTimerPush(d)))
      BY <2>2, <3>1, AppendPushFirst
    <3>3. QED
      BY <2>1, <3>2
  <2>6. LifeInv'
    <3>1. ASSUME NEW e \in Clients
          PROVE  timer'[e] \in 0..starts' /\ (timer'[e] # 0 => client'[timer'[e]] = e)
      BY <1>0, <2>1
    <3>2. ASSUME NEW e \in Delegates, client'[e] # NoClient
          PROVE  e <= starts' /\ timer'[client'[e]] = e
      <4>1. CASE e = d
        BY <1>0, <2>1, <4>1
      <4>2. CASE e # d
        <5>1. client'[e] = client[e] /\ client[e] \in Clients /\ client[e] # c
          BY <1>0, <2>1, <3>2, <4>2 DEF TypeInv, Delegates
        <5>2. QED
          BY <1>0, <2>1, <3>2, <4>2, <5>1
      <4>3. QED
        BY <4>1, <4>2
    <3>3. (Pushes \cup Removes \cup heap \cup freed \subseteq 1..starts)'
      BY <1>0, <2>1, <2>4
    <3>4. \A e \in Removes' \cup freed' : client'[e] = NoClient
      BY <1>0, <2>1, <2>3, <2>4
    <3>5. \A e \in Delegates : Popped(e)' => e <= starts' /\ e \notin freed'
      BY <1>0, <2>1 DEF Delegates
    <3>6. \A e \in Pushes' : e \notin heap' /\ e \notin freed' /\ ~Popped(e)'
      BY <2>1, <2>3, <2>4
    <3>7. (freed \cap (Removes \cup heap) = {})'
      BY <2>1, <2>4
    <3>8. QED
      BY <2>5, <3>1, <3>2, <3>3, <3>4, <3>5, <3>6, <3>7
  <2>7. KeptInv'
    BY <1>0, <2>1, <2>4
  <2>8. QED
    BY <2>6, <2>7
<1>3. ASSUME NEW c \in Clients, StopLocked(c), UNCHANGED <<heap, freed>>,
             \A d \in Delegates : Popped(d)' <=> Popped(d),
             \A e \in Clients : e # c /\ Stopping(e) => Stopping(e)'
      PROVE  LifeInv' /\ KeptInv'
  <2> DEFINE d == timer[c]
  <2>1. /\ d \in 1..starts /\ timer' = [timer EXCEPT ![c] = 0]
        /\ client' = [client EXCEPT ![d] = NoClient]
        /\ d \notin freed /\ d \notin Removes /\ UNCHANGED <<starts, heap, freed>>
        /\ Pushes' = Pushes /\ Removes' = Removes \cup {d} /\ PushFirst(queue')
    BY <1>3, StopMoves
  <2>2. LifeInv'
    <3>1. ASSUME NEW e \in Clients
          PROVE  timer'[e] \in 0..starts' /\ (timer'[e] # 0 => client'[timer'[e]] = e)
      BY <1>0, <2>1
    <3>2. ASSUME NEW e \in Delegates, client'[e] # NoClient
          PROVE  e <= starts' /\ timer'[client'[e]] = e
      <4>1. e # d /\ client'[e] = client[e] /\ client[e] \in Clients /\ client[e] # c
        BY <1>0, <2>1, <3>2 DEF TypeInv
      <4>2. QED
        BY <1>0, <2>1, <4>1
    <3>3. (Pushes \cup Removes \cup heap \cup freed \subseteq 1..starts)'
      BY <2>1
    <3>4. \A e \in Removes' \cup freed' : client'[e] = NoClient
      BY <1>0, <2>1
    <3>5. \A e \in Delegates : Popped(e)' => e <= starts' /\ e \notin freed'
      BY <1>3, <2>1
    <3>6. \A e \in Pushes' : e \notin heap' /\ e \notin freed' /\ ~Popped(e)'
      BY <1>0, <1>3, <2>1
    <3>7. (freed \cap (Removes \cup heap) = {})'
      BY <2>1
    <3>8. QED
      BY <2>1, <3>1, <3>2, <3>3, <3>4, <3>5, <3>6, <3>7
  <2>3. KeptInv'
    <3>1. \A e \in 1..starts' : client'[e] = NoClient => e \in Removes' \cup freed'
      BY <1>0, <2>1
    <3>2. ASSUME NEW e \in Clients, timer'[e] # 0
          PROVE  (timer[e] \in Pushes \cup heap \/ Popped(timer[e]) \/ Stopping(e))'
      <4>1. e # c /\ timer'[e] = timer[e] /\ timer[e] \in Delegates
        BY <1>0, <2>1, <3>2
      <4>2. QED
        BY <1>3, <2>1, <3>2, <4>1
    <3>3. QED
      BY <3>1, <3>2
  <2>4. QED
    BY <2>2, <2>3
<1>4. ASSUME UNCHANGED task
      PROVE  /\ \A d \in Delegates : Popped(d)' <=> Popped(d)
             /\ \A c \in Clients : Stopping(c)' <=> Stopping(c)
  BY <1>4
<1>5. UNCHANGED queue => UNCHANGED <<Pushes, Removes>> /\ PushFirst(queue')
  BY DEF Pushes, Removes
<1>6. CASE Tick
  BY <1>1, <1>4, <1>5, <1>6 DEF Tick, clients
<1>7. ASSUME NEW c \in Clients, Stop(c)
      PROVE  LifeInv' /\ KeptInv'
  BY <1>3, <1>4, <1>7 DEF Stop
<1>8. CASE TakePush
  <2> DEFINE d == Head(queue).timer
  <2>1. /\ task.at = "idle" /\ PushFirst(queue')
        /\ d \in Pushes /\ Pushes' = Pushes \ {d} /\ Removes' = Removes
    BY <1>8, TakesMoves DEF TakePush
  <2>2. /\ UNCHANGED <<starts, timer, client, freed>> /\ heap' = heap \cup {d}
        /\ task'.at \in {"idle", "addPoll"}
    BY <1>8, <2>1, UpdateMoves DEF TakePush, clients
  <2>3. QED
    BY <1>0, <2>1, <2>2
<1>9. CASE TakeRemove
  <2> DEFINE d == Head(queue).timer
  <2>1. /\ task.at = "idle" /\ PushFirst(queue')
        /\ d \in Removes /\ d \notin Pushes /\ Pushes' = Pushes /\ Removes' = Removes \ {d}
    BY <1>9, TakesMoves DEF TakeRemove
  <2>2. /\ UNCHANGED <<starts, timer, client>> /\ heap' = heap \ {d} /\ freed' = freed \cup {d}
        /\ task'.at \in {"idle", "addPoll"}
    BY <1>9, <2>1, UpdateMoves DEF TakeRemove, clients
  <2>3. QED
    BY <1>0, <2>1, <2>2
\* A delegate that is popped comes out of the heap.
<1>10. ASSUME UNCHANGED <<starts, timer, client, freed, Pushes, Removes>>, PushFirst(queue'),
              task.at \in {"idle", "pop"}, NEW d \in heap, heap' = heap \ {d},
              task'.at = "expire", task'.timer = d
       PROVE  LifeInv' /\ KeptInv'
  BY <1>0, <1>10
<1>11. CASE TakeExpire
  <2>1. /\ task.at = "idle" /\ PushFirst(queue') /\ UNCHANGED <<Pushes, Removes>>
        /\ UNCHANGED <<starts, timer, client, freed>>
    BY <1>11, TakesMoves DEF TakeExpire, clients
  <2>2. CASE heap = {}
    BY <1>1, <1>4, <1>11, <2>1, <2>2 DEF TakeExpire
  <2>3. CASE Pop(now)
    BY <1>10, <2>1, <2>3, PopMoves
  <2>4. QED
    BY <1>11, <2>2, <2>3 DEF TakeExpire
<1>12. CASE ReadClient
  <2>1. /\ UNCHANGED <<starts, timer, client, heap, freed>>
        /\ UNCHANGED <<Pushes, Removes>> /\ PushFirst(queue')
        /\ task.at = "expire" /\ task.timer \in Delegates
    BY <1>5, <1>12 DEF ReadClient, clients, TypeInv
  <2>2. /\ client[task.timer] = NoClient => task'.at = "pop"
        /\ client[task.timer] # NoClient => task'.at = "stop" /\ task'.client = client[task.timer]
    BY <1>12 DEF ReadClient, TypeInv, Tasks
  <2>3. LifeInv'
    BY <2>1, <2>2
  <2>4. KeptInv'
    BY <1>0, <2>1, <2>2
  <2>5. QED
    BY <2>3, <2>4
<1>13. CASE StopClient
  <2> DEFINE c == task.client
  <2>1. task.at = "stop" /\ c \in Clients /\ UNCHANGED <<heap, freed>>
    BY <1>13 DEF StopClient, TypeInv
  <2>2. CASE StopLocked(c) /\ task' = [task EXCEPT !.at = "call", !.timer = timer[c]]
    <3>1. task'.at = "call"
      BY <2>2 DEF TypeInv, Tasks
    <3>2. QED
      BY <1>3, <2>1, <2>2, <3>1
  <2>3. CASE /\ timer[c] = 0 /\ task' = [task EXCEPT !.at = "pop"]
             /\ UNCHANGED <<clients, queue>>
    <3>1. task'.at = "pop"
      BY <2>3 DEF TypeInv, Tasks
    <3>2. UNCHANGED <<starts, timer, client, Pushes, Removes>> /\ PushFirst(queue')
      BY <1>5, <2>3 DEF clients
    <3>3. QED
      BY <2>1, <2>3, <3>1, <3>2
  <2>4. QED
    BY <1>13, <2>2, <2>3 DEF StopClient
<1>14. CASE Call \/ AddPoll \/ SetTime
  <2>1. /\ UNCHANGED <<starts, timer, client, heap, freed, queue>>
        /\ task.at \notin {"expire", "stop"} /\ task'.at \notin {"expire", "stop"}
    BY <1>14 DEF Call, AddPoll, SetTime, clients, TypeInv, Tasks, IdleTask, AtStage
  <2>2. QED
    BY <1>1, <1>5, <2>1
<1>15. CASE PopNext
  <2>1. /\ UNCHANGED <<starts, timer, client, freed, queue>> /\ task.at = "pop"
    BY <1>15 DEF PopNext, clients
  <2>2. CASE Pop(task.time)
    BY <1>5, <1>10, <2>1, <2>2, PopMoves
  <2>3. CASE Update(heap) /\ UNCHANGED heap
    <3>1. task'.at \in {"idle", "addPoll"}
      BY <2>3, UpdateMoves
    <3>2. QED
      BY <1>1, <1>5, <2>1, <2>3, <3>1
  <2>4. QED
    BY <1>15, <2>2, <2>3 DEF PopNext
<1>16. CASE Wake \/ Disarm \/ RemovePoll
  <2>1. UNCHANGED <<starts, timer, client, heap, freed, queue, task>>
    BY <1>16 DEF Wake, Disarm, RemovePoll, clients
  <2>2. QED
    BY <1>1, <1>4, <1>5, <2>1
<1>17. CASE SendExpire
  <2>1. UNCHANGED <<starts, timer, client, heap, freed, task>>
        /\ queue' = Append(queue, MsgTimerExpire)
    BY <1>17 DEF SendExpire, clients
  <2>2. queue \in Seq(Msgs) /\ MsgTimerExpire \in Msgs /\ MsgTimerExpire.kind = "expire"
    BY MsgTypes DEF TypeInv, MsgTimerExpire
  <2>3. UNCHANGED <<Pushes, Removes>>
    BY <2>1, <2>2, AppendOf DEF Pushes, Removes
  <2>4. PushFirst(queue')
    <3>1. PushFirst(Append(queue, MsgTimerExpire))
      BY <2>2, AppendPushFirst
    <3>2. QED
      BY <2>1, <3>1
  <2>5. QED
    BY <1>1, <1>4, <2>1, <2>3, <2>4
<1>18. CASE UNCHANGED vars
  BY <1>1, <1>4, <1>5, <1>18 DEF vars, clients
<1>19. QED
  BY <1>2, <1>6, <1>7, <1>8, <1>9, <1>11, <1>12, <1>13, <1>14, <1>15, <1>16, <1>17, <1>18
     DEF Next, MsgTask, PollTask

-----------------------------------------------------------------------------
(* The kernel                                                              *)

\* An expiry is under way: it will be handled, and the kernel told what comes next.
Disturbed == poll # "wait" \/ HasExpire(queue)

SoonestAt(time) == \E d \in heap : due[d] = time /\ \A e \in heap : time <= due[e]

\* The MsgTask thread goes to the kernel with the time of the top, which stays the top until
\* it has been there.  Unless an expiry is under way, nobody takes it back.
KernelInv ==
  /\ task.at \in {"addPoll", "setTime"} => SoonestAt(task.time)
  /\ ~Disturbed =>
       /\ task.at = "idle" /\ heap # {} => polled /\ SoonestAt(armed)
       /\ task.at = "setTime" => polled

IInv == LifeKept /\ KernelInv

LEMMA KernelInit == Init => KernelInv
BY DEF Init, KernelInv, IdleTask, AtStage

LEMMA KernelStep == IInv /\ [Next]_vars => KernelInv'
<1> SUFFICES ASSUME IInv, [Next]_vars
             PROVE  KernelInv'
  OBVIOUS
<1> USE DEF KernelInv
<1>0. /\ TypeInv /\ LifeInv /\ KernelInv /\ heap \subseteq 1..starts /\ heap \subseteq Delegates
      /\ starts \in Nat /\ due \in [Delegates -> Nat] /\ armed \in Nat
      /\ Pushes \subseteq 1..starts /\ 1..starts \subseteq Delegates
  BY TimerAssumption DEF IInv, LifeKept, LifeInv, TypeInv, Delegates
<1>1. ASSUME UNCHANGED heap, \A d \in heap : due'[d] = due[d], NEW time
      PROVE  SoonestAt(time)' <=> SoonestAt(time)
  BY <1>1 DEF SoonestAt
\* Nothing the kernel is concerned with.
<1>2. ASSUME UNCHANGED <<heap, task, armed, polled>>, \A d \in heap : due'[d] = due[d],
             Disturbed => Disturbed'
      PROVE  KernelInv'
  <2>1. /\ (SoonestAt(task.time))' <=> SoonestAt(task.time)
        /\ (SoonestAt(armed))' <=> SoonestAt(armed)
    BY <1>2 DEF SoonestAt
  <2>2. QED
    BY <1>0, <1>2, <2>1
\* The poll thread has taken an expiry.
<1>3. ASSUME UNCHANGED <<heap, task, due>>, Disturbed'
      PROVE  KernelInv'
  <2>1. (SoonestAt(task.time))' <=> SoonestAt(task.time)
    BY <1>3 DEF SoonestAt
  <2>2. QED
    BY <1>0, <1>3, <2>1
\* The MsgTask thread is between an expiry and the next top.
<1>4. ASSUME task'.at \notin {"idle", "addPoll", "setTime"}
      PROVE  KernelInv'
  BY <1>4
\* It goes to the kernel with the new top.
<1>5. ASSUME Update(heap'), UNCHANGED due
      PROVE  KernelInv'
  <2>1. CASE task'.at = "idle"
    BY <1>5, <2>1, UpdateMoves
  <2>2. CASE task'.at = "addPoll"
    <3>1. (SoonestAt(task.time))'
      BY <1>5, <2>2, UpdateMoves DEF SoonestAt
    <3>2. QED
      BY <2>2, <3>1
  <2>3. QED
    BY <1>5, <2>1, <2>2, UpdateMoves
<1>6. CASE Tick
  BY <1>2, <1>6 DEF Tick, clients, kernel, Disturbed
<1>7. ASSUME NEW c \in Clients, Start(c)
      PROVE  KernelInv'
  <2>1. /\ UNCHANGED <<heap, task, armed, polled, poll>>
        /\ queue' = Append(queue, MsgTimerPush(starts'))
        /\ starts' = starts + 1
    BY <1>7 DEF Start, kernel
  <2>2. starts' \in Delegates /\ starts' \notin heap
    BY <1>0, <1>7, <2>1, TimerAssumption DEF Start, Delegates
  <2>3. \A d \in heap : due'[d] = due[d]
    BY <1>0, <1>7, <2>2, <2>1 DEF Start
  <2>4. HasExpire(queue) => HasExpire(queue')
    BY <1>0, <2>2, <2>1, MsgTypes, AppendExpire DEF TypeInv
  <2>5. QED
    BY <1>2, <2>1, <2>3, <2>4 DEF Disturbed
<1>8. ASSUME NEW c \in Clients, Stop(c)
      PROVE  KernelInv'
  <2>1. /\ UNCHANGED <<heap, task, armed, polled, poll, due>>
        /\ queue' = Append(queue, MsgTimerRemove(timer[c])) /\ timer[c] \in Delegates
    BY <1>0, <1>8, StopTypes DEF Stop, StopLocked, kernel
  <2>2. HasExpire(queue) => HasExpire(queue')
    BY <1>0, <2>1, MsgTypes, AppendExpire DEF TypeInv
  <2>3. QED
    BY <1>2, <2>1, <2>2 DEF Disturbed
<1>9. CASE TakePush
  <2> DEFINE d == Head(queue).timer
  <2>1. /\ UNCHANGED <<due, armed, polled, poll>> /\ heap' = heap \cup {d}
        /\ task.at = "idle" /\ (HasExpire(queue') <=> HasExpire(queue))
        /\ d \in Pushes
    BY <1>0, <1>9, TakesMoves DEF TakePush, clients, kernel
  <2>2. due[d] \in Nat /\ \A e \in heap : due[e] \in Nat
    BY <1>0, <2>1
  <2>3. CASE (\A e \in heap : due[d] < due[e]) /\ Update({d})
    <3>1. task'.at = "addPoll" /\ task'.time = due[d]
      BY <2>3, UpdateMoves
    <3>2. \A e \in heap' : due[d] <= due[e]
      BY <2>2, <2>1, <2>3
    <3>3. (SoonestAt(task.time))'
      BY <2>1, <3>1, <3>2 DEF SoonestAt
    <3>4. QED
      BY <3>1, <3>3
  <2>4. CASE ~(\A e \in heap : due[d] < due[e]) /\ UNCHANGED task
    <3>1. heap # {} /\ (SoonestAt(armed) => (SoonestAt(armed))')
      <4>1. PICK e \in heap : ~(due[d] < due[e])
        BY <2>4
      <4>2. due[e] <= due[d]
        BY <2>2, <4>1
      <4>3. ASSUME SoonestAt(armed)
            PROVE  (SoonestAt(armed))'
        <5>1. PICK f \in heap : due[f] = armed /\ \A g \in heap : armed <= due[g]
          BY <4>3 DEF SoonestAt
        <5>2. armed <= due[d]
          BY <1>0, <2>2, <4>2, <5>1
        <5>3. QED
          BY <2>1, <5>1, <5>2 DEF SoonestAt
      <4>4. QED
        BY <4>1, <4>3
    <3>2. QED
      BY <1>0, <2>1, <2>4, <3>1 DEF Disturbed
  <2>5. QED
    BY <1>9, <2>3, <2>4 DEF TakePush
<1>10. CASE TakeRemove
  <2> DEFINE d == Head(queue).timer
  <2>1. /\ UNCHANGED <<due, armed, polled, poll>> /\ heap' = heap \ {d}
        /\ task.at = "idle" /\ (HasExpire(queue') <=> HasExpire(queue))
    BY <1>0, <1>10, TakesMoves DEF TakeRemove, clients, kernel
  <2>2. CASE Update(heap')
    BY <1>5, <2>1, <2>2
  <2>3. CASE Soonest(heap) # {d} /\ UNCHANGED task
    <3>1. ASSUME SoonestAt(armed)
          PROVE  (SoonestAt(armed))'
      <4>1. PICK f \in heap : due[f] = armed /\ \A g \in heap : armed <= due[g]
        BY <3>1 DEF SoonestAt
      <4>2. f \in Soonest(heap)
        BY <4>1 DEF Soonest
      <4>3. PICK g \in Soonest(heap) : g # d
        BY <2>3, <4>2
      <4>4. g \in heap' /\ due[g] = armed
        BY <1>0, <2>1, <4>1, <4>3 DEF Soonest
      <4>5. QED
        BY <2>1, <4>1, <4>4 DEF SoonestAt
    <3>2. QED
      BY <1>0, <2>1, <2>3, <3>1 DEF Disturbed
  <2>4. QED
    BY <1>10, <2>2, <2>3 DEF TakeRemove
<1>11. CASE TakeExpire
  <2>1. CASE heap = {} /\ UNCHANGED <<heap, task>>
    <3>1. task'.at = "idle" /\ heap' = {}
      BY <1>11, <2>1 DEF TakeExpire, Takes
    <3>2. QED
      BY <3>1
  <2>2. CASE Pop(now)
    BY <1>4, <2>2, PopMoves
  <2>3. QED
    BY <1>11, <2>1, <2>2 DEF TakeExpire
<1>12. CASE ReadClient \/ StopClient \/ Call
  <2>1. task'.at \in {"stop", "call", "pop"}
    BY <1>0, <1>12 DEF ReadClient, StopClient, Call, TypeInv, Tasks
  <2>2. QED
    BY <1>4, <2>1
<1>13. CASE PopNext
  <2>1. CASE Pop(task.time)
    BY <1>4, <2>1, PopMoves
  <2>2. CASE Update(heap) /\ UNCHANGED heap
    BY <1>5, <1>13, <2>2 DEF PopNext, clients
  <2>3. QED
    BY <1>13, <2>1, <2>2 DEF PopNext
<1>14. CASE AddPoll
  <2>1. /\ UNCHANGED <<heap, due>> /\ polled' /\ task.at = "addPoll"
        /\ task'.at = "setTime" /\ task'.time = task.time
    BY <1>0, <1>14 DEF AddPoll, clients, TypeInv, Tasks
  <2>2. (SoonestAt(task.time))'
    BY <1>0, <2>1 DEF SoonestAt
  <2>3. QED
    BY <2>1, <2>2
<1>15. CASE SetTime
  <2>1. /\ UNCHANGED <<heap, due, polled, poll, queue>> /\ armed' = task.time
        /\ task.at = "setTime" /\ task'.at = "idle"
    BY <1>15 DEF SetTime, clients, IdleTask, AtStage
  <2>2. (SoonestAt(armed))'
    BY <1>0, <2>1 DEF SoonestAt
  <2>3. QED
    BY <1>0, <2>1, <2>2 DEF Disturbed
<1>16. CASE Wake
  BY <1>3, <1>16 DEF Wake, clients, Disturbed
<1>17. CASE Disarm
  BY <1>3, <1>17 DEF Disarm, clients, Disturbed
<1>18. CASE RemovePoll
  BY <1>3, <1>18 DEF RemovePoll, clients, Disturbed
<1>19. CASE SendExpire
  <2>1. HasExpire(queue')
    BY <1>0, <1>19, MsgTypes, AppendExpire DEF SendExpire, TypeInv, MsgTimerExpire
  <2>2. QED
    BY <1>3, <1>19, <2>1 DEF SendExpire, clients, Disturbed
<1>20. CASE UNCHANGED vars
  BY <1>2, <1>20 DEF vars, clients, kernel, Disturbed
<1>21. QED
  BY <1>6, <1>7, <1>8, <1>9, <1>10, <1>11, <1>12, <1>13, <1>14, <1>15, <1>16, <1>17, <1>18,
     <1>19, <1>20 DEF Next, MsgTask, PollTask

LEMMA InvInit == Init => IInv
BY TypeInit, LifeInit, KernelInit DEF IInv, LifeKept

LEMMA InvStep == IInv /\ [Next]_vars => IInv'
BY TypeStep, LifeStep, KernelStep DEF IInv, LifeKept

LEMMA Invariant == Spec => []IInv
BY InvInit, InvStep, PTL DEF Spec

-----------------------------------------------------------------------------
(* What follows                                                            *)

\* A delegate that the MsgTask thread has deleted is nowhere any more: not in the heap, with
\* no client, in no message and not popped; and no message about a delegate comes twice.
THEOREM DeletedIsGone == Spec => []NothingDangles
<1>1. IInv => NothingDangles
  <2> SUFFICES ASSUME IInv
               PROVE  NothingDangles
    OBVIOUS
  <2>1. TypeInv /\ LifeInv
    BY DEF IInv, LifeKept
  <2>2. InQueue("push") = Pushes /\ InQueue("remove") = Removes
    BY DEF InQueue, Pushes, Removes, Of
  <2>3. freed \cap (heap \cup InQueue("push") \cup InQueue("remove")) = {}
    BY <2>1, <2>2 DEF LifeInv
  <2>4. ASSUME NEW c \in Clients
        PROVE  timer[c] \notin freed
    <3>1. timer[c] # 0 => client[timer[c]] # NoClient
      BY <2>1, TimerAssumption DEF LifeInv
    <3>2. 0 \notin freed
      <4>1. freed \subseteq 1..MaxStarts
        BY <2>1 DEF TypeInv, Delegates
      <4>2. QED
        BY <4>1
    <3>3. QED
      BY <2>1, <3>1, <3>2 DEF LifeInv
  <2>5. task.at = "expire" => task.timer \notin freed
    BY <2>1 DEF TypeInv, LifeInv, Popped
  <2>6. \A i, j \in DOMAIN queue : queue[i] = queue[j] /\ queue[i].kind # "expire" => i = j
    BY <2>1 DEF LifeInv, PushFirst
  <2>7. QED
    BY <2>3, <2>4, <2>5, <2>6 DEF NothingDangles
<1>2. QED
  BY <1>1, Invariant, PTL

\* When the MsgTask thread has handled all messages, the heap is what the clients run, and
\* every other delegate has been deleted.
THEOREM RestIsClean == Spec => []NothingLeaks
<1>1. IInv => NothingLeaks
  <2> SUFFICES ASSUME IInv, AtRest
               PROVE  LET running == {timer[c] : c \in Clients} \ {0}
                      IN heap = running /\ freed = (1..starts) \ running
    BY DEF NothingLeaks
  <2> DEFINE running == {timer[c] : c \in Clients} \ {0}
  <2>1. TypeInv /\ LifeInv /\ KeptInv
    BY DEF IInv, LifeKept
  <2>2. Pushes = {} /\ Removes = {} /\ task.at = "idle"
    BY DEF AtRest, Pushes, Removes, Of
  <2>3. 1..starts \subseteq Delegates /\ starts \in Nat
    BY <2>1, TimerAssumption DEF TypeInv, Delegates
  <2>4. ASSUME NEW d \in 1..starts
        PROVE  /\ d \in running => d \in heap /\ d \notin freed
               /\ d \notin running => d \in freed /\ d \notin heap
    <3>1. d \in running => client[d] # NoClient
      BY <2>1, TimerAssumption DEF LifeInv
    <3>2. client[d] # NoClient => d \in running
      BY <2>1, <2>3 DEF LifeInv, TypeInv
    <3>3. d \in running => d \in heap
      BY <2>1, <2>2 DEF KeptInv, Popped, Stopping
    <3>4. QED
      BY <2>1, <2>2, <3>1, <3>2, <3>3 DEF LifeInv, KeptInv
  <2>5. running \subseteq 1..starts
    BY <2>1, <2>3 DEF LifeInv
  <2>6. heap \subseteq 1..starts /\ freed \subseteq 1..starts
    BY <2>1 DEF LifeInv
  <2>7. QED
    BY <2>4, <2>5, <2>6
<1>2. QED
  BY <1>1, Invariant, PTL

\* At rest, with the poll thread in epoll_wait, the timerfd is polled and set to the time of
\* the delegate on top of the heap.
THEOREM KernelWaitsForTop == Spec => []SoonestIsArmed
<1>1. IInv => SoonestIsArmed
  <2> SUFFICES ASSUME IInv, AtRest, poll = "wait", heap # {}
               PROVE  polled /\ \A d \in Soonest(heap) : armed = due[d]
    BY DEF SoonestIsArmed
  <2>1. task.at = "idle" /\ ~Disturbed
    BY DEF AtRest, Disturbed, HasExpire
  <2>2. polled /\ SoonestAt(armed)
    BY <2>1 DEF IInv, KernelInv
  <2>3. due \in [Delegates -> Nat] /\ heap \subseteq Delegates
    BY DEF IInv, LifeKept, TypeInv
  <2>4. ASSUME NEW d \in Soonest(heap)
        PROVE  armed = due[d]
    BY <2>2, <2>3 DEF SoonestAt, Soonest
  <2>5. QED
    BY <2>2, <2>4
<1>2. QED
  BY <1>1, Invariant, PTL

-----------------------------------------------------------------------------
(***************************************************************************)
(* MsgTask. For any messages, however many are posted: they are handled in *)
(* the order they came, and no object is deleted twice.                    *)
(*                                                                         *)
(* The list is the messages that were sent and not taken, linked both      *)
(* ways; where the worker and the owner are says what they have still to   *)
(* delete; and a message is deleted by whoever had it last.                *)
(***************************************************************************)

\* The messages that were taken from the list, and those that are done with.
Taken == Len(handled) + IF worker = "handle" THEN 1 ELSE 0
Done  == Len(handled) - IF worker = "handled" THEN 1 ELSE 0

TaskTypes ==
  /\ head \in Messages \cup {Null} /\ tail \in Messages \cup {Null}
  /\ next \in [Messages -> Messages \cup {Null}] /\ prev \in [Messages -> Messages \cup {Null}]
  /\ got \in Messages \cup {Null} /\ (worker \in {"handle", "handled"} => got \in Messages)
  /\ mRefCount \in Nat
  /\ worker \in {"none", "start", "loop", "receive", "waiting", "handle", "handled", "post",
                 "clear", "delete", "destroy", "last", "gone"}
  /\ owner \in {"new", "running", "disown", "delete", "stop", "join", "destroy", "last",
                "leave", "gone"}
  /\ sent \in Seq(Messages) /\ handled \in Seq(Messages) /\ lost \subseteq Messages
  /\ deleted \in [Objects -> Nat]

\* The list has the messages that were sent but not taken, from the oldest at the tail.
Listed ==
  IF Taken = Len(sent) THEN head = Null /\ tail = Null
  ELSE /\ tail = sent[Taken + 1] /\ next[tail] = Null
       /\ head = sent[Len(sent)] /\ prev[head] = Null
       /\ \A i \in Taken + 1 .. Len(sent) - 1 :
            prev[sent[i]] = sent[i + 1] /\ next[sent[i + 1]] = sent[i]

ListInv ==
  /\ Taken <= Len(sent)
  /\ \A i, j \in 1..Len(sent) : sent[i] = sent[j] => i = j
  /\ \A i \in 1..Len(handled) : handled[i] = sent[i]
  /\ worker = "handle" => got = sent[Taken]
  /\ worker = "handled" => Done \in Nat /\ got = sent[Len(handled)]
  /\ deleted["task"] = 0 => Listed

Untouched == {"none", "start", "loop", "receive", "waiting", "handle", "handled"}

\* While the owner runs, and while the thread works, the task is there.
TaskInv ==
  /\ owner \in {"new", "running"} =>
       /\ deleted["task"] = 0 /\ ~unblocked
       /\ worker \in Untouched /\ (worker # "none" => mRunnable)
  /\ owner = "new" => worker = "none" /\ ~mThread /\ \A x \in Objects : deleted[x] = 0
  /\ owner = "running" => (mThread <=> worker # "none")
  /\ owner = "delete" => deleted["task"] = 0
  /\ worker = "none" => owner \in {"new", "running", "delete", "gone"}
  /\ worker # "none" => owner # "delete"
  /\ worker \in {"start", "loop", "receive", "waiting", "handle", "handled", "post", "clear",
                 "delete"} => deleted["task"] = 0
  /\ deleted["task"] <= 1

\* The delegate is counted: who has not let it go, or is about to delete it, finds it.
DelegateInv ==
  /\ worker # "none" =>
       /\ mRefCount = (IF worker \in {"last", "gone"} THEN 0 ELSE 1)
                    + (IF owner \in {"last", "leave", "gone"} THEN 0 ELSE 1)
       /\ mRefCount > 0 \/ worker = "last" \/ owner = "last" => deleted["delegate"] = 0
       /\ worker = "last" => owner \in {"leave", "gone"}
       /\ owner = "last" => worker = "gone"
       /\ owner # "gone" => deleted["thread"] = 0
  /\ deleted["delegate"] <= 1 /\ deleted["thread"] <= 1

\* A message is deleted when it is done with, or with the task.
MessageInv ==
  \A m \in Messages :
    /\ deleted[m] <= 1
    /\ deleted[m] = 1 =>
         \E i \in 1..Len(sent) : sent[i] = m /\ (i <= Done \/ deleted["task"] > 0)

TaskLife == TaskInv /\ DelegateInv
FateInv == MessageInv /\ misused \subseteq {"mThread"}

TaskIInv == TaskTypes /\ ListInv /\ TaskLife /\ FateInv

\* LocThread::start has not been called: nothing is sent, handled or deleted.
LEMMA TaskInvInit == TaskInit => TaskIInv
<1> SUFFICES ASSUME TaskInit
             PROVE  TaskIInv
  OBVIOUS
<1> USE DEF TaskInit
<1>1. Taken = 0 /\ Done = 0 /\ Len(sent) = 0
  BY DEF Taken, Done
<1>2. TaskTypes
  BY DEF TaskTypes
<1>3. ListInv
  BY <1>1 DEF ListInv, Listed
<1>4. TaskInv /\ DelegateInv
  BY DEF TaskInv, DelegateInv, Untouched, Objects
<1>5. MessageInv /\ misused \subseteq {"mThread"}
  BY DEF MessageInv, Objects
<1>6. QED
  BY <1>2, <1>3, <1>4, <1>5 DEF TaskIInv, TaskLife, FateInv

\* The types hold after every step.
LEMMA TaskTypeStep == TaskTypes /\ [TaskNext]_taskVars => TaskTypes'
<1> SUFFICES ASSUME TaskTypes, [TaskNext]_taskVars
             PROVE  TaskTypes'
  OBVIOUS
<1> USE MessagesAssumption
<1> USE DEF TaskTypes, taskVars, msgQ, list, delegate, fate, traffic, Thread, Mine, TouchOnly
<1>1. ASSUME NEW xs, Free(xs)
      PROVE  deleted' \in [Objects -> Nat]
  BY <1>1 DEF Free
<1>2. ASSUME NEW m \in Messages, msg_q_snd(m)
      PROVE  /\ head' \in Messages \cup {Null} /\ tail' \in Messages \cup {Null}
             /\ next' \in [Messages -> Messages \cup {Null}]
             /\ prev' \in [Messages -> Messages \cup {Null}]
             /\ sent' \in Seq(Messages) /\ lost' \subseteq Messages
  <2>1. CASE Add(m) /\ sent' = Append(sent, m) /\ UNCHANGED lost
    <3>1. /\ head' \in Messages \cup {Null} /\ tail' \in Messages \cup {Null}
          /\ next' \in [Messages -> Messages \cup {Null}]
      BY <2>1 DEF Add
    <3>2. prev' \in [Messages -> Messages \cup {Null}]
      BY <2>1 DEF Add
    <3>3. QED
      BY <2>1, <3>1, <3>2
  <2>2. CASE lost' = lost \cup {m} /\ UNCHANGED <<list, sent>>
    BY <2>2
  <2>3. QED
    BY <1>2, <2>1, <2>2 DEF msg_q_snd
<1>3. ASSUME Receive
      PROVE  /\ head' \in Messages \cup {Null} /\ tail' \in Messages \cup {Null}
             /\ next' \in [Messages -> Messages \cup {Null}]
             /\ prev' \in [Messages -> Messages \cup {Null}]
             /\ got' \in Messages \cup {Null} /\ (worker' = "handle" => got' \in Messages)
             /\ worker' \in {"post", "waiting", "handle"}
  BY <1>3 DEF Receive, Take
<1>4. CASE threadMain \/ Loop \/ Post \/ Clear
  BY <1>4 DEF threadMain, Loop, Post, Clear
<1>5. CASE msg_q_rcv \/ WakeUp
  BY <1>5, <1>3 DEF msg_q_rcv, WakeUp
<1>6. CASE Proc
  BY <1>6, <1>2 DEF Proc
<1>7. CASE Handled
  BY <1>7, <1>1 DEF Handled, FreeOnly
<1>8. CASE DeleteRunnable \/ DeleteThis
  BY <1>8, <1>1 DEF DeleteRunnable, DeleteThis, DeleteTask, FreeOnly
<1>9. CASE Destroy \/ OwnerDestroys
  BY <1>9 DEF Destroy, OwnerDestroys, LetGo
<1>10. CASE DeleteDelegate \/ Leave \/ ConstructWithoutThread
  BY <1>10, <1>1 DEF DeleteDelegate, Leave, ConstructWithoutThread, FreeOnly
<1>11. CASE Construct \/ destroy \/ Disown \/ stop \/ Join
  BY <1>11 DEF Construct, destroy, msg_q_unblock, Disown, stop, Join
<1>12. CASE sendMsg
  BY <1>12, <1>2 DEF sendMsg
<1>13. CASE UNCHANGED taskVars
  BY <1>13
<1>14. QED
  BY <1>4, <1>5, <1>6, <1>7, <1>8, <1>9, <1>10, <1>11, <1>12, <1>13
     DEF TaskNext, Worker, Destroying

\* A message that is sent comes to the head.
LEMMA Sending ==
  ASSUME TaskTypes, ListInv, deleted["task"] = 0,
         NEW m \in Messages \ (Range(sent) \cup lost), msg_q_snd(m), Taken' = Taken
  PROVE  /\ Len(sent) <= Len(sent') /\ Len(sent') \in Nat
         /\ \A i \in 1..Len(sent) : sent'[i] = sent[i]
         /\ \A i, j \in 1..Len(sent') : sent'[i] = sent'[j] => i = j
         /\ Listed'
<1> USE MessagesAssumption
<1> DEFINE k == Taken
           n == Len(sent)
<1>0. k \in Nat /\ n \in Nat /\ k <= n /\ DOMAIN sent = 1..n
  BY DEF TaskTypes, ListInv, Taken
<1>1. /\ k \in Nat /\ n \in Nat /\ k <= n /\ DOMAIN sent = 1..n
      /\ \A i \in 1..n : sent[i] \in Messages /\ sent[i] # m /\ sent[i] # Null
  BY <1>0 DEF TaskTypes, Range
<1> HIDE DEF k, n
<1>l. Listed /\ \A i, j \in 1..n : sent[i] = sent[j] => i = j
  BY DEF ListInv, n
<1>2. CASE UNCHANGED <<list, sent>>
  <2>1. Listed' <=> Listed
    BY <1>2 DEF Listed, list
  <2>2. QED
    BY <1>0, <1>2, <1>l, <2>1 DEF n
<1>3. CASE Add(m) /\ sent' = Append(sent, m)
  <2>1. /\ Len(sent') = n + 1 /\ sent'[n + 1] = m
        /\ \A i \in 1..n : sent'[i] = sent[i]
    BY <1>1, <1>3 DEF TaskTypes, n
  <2>2. \A i, j \in 1..Len(sent') : sent'[i] = sent'[j] => i = j
    BY <1>1, <1>l, <2>1
  <2>3. /\ head' = m /\ next'[m] = head /\ prev'[m] = Null
        /\ \A x \in Messages \ {m} : next'[x] = next[x] /\ (x # head => prev'[x] = prev[x])
        /\ head # Null => head \in Messages /\ (head # m => prev'[head] = m)
        /\ tail' = IF head # Null THEN tail ELSE m
    BY <1>3 DEF Add, TaskTypes
  <2>4. CASE k = n
    <3>1. head = Null /\ tail = Null
      BY <2>4, <1>l DEF Listed, k, n
    <3>2. QED
      BY <1>1, <2>1, <2>2, <2>3, <2>4, <3>1 DEF Listed, k, n
  <2>5. CASE k < n
    <3>1. /\ tail = sent[k + 1] /\ next[tail] = Null /\ head = sent[n] /\ prev[head] = Null
          /\ \A i \in k + 1 .. n - 1 : prev[sent[i]] = sent[i + 1] /\ next[sent[i + 1]] = sent[i]
      <4>1. Taken # Len(sent)
        <5>1. k # n
          BY <1>0, <2>5
        <5>2. QED
          BY <5>1 DEF k, n
      <4>2. QED
        BY <1>l, <4>1 DEF Listed, k, n
    <3>2. tail' = sent'[k + 1] /\ next'[tail'] = Null /\ head' = sent'[n + 1] /\ prev'[head'] = Null
      BY <1>1, <2>1, <2>3, <2>5, <3>1
    <3>3. ASSUME NEW i \in k + 1 .. n
          PROVE  prev'[sent'[i]] = sent'[i + 1] /\ next'[sent'[i + 1]] = sent'[i]
      <4>1. CASE i = n
        BY <1>1, <2>1, <2>3, <2>5, <3>1, <4>1
      <4>2. CASE i < n
        <5>1. /\ i \in 1..n /\ i + 1 \in 1..n /\ i \in k + 1 .. n - 1
          BY <1>1, <2>5, <4>2
        <5>2. sent[i] # head
          BY <1>1, <1>l, <3>1, <4>2, <5>1
        <5>3. QED
          BY <1>1, <2>1, <2>3, <3>1, <5>1, <5>2
      <4>3. QED
        BY <1>1, <4>1, <4>2
    <3>4. QED
      BY <1>1, <2>1, <2>2, <2>5, <3>2, <3>3 DEF Listed, k, n
  <2>6. QED
    BY <1>0, <2>4, <2>5
<1>4. QED
  BY <1>2, <1>3 DEF msg_q_snd

\* The oldest message is taken.
LEMMA Taking ==
  ASSUME TaskTypes, ListInv, deleted["task"] = 0, tail # Null, Take, UNCHANGED sent,
         Taken' = Taken + 1
  PROVE  Taken' <= Len(sent) /\ got' = sent[Taken'] /\ Listed'
<1> USE MessagesAssumption
<1> DEFINE k == Taken
           n == Len(sent)
<1>1. /\ k \in Nat /\ n \in Nat /\ k < n
      /\ \A i \in 1..n : sent[i] \in Messages /\ sent[i] # Null
      /\ \A i, j \in 1..n : sent[i] = sent[j] => i = j
  BY DEF TaskTypes, ListInv, Taken, Listed
<1>2. /\ tail = sent[k + 1] /\ next[tail] = Null /\ head = sent[n] /\ prev[head] = Null
      /\ \A i \in k + 1 .. n - 1 : prev[sent[i]] = sent[i + 1] /\ next[sent[i + 1]] = sent[i]
  BY <1>1 DEF ListInv, Listed
<1>3. /\ got' = tail /\ tail' = prev[tail] /\ prev' = prev
      /\ tail' # Null => /\ head' = head
                         /\ (tail' \in Messages => next'[tail'] = Null)
                         /\ \A x \in Messages : x # tail' => next'[x] = next[x]
      /\ tail' = Null => head' = Null
  BY DEF Take, TaskTypes
<1>4. CASE k + 1 = n
  BY <1>1, <1>2, <1>3, <1>4 DEF Listed
<1>5. CASE k + 1 < n
  <2>1. k + 1 \in k + 1 .. n - 1 /\ k + 2 \in 1..n /\ k + 1 \in 1..n /\ n \in 1..n
    BY <1>1, <1>5
  <2>s. (k + 1) + 1 = k + 2
    BY <1>1
  <2>2. tail' = sent[k + 2] /\ next'[tail'] = Null /\ head' = sent[n] /\ prev'[head'] = Null
    <3>1. prev[sent[k + 1]] = sent[k + 2]
      BY <1>2, <2>1, <2>s
    <3>2. tail' = sent[k + 2]
      BY <1>2, <1>3, <3>1
    <3>3. tail' \in Messages /\ tail' # Null
      BY <1>1, <2>1, <3>2
    <3>4. next'[tail'] = Null /\ head' = head
      BY <1>3, <3>3
    <3>5. QED
      BY <1>2, <1>3, <3>2, <3>4
  <2>3. ASSUME NEW i \in k + 2 .. n - 1
        PROVE  prev'[sent[i]] = sent[i + 1] /\ next'[sent[i + 1]] = sent[i]
    <3>1. i \in k + 1 .. n - 1 /\ i + 1 \in 1..n /\ i + 1 # k + 2
      BY <1>1, <1>5
    <3>2. prev[sent[i]] = sent[i + 1] /\ next[sent[i + 1]] = sent[i]
      BY <1>2, <3>1
    <3>3. sent[i + 1] \in Messages /\ sent[i + 1] # tail' /\ tail' # Null
      BY <1>1, <2>1, <2>2, <3>1
    <3>4. next'[sent[i + 1]] = next[sent[i + 1]]
      BY <1>3, <3>3
    <3>5. QED
      BY <1>3, <3>2, <3>4
  <2>4. QED
    BY <1>1, <1>3, <1>2, <1>5, <2>2, <2>3 DEF Listed
<1>6. QED
  BY <1>1, <1>4, <1>5

\* Steps that neither take nor send nor handle a message.
LEMMA ListStays ==
  ASSUME ListInv, UNCHANGED <<sent, handled>>, worker # "handle",
         worker' \notin {"handle", "handled"},
         deleted'["task"] = 0 => deleted["task"] = 0 /\ UNCHANGED list
  PROVE  ListInv'
<1>1. Taken' = Taken
  BY DEF Taken
<1>2. deleted'["task"] = 0 => Listed'
  BY <1>1 DEF ListInv, Listed, list
<1>3. QED
  BY <1>1, <1>2 DEF ListInv

\* linked_list_add and linked_list_remove keep the chain that ListInv follows.
LEMMA ListStep == TaskTypes /\ ListInv /\ TaskInv /\ [TaskNext]_taskVars => ListInv'
<1> SUFFICES ASSUME TaskTypes, ListInv, TaskInv, [TaskNext]_taskVars
             PROVE  ListInv'
  OBVIOUS
<1> USE MessagesAssumption
<1> USE DEF taskVars, msgQ, delegate, fate, traffic, Thread, Mine, TouchOnly
<1>1. ASSUME NEW xs \in SUBSET Objects, Free(xs)
      PROVE  deleted'["task"] = 0 => deleted["task"] = 0 /\ "task" \notin xs
  BY <1>1 DEF Free, Objects, TaskTypes
<1>2. ASSUME NEW m \in Messages \ (Range(sent) \cup lost), msg_q_snd(m),
             UNCHANGED <<worker, handled, got>>,
             deleted["task"] = 0
      PROVE  ListInv'
  <2>1. Taken' = Taken /\ Done' = Done
    BY <1>2 DEF Taken, Done
  <2>2. /\ Len(sent) <= Len(sent') /\ Len(sent') \in Nat
        /\ \A i \in 1..Len(sent) : sent'[i] = sent[i]
        /\ \A i, j \in 1..Len(sent') : sent'[i] = sent'[j] => i = j
        /\ Listed'
    BY <1>2, <2>1, Sending
  <2>3. /\ Len(sent) \in Nat /\ Len(handled) \in Nat /\ Len(handled) <= Taken
        /\ Taken \in Nat /\ Taken <= Len(sent)
        /\ worker = "handle" => Taken \in 1..Len(sent)
        /\ worker = "handled" => Len(handled) \in 1..Len(sent)
    BY DEF TaskTypes, ListInv, Taken, Done
  <2>4. QED
    BY <1>2, <2>1, <2>2, <2>3 DEF ListInv
<1>3. CASE msg_q_rcv \/ WakeUp
  <2>1. /\ worker \in {"receive", "waiting"} /\ deleted["task"] = 0
        /\ UNCHANGED <<sent, handled, deleted>>
    BY <1>3 DEF msg_q_rcv, WakeUp, TaskInv
  <2>2. CASE tail # Null /\ Take /\ worker' = "handle"
    <3>1. Taken' = Taken + 1
      BY <2>1, <2>2 DEF Taken
    <3>2. Taken' <= Len(sent) /\ got' = sent[Taken'] /\ Listed'
      BY <2>1, <2>2, <3>1, Taking
    <3>3. QED
      BY <2>1, <2>2, <3>2 DEF ListInv
  <2>3. CASE UNCHANGED list /\ worker' \in {"post", "waiting"}
    BY <2>1, <2>3, ListStays
  <2>4. QED
    BY <1>3, <2>2, <2>3 DEF msg_q_rcv, WakeUp, Receive, list
<1>4. CASE Proc
  <2>1. worker = "handle" /\ worker' = "handled" /\ handled' = Append(handled, got) /\ got' = got
    BY <1>4 DEF Proc
  <2>2. /\ Taken' = Taken /\ Taken = Len(handled) + 1 /\ Done' = Len(handled)
        /\ Len(handled') = Len(handled) + 1 /\ Len(handled) \in Nat
        /\ got = sent[Taken] /\ got \in Messages /\ Len(sent) \in Nat /\ Taken <= Len(sent)
        /\ handled'[Taken] = got /\ \A i \in 1..Len(handled) : handled'[i] = handled[i]
    BY <2>1 DEF TaskTypes, ListInv, Taken, Done
  <2>3. /\ Len(sent) <= Len(sent') /\ Len(sent') \in Nat
        /\ \A i \in 1..Len(sent) : sent'[i] = sent[i]
        /\ \A i, j \in 1..Len(sent') : sent'[i] = sent'[j] => i = j
        /\ Listed'
    <3>0. deleted["task"] = 0
      BY <2>1 DEF TaskInv
    <3>1. CASE \E m \in Messages \ (Range(sent) \cup lost) : msg_q_snd(m)
      BY <2>2, <3>0, <3>1, Sending
    <3>2. CASE UNCHANGED <<list, sent>>
      BY <2>2, <3>0, <3>2 DEF ListInv, Listed, list
    <3>3. QED
      BY <1>4, <3>1, <3>2 DEF Proc
  <2>4. \A i \in 1..Len(handled') : handled'[i] = sent'[i]
    BY <2>2, <2>3 DEF ListInv
  <2>5. QED
    BY <2>1, <2>2, <2>3, <2>4 DEF ListInv
<1>5. CASE Handled
  <2>1. /\ worker = "handled" /\ worker' = "loop" /\ UNCHANGED <<list, sent, handled>>
        /\ deleted["task"] = 0
    BY <1>5 DEF Handled, TaskInv
  <2>2. QED
    BY <2>1, ListStays
<1>6. CASE sendMsg
  BY <1>2, <1>6 DEF sendMsg, TaskInv
<1>7. CASE threadMain \/ Loop \/ Post \/ Clear \/ Destroy
  <2>1. worker' \notin {"handle", "handled"} /\ worker # "handle"
        /\ UNCHANGED <<list, sent, handled, deleted>>
    BY <1>7 DEF threadMain, Loop, Post, Clear, Destroy, LetGo
  <2>2. QED
    BY <2>1, ListStays
<1>8. CASE DeleteRunnable \/ DeleteThis
  <2>1. worker' \notin {"handle", "handled"} /\ worker # "handle" /\ UNCHANGED <<sent, handled>>
    BY <1>8 DEF DeleteRunnable, DeleteThis, TaskInv
  <2>2. "task" \in {"task"} \cup Elements /\ {"task"} \cup Elements \subseteq Objects
    BY DEF Elements, Objects
  <2>3. deleted'["task"] # 0
    BY <1>1, <1>8, <2>2 DEF DeleteRunnable, DeleteThis, DeleteTask, FreeOnly
  <2>4. QED
    BY <2>1, <2>3, ListStays
<1>9. CASE DeleteDelegate \/ Construct \/ ConstructWithoutThread
  <2>1. worker' \notin {"handle", "handled"} /\ worker # "handle"
        /\ UNCHANGED <<list, sent, handled>>
    BY <1>9 DEF DeleteDelegate, Construct, ConstructWithoutThread, TaskInv
  <2>2. deleted'["task"] = 0 => deleted["task"] = 0
    BY <1>1, <1>9 DEF DeleteDelegate, Construct, ConstructWithoutThread, FreeOnly, Objects
  <2>3. QED
    BY <2>1, <2>2, ListStays
<1>10. CASE destroy \/ Disown \/ stop \/ Join \/ OwnerDestroys \/ Leave \/ UNCHANGED taskVars
  <2>1. UNCHANGED <<list, sent, handled, worker, got>>
    BY <1>10 DEF destroy, msg_q_unblock, Disown, stop, Join, OwnerDestroys, Leave
  <2>2. deleted'["task"] = 0 => deleted["task"] = 0
    BY <1>1, <1>10 DEF destroy, Disown, stop, Join, OwnerDestroys, LetGo, Leave, FreeOnly, Objects
  <2>3. Taken' = Taken /\ Done' = Done /\ (Listed' <=> Listed)
    BY <2>1 DEF Taken, Done, Listed, list
  <2>4. QED
    BY <2>1, <2>2, <2>3 DEF ListInv
<1>11. QED
  BY <1>3, <1>4, <1>5, <1>6, <1>7, <1>8, <1>9, <1>10 DEF TaskNext, Worker, Destroying

\* The task goes only when the worker has left its loop, or was never started.
LEMMA TaskStep == TaskTypes /\ TaskInv /\ [TaskNext]_taskVars => TaskInv'
<1> SUFFICES ASSUME TaskTypes, TaskInv, [TaskNext]_taskVars
             PROVE  TaskInv'
  OBVIOUS
<1> USE MessagesAssumption
<1> USE DEF taskVars, msgQ, delegate, fate, traffic, Thread, Mine, TouchOnly, Untouched
<1>0. "task" \in Objects /\ "thread" \in Objects /\ "delegate" \in Objects
      /\ \A x \in Objects : deleted[x] \in Nat
  BY DEF Objects, TaskTypes
<1>1. ASSUME NEW xs, Free(xs)
      PROVE  /\ "task" \in xs => deleted'["task"] = deleted["task"] + 1
             /\ "task" \notin xs => deleted'["task"] = deleted["task"]
  BY <1>0, <1>1 DEF Free
<1>2. ASSUME owner # "new", owner' = owner, deleted'["task"] = deleted["task"],
             UNCHANGED <<unblocked, mThread, mRunnable>>,
             worker # "none", worker' # "none", deleted["task"] = 0,
             worker \in Untouched => worker' \in Untouched
      PROVE  TaskInv'
  BY <1>2 DEF TaskInv
<1>3. CASE Loop \/ msg_q_rcv \/ WakeUp \/ Proc \/ Handled
  <2>1. /\ worker \in {"loop", "receive", "waiting", "handle", "handled"}
        /\ UNCHANGED <<owner, unblocked, mThread, mRunnable>>
    BY <1>3 DEF Loop, msg_q_rcv, WakeUp, Receive, Proc, msg_q_snd, Handled
  <2>2. deleted["task"] = 0 /\ owner # "new"
    BY <2>1 DEF TaskInv
  <2>3. deleted'["task"] = deleted["task"]
    <3>1. CASE Handled
      <4>1. got # "task"
        BY <3>1 DEF TaskTypes, Handled
      <4>2. QED
        BY <1>1, <3>1, <4>1 DEF Handled, FreeOnly
    <3>2. QED
      BY <1>3, <3>1 DEF Loop, msg_q_rcv, WakeUp, Proc
  <2>4. worker' # "none" /\ (~unblocked /\ mRunnable => worker' \in Untouched)
    BY <1>3 DEF Loop, msg_q_rcv, WakeUp, Receive, Proc, Handled
  <2>5. worker' \in {"loop", "receive", "waiting", "handle", "handled", "post", "clear"}
    BY <1>3 DEF Loop, msg_q_rcv, WakeUp, Receive, Proc, Handled
  <2>6. QED
    BY <2>1, <2>2, <2>3, <2>4, <2>5 DEF TaskInv
<1>4. CASE threadMain
  BY <1>4 DEF threadMain, TaskInv
<1>5. CASE Post \/ Clear
  BY <1>5 DEF Post, Clear, TaskInv
<1>6. CASE DeleteRunnable
  <2>1. deleted'["task"] = deleted["task"] + 1
    BY <1>1, <1>6 DEF DeleteRunnable, DeleteTask, FreeOnly
  <2>2. deleted["task"] = 0 /\ owner \notin {"new", "running", "delete"} /\ worker' = "destroy"
        /\ UNCHANGED owner
    BY <1>6 DEF DeleteRunnable, TaskInv
  <2>3. QED
    BY <2>1, <2>2 DEF TaskInv
<1>7. CASE Destroy \/ DeleteDelegate
  <2>1. deleted'["task"] = deleted["task"]
    BY <1>1, <1>7 DEF Destroy, LetGo, DeleteDelegate, FreeOnly
  <2>2. worker \in {"destroy", "last"} /\ worker' \in {"last", "gone"} /\ UNCHANGED owner
    BY <1>7 DEF Destroy, DeleteDelegate
  <2>3. QED
    BY <2>1, <2>2 DEF TaskInv
<1>8. CASE Construct \/ ConstructWithoutThread
  <2>1. deleted'["task"] = deleted["task"]
    BY <1>1, <1>8 DEF Construct, ConstructWithoutThread, FreeOnly
  <2>2. QED
    BY <1>8, <2>1 DEF Construct, ConstructWithoutThread, TaskInv
<1>9. CASE sendMsg
  BY <1>9 DEF sendMsg, msg_q_snd, TaskInv
<1>10. CASE destroy
  BY <1>10 DEF destroy, TaskInv
<1>11. CASE Disown \/ stop \/ Join \/ OwnerDestroys \/ Leave
  <2>1. deleted'["task"] = deleted["task"]
    BY <1>1, <1>11 DEF Disown, stop, Join, OwnerDestroys, LetGo, Leave, FreeOnly
  <2>2. QED
    BY <1>11, <2>1 DEF Disown, stop, Join, OwnerDestroys, Leave, TaskInv
<1>12. CASE DeleteThis
  <2>1. deleted'["task"] = deleted["task"] + 1
    BY <1>1, <1>12 DEF DeleteThis, DeleteTask, FreeOnly
  <2>2. deleted["task"] = 0 /\ worker = "none" /\ owner' = "gone" /\ UNCHANGED worker
    BY <1>12 DEF DeleteThis, TaskInv
  <2>3. QED
    BY <2>1, <2>2 DEF TaskInv
<1>13. CASE UNCHANGED taskVars
  BY <1>13 DEF TaskInv
<1>14. QED
  BY <1>3, <1>4, <1>5, <1>6, <1>7, <1>8, <1>9, <1>10, <1>11, <1>12, <1>13
     DEF TaskNext, Worker, Destroying

\* The counter of LocThreadDelegate is lowered once by each of the two that hold it.
LEMMA DelegateStep == TaskTypes /\ TaskInv /\ DelegateInv /\ [TaskNext]_taskVars => DelegateInv'
<1> SUFFICES ASSUME TaskTypes, TaskInv, DelegateInv, [TaskNext]_taskVars
             PROVE  DelegateInv'
  OBVIOUS
<1> USE MessagesAssumption
<1> USE DEF taskVars, msgQ, delegate, fate, traffic, Thread, Mine, TouchOnly
<1>0. "thread" \in Objects /\ "delegate" \in Objects /\ \A x \in Objects : deleted[x] \in Nat
  BY DEF Objects, TaskTypes
<1>1. ASSUME NEW xs, Free(xs), NEW x \in {"thread", "delegate"}
      PROVE  deleted'[x] = IF x \in xs THEN deleted[x] + 1 ELSE deleted[x]
  BY <1>0, <1>1 DEF Free
<1>2. ASSUME worker \notin {"none", "last", "gone"}, worker' \notin {"none", "last", "gone"},
             UNCHANGED <<owner, mRefCount>>,
             deleted'["thread"] = deleted["thread"], deleted'["delegate"] = deleted["delegate"]
      PROVE  DelegateInv'
  BY <1>2 DEF DelegateInv
<1>3. CASE threadMain \/ Loop \/ msg_q_rcv \/ WakeUp \/ Proc \/ Post \/ Clear
  <2>1. worker \notin {"none", "last", "gone"} /\ worker' \notin {"none", "last", "gone"}
        /\ UNCHANGED <<owner, mRefCount, deleted>>
    BY <1>3 DEF threadMain, Loop, msg_q_rcv, WakeUp, Receive, Proc, Post, Clear
  <2>2. QED
    BY <1>2, <2>1
<1>4. CASE Handled
  <2>1. got \notin {"thread", "delegate"}
    BY <1>4 DEF TaskTypes, Handled
  <2>2. QED
    BY <1>1, <1>2, <1>4, <2>1 DEF Handled, FreeOnly
<1>5. CASE DeleteRunnable
  <2>1. {"thread", "delegate"} \cap ({"task"} \cup Elements) = {}
    BY DEF Elements
  <2>2. QED
    BY <1>1, <1>2, <1>5, <2>1 DEF DeleteRunnable, DeleteTask, FreeOnly
<1>6. CASE Destroy
  <2>1. worker = "destroy" /\ mRefCount' = mRefCount - 1 /\ UNCHANGED <<owner, deleted>>
        /\ worker' = IF mRefCount = 1 THEN "last" ELSE "gone"
    BY <1>6 DEF Destroy, LetGo, LastToGo
  <2>2. QED
    BY <2>1 DEF DelegateInv, TaskTypes
<1>7. CASE DeleteDelegate
  <2>1. deleted'["delegate"] = deleted["delegate"] + 1 /\ deleted'["thread"] = deleted["thread"]
    BY <1>1, <1>7 DEF DeleteDelegate, FreeOnly
  <2>2. worker = "last" /\ worker' = "gone" /\ UNCHANGED <<owner, mRefCount>>
    BY <1>7 DEF DeleteDelegate
  <2>3. QED
    BY <2>1, <2>2 DEF DelegateInv
<1>8. CASE Construct
  BY <1>0, <1>8 DEF Construct, DelegateInv, TaskInv
<1>9. CASE ConstructWithoutThread
  <2>1. deleted'["delegate"] = 1 /\ deleted'["thread"] = 1
    BY <1>0, <1>1, <1>9 DEF ConstructWithoutThread, FreeOnly, TaskInv
  <2>2. worker' = "none"
    BY <1>9 DEF ConstructWithoutThread, TaskInv
  <2>3. QED
    BY <2>1, <2>2 DEF DelegateInv
<1>10. CASE sendMsg \/ destroy \/ Disown \/ stop \/ Join
  <2>1. UNCHANGED <<worker, mRefCount, deleted>> /\ owner \in {"running", "disown", "stop", "join"}
        /\ owner' \in {"running", "disown", "delete", "stop", "join", "destroy"}
    BY <1>10 DEF sendMsg, destroy, Disown, stop, Join
  <2>2. QED
    BY <2>1 DEF DelegateInv
<1>11. CASE DeleteThis
  <2>1. {"thread", "delegate"} \cap ({"task"} \cup Elements) = {}
    BY DEF Elements
  <2>2. deleted'["thread"] = deleted["thread"] /\ deleted'["delegate"] = deleted["delegate"]
    BY <1>1, <1>11, <2>1 DEF DeleteThis, DeleteTask, FreeOnly
  <2>3. worker' = "none"
    BY <1>11 DEF DeleteThis, TaskInv
  <2>4. QED
    BY <2>2, <2>3 DEF DelegateInv
<1>12. CASE OwnerDestroys
  <2>1. owner = "destroy" /\ mRefCount' = mRefCount - 1 /\ UNCHANGED <<worker, deleted>>
        /\ owner' = IF mRefCount = 1 THEN "last" ELSE "leave"
    BY <1>12 DEF OwnerDestroys, LetGo, LastToGo
  <2>2. QED
    BY <2>1 DEF DelegateInv, TaskTypes, TaskInv
<1>13. CASE Leave
  <2>1. owner \in {"last", "leave"} /\ owner' = "gone" /\ UNCHANGED <<worker, mRefCount>>
    BY <1>13 DEF Leave
  <2>2. /\ deleted'["thread"] = deleted["thread"] + 1
        /\ deleted'["delegate"] =
             IF owner = "last" THEN deleted["delegate"] + 1 ELSE deleted["delegate"]
    BY <1>1, <1>13 DEF Leave, FreeOnly
  <2>3. QED
    BY <2>1, <2>2 DEF DelegateInv, TaskTypes, TaskInv
<1>14. CASE UNCHANGED taskVars
  BY <1>14 DEF DelegateInv
<1>15. QED
  BY <1>3, <1>4, <1>5, <1>6, <1>7, <1>8, <1>9, <1>10, <1>11, <1>12, <1>13, <1>14
     DEF TaskNext, Worker, Destroying

\* linked_list_flush finds messages only that are on the list.
LEMMA FlushedAreListed ==
  ASSUME TaskTypes, ListInv, deleted["task"] = 0, NEW m \in Elements
  PROVE  \E i \in Taken + 1 .. Len(sent) : sent[i] = m
<1> DEFINE listed == {sent[i] : i \in Taken + 1 .. Len(sent)}
<1>1. /\ Taken \in Nat /\ Len(sent) \in Nat /\ Taken <= Len(sent)
      /\ \A i \in 1..Len(sent) : sent[i] \in Messages /\ sent[i] # Null
  BY MessagesAssumption DEF TaskTypes, ListInv, Taken
<1>2. listed \in SUBSET Messages
  BY <1>1
<1>3. CASE Taken = Len(sent)
  <2>1. head = Null /\ listed = {}
    BY <1>1, <1>3 DEF ListInv, Listed
  <2>2. Chained(listed)
    BY <2>1 DEF Chained
  <2>3. QED
    BY <1>2, <2>2 DEF Elements
<1>4. CASE Taken < Len(sent)
  <2>0. Taken # Len(sent)
    BY <1>1, <1>4
  <2>1. /\ next[sent[Taken + 1]] = Null /\ head = sent[Len(sent)]
        /\ \A i \in Taken + 1 .. Len(sent) - 1 : next[sent[i + 1]] = sent[i]
    BY <2>0 DEF ListInv, Listed
  <2>2. head \in listed
    BY <1>1, <1>4, <2>1
  <2>3. ASSUME NEW i \in Taken + 1 .. Len(sent)
        PROVE  next[sent[i]] = Null \/ next[sent[i]] \in listed
    <3>1. CASE i = Taken + 1
      BY <2>1, <3>1
    <3>2. CASE i > Taken + 1
      <4>1. i - 1 \in Taken + 1 .. Len(sent) - 1 /\ (i - 1) + 1 = i
        BY <1>1, <3>2
      <4>2. next[sent[i]] = sent[i - 1]
        BY <2>1, <4>1
      <4>3. QED
        BY <1>1, <4>1, <4>2
    <3>3. QED
      BY <1>1, <3>1, <3>2
  <2>4. Chained(listed)
    BY <2>2, <2>3 DEF Chained
  <2>5. QED
    BY <1>2, <2>4 DEF Elements
<1>5. QED
  BY <1>1, <1>3, <1>4

\* Steps that delete no message.
LEMMA MessagesStay ==
  ASSUME TaskTypes, ListInv, MessageInv,
         \A m \in Messages : deleted'[m] = deleted[m],
         Len(sent) <= Len(sent'), Len(sent') \in Nat, \A i \in 1..Len(sent) : sent'[i] = sent[i],
         Done <= Done', deleted["task"] > 0 => deleted'["task"] > 0
  PROVE  MessageInv'
<1>1. Len(sent) \in Nat /\ Done \in Int /\ (Done' \in Int => TRUE)
  BY DEF TaskTypes, Done
<1>2. SUFFICES ASSUME NEW m \in Messages, deleted'[m] = 1
               PROVE  \E i \in 1..Len(sent') : sent'[i] = m /\ (i <= Done' \/ deleted'["task"] > 0)
  BY DEF MessageInv
<1>3. PICK i \in 1..Len(sent) : sent[i] = m /\ (i <= Done \/ deleted["task"] > 0)
  BY <1>2 DEF MessageInv
<1>4. QED
  BY <1>1, <1>3 DEF Done

\* A handled message is deleted after it was handled, and the others with the list, once.
LEMMA FateStep == TaskIInv /\ TaskTypes' /\ [TaskNext]_taskVars => FateInv'
<1> SUFFICES ASSUME TaskIInv, TaskTypes', [TaskNext]_taskVars
             PROVE  FateInv'
  OBVIOUS
<1> USE MessagesAssumption
<1> USE DEF taskVars, msgQ, delegate, fate, traffic, Thread, Mine, TouchOnly
<1>0. TaskTypes /\ ListInv /\ TaskInv /\ DelegateInv /\ MessageInv /\ misused \subseteq {"mThread"}
  BY DEF TaskIInv, TaskLife, FateInv
<1>1. {"task", "thread", "delegate"} \subseteq Objects /\ Messages \subseteq Objects
      /\ \A x \in Objects : deleted[x] \in Nat
  BY <1>0 DEF Objects, TaskTypes
<1>2. ASSUME NEW xs, Uses(xs), \A x \in xs : deleted[x] = 0
      PROVE  misused' \subseteq {"mThread"}
  <2>1. {x \in xs : deleted[x] > 0} = {}
    BY <1>2
  <2>2. QED
    BY <1>0, <1>2, <2>1 DEF Uses
<1>3. ASSUME NEW xs, Free(xs)
      PROVE  \A x \in Objects : deleted'[x] = IF x \in xs THEN deleted[x] + 1 ELSE deleted[x]
  BY <1>0, <1>3 DEF Free, TaskTypes
<1>4. ASSUME UNCHANGED <<deleted, sent, handled>>, worker # "handled", worker' # "handled"
      PROVE  MessageInv'
  <2>1. Done' = Done
    BY <1>4 DEF Done
  <2>2. QED
    BY <1>0, <1>4, <2>1 DEF MessageInv
<1>s. ASSUME NEW m \in Messages \ (Range(sent) \cup lost), msg_q_snd(m)
      PROVE  /\ Len(sent) <= Len(sent') /\ Len(sent') \in Nat
             /\ \A i \in 1..Len(sent) : sent'[i] = sent[i]
  <2>1. sent' = sent \/ sent' = Append(sent, m)
    BY <1>s DEF msg_q_snd
  <2>2. sent \in Seq(Messages)
    BY <1>0 DEF TaskTypes
  <2>3. CASE sent' = sent
    BY <2>2, <2>3
  <2>4. CASE sent' = Append(sent, m)
    BY <2>2, <2>4
  <2>5. QED
    BY <2>1, <2>3, <2>4
<1>5. CASE threadMain \/ Loop \/ Post \/ Clear
  <2>1. worker \in {"start", "loop", "post", "clear"} /\ worker' # "handled" /\ Uses({"delegate"})
        /\ UNCHANGED <<deleted, sent, handled>>
    BY <1>5 DEF threadMain, Loop, Post, Clear
  <2>2. deleted["delegate"] = 0
    BY <1>0, <2>1 DEF DelegateInv, TaskTypes
  <2>3. QED
    BY <1>2, <1>4, <2>1, <2>2 DEF FateInv
<1>6. CASE msg_q_rcv \/ WakeUp
  <2>1. worker \in {"receive", "waiting"} /\ worker' # "handled" /\ Uses({"task"})
        /\ UNCHANGED <<deleted, sent, handled>>
    BY <1>6 DEF msg_q_rcv, WakeUp, Receive
  <2>2. deleted["task"] = 0
    BY <1>0, <2>1 DEF TaskInv
  <2>3. QED
    BY <1>2, <1>4, <2>1, <2>2 DEF FateInv
<1>7. CASE Proc
  <2>1. worker = "handle" /\ worker' = "handled" /\ handled' = Append(handled, got)
        /\ Uses({got, "task"}) /\ UNCHANGED deleted
    BY <1>7 DEF Proc
  <2>2. /\ deleted["task"] = 0 /\ Taken = Len(handled) + 1 /\ Taken \in 1..Len(sent)
        /\ got = sent[Taken] /\ Done = Len(handled) /\ Done' = Done /\ Len(handled) \in Nat
        /\ got \in Messages
    BY <1>0, <2>1 DEF TaskInv, Taken, Done, ListInv, TaskTypes
  <2>3. deleted[got] = 0
    <3>1. \A i \in 1..Len(sent) : sent[i] = got => i = Taken
      BY <1>0, <2>2 DEF ListInv
    <3>2. deleted[got] # 1
      BY <1>0, <2>2, <3>1 DEF MessageInv
    <3>3. deleted[got] \in Nat /\ deleted[got] <= 1
      BY <1>0, <1>1, <2>2 DEF MessageInv
    <3>4. QED
      BY <3>2, <3>3
  <2>4. misused' \subseteq {"mThread"}
    BY <1>2, <2>1, <2>2, <2>3
  <2>5. Len(sent) <= Len(sent') /\ Len(sent') \in Nat /\ \A i \in 1..Len(sent) : sent'[i] = sent[i]
    <3>1. CASE UNCHANGED sent
      BY <1>0, <3>1 DEF TaskTypes
    <3>2. QED
      BY <1>7, <1>s, <3>1 DEF Proc
  <2>6. MessageInv'
    BY <1>0, <2>1, <2>2, <2>5, MessagesStay
  <2>7. QED
    BY <2>4, <2>6 DEF FateInv
<1>8. CASE Handled
  <2>1. /\ worker = "handled" /\ worker' = "loop" /\ Free({got})
        /\ UNCHANGED <<misused, sent, handled>>
    BY <1>8 DEF Handled, FreeOnly
  <2>2. /\ deleted["task"] = 0 /\ Done = Len(handled) - 1 /\ Done' = Len(handled) /\ Done \in Nat
        /\ Len(handled) \in 1..Len(sent) /\ got = sent[Len(handled)] /\ got \in Messages
        /\ Len(sent) \in Nat
    BY <1>0, <2>1 DEF TaskInv, Taken, Done, ListInv, TaskTypes
  <2>3. deleted[got] = 0
    <3>1. \A i \in 1..Len(sent) : sent[i] = got => i = Len(handled)
      BY <1>0, <2>2 DEF ListInv
    <3>2. deleted[got] # 1
      BY <1>0, <2>2, <3>1 DEF MessageInv
    <3>3. deleted[got] \in Nat /\ deleted[got] <= 1
      BY <1>0, <1>1, <2>2 DEF MessageInv
    <3>4. QED
      BY <3>2, <3>3
  <2>4. ASSUME NEW m \in Messages
        PROVE  /\ deleted'[m] <= 1
               /\ deleted'[m] = 1 => \E i \in 1..Len(sent) :
                                       sent[i] = m /\ (i <= Done' \/ deleted'["task"] > 0)
    <3>1. CASE m = got
      BY <1>1, <1>3, <2>1, <2>2, <2>3, <3>1
    <3>2. CASE m # got
      <4>1. deleted'[m] = deleted[m]
        BY <1>1, <1>3, <2>1, <3>2
      <4>2. deleted[m] <= 1 /\ (deleted[m] = 1 => \E i \in 1..Len(sent) : sent[i] = m /\ i <= Done)
        BY <1>0, <2>2 DEF MessageInv
      <4>3. QED
        BY <2>2, <4>1, <4>2
    <3>3. QED
      BY <3>1, <3>2
  <2>5. MessageInv'
    BY <2>1, <2>4 DEF MessageInv
  <2>6. QED
    BY <1>0, <2>1, <2>5 DEF FateInv
<1>9. CASE DeleteRunnable \/ DeleteThis
  <2>1. /\ worker \notin {"handle", "handled"} /\ worker' # "handled" /\ deleted["task"] = 0
        /\ Free({"task"} \cup Elements) /\ UNCHANGED <<misused, sent, handled>>
    BY <1>0, <1>9 DEF DeleteRunnable, DeleteThis, DeleteTask, FreeOnly, TaskInv
  <2>2. /\ Taken = Len(handled) /\ Done = Len(handled) /\ Done' = Done /\ Len(handled) \in Nat
        /\ Len(sent) \in Nat
    BY <1>0, <2>1 DEF Taken, Done, TaskTypes
  <2>3. deleted'["task"] = 1
    BY <1>1, <1>3, <2>1
  <2>4. ASSUME NEW m \in Messages
        PROVE  /\ deleted'[m] <= 1
               /\ deleted'[m] = 1 => \E i \in 1..Len(sent) : sent[i] = m
    <3>1. deleted[m] <= 1 /\ (deleted[m] = 1 => \E i \in 1..Len(sent) : sent[i] = m /\ i <= Done)
      BY <1>0, <2>1 DEF MessageInv
    <3>2. CASE m \in Elements
      <4>1. PICK j \in Taken + 1 .. Len(sent) : sent[j] = m
        BY <1>0, <2>1, <3>2, FlushedAreListed
      <4>2. deleted[m] # 1
        BY <1>0, <2>2, <3>1, <4>1 DEF ListInv
      <4>3. deleted[m] = 0
        BY <1>1, <3>1, <4>2
      <4>4. QED
        BY <1>1, <1>3, <2>1, <2>2, <3>2, <4>1, <4>3
    <3>3. CASE m \notin Elements
      <4>1. deleted'[m] = deleted[m]
        BY <1>1, <1>3, <2>1, <3>3
      <4>2. QED
        BY <3>1, <4>1
    <3>4. QED
      BY <3>2, <3>3
  <2>5. MessageInv'
    BY <2>1, <2>3, <2>4 DEF MessageInv
  <2>6. QED
    BY <1>0, <2>1, <2>5 DEF FateInv
<1>10. CASE Destroy \/ OwnerDestroys
  <2>1. /\ worker # "none" /\ mRefCount > 0 /\ Uses({"delegate"})
        /\ UNCHANGED <<deleted, sent, handled>>
        /\ (UNCHANGED worker \/ (worker' \in {"last", "gone"} /\ worker # "handled"))
    <3>1. CASE Destroy
      BY <3>1 DEF Destroy, LetGo
    <3>2. CASE OwnerDestroys
      <4>1. worker # "none"
        BY <1>0, <3>2 DEF OwnerDestroys, TaskInv
      <4>2. QED
        <5>1. mRefCount > 0 /\ Uses({"delegate"}) /\ UNCHANGED deleted
          BY <3>2 DEF OwnerDestroys, LetGo
        <5>2. UNCHANGED <<sent, handled, worker>>
          BY <3>2 DEF OwnerDestroys
        <5>3. QED
          BY <4>1, <5>1, <5>2
    <3>3. QED
      BY <1>10, <3>1, <3>2
  <2>2. deleted["delegate"] = 0
    BY <1>0, <2>1 DEF DelegateInv
  <2>3. misused' \subseteq {"mThread"}
    BY <1>2, <2>1, <2>2
  <2>4. Done' = Done
    BY <2>1 DEF Done
  <2>5. MessageInv'
    BY <1>0, <2>1, <2>4 DEF MessageInv
  <2>6. QED
    BY <2>3, <2>5 DEF FateInv
<1>11. CASE DeleteDelegate \/ Leave \/ ConstructWithoutThread
  <2>2. UNCHANGED <<misused, sent, handled>> /\ (worker # "handled" \/ UNCHANGED worker)
    BY <1>11 DEF DeleteDelegate, Leave, ConstructWithoutThread, FreeOnly
  <2>3. \A m \in Messages \cup {"task"} : deleted'[m] = deleted[m]
    BY <1>1, <1>3, <1>11 DEF DeleteDelegate, Leave, ConstructWithoutThread, FreeOnly
  <2>4. Done' = Done
    BY <1>11 DEF Done, DeleteDelegate, Leave, ConstructWithoutThread
  <2>5. QED
    BY <1>0, <2>2, <2>3, <2>4 DEF FateInv, MessageInv
<1>12. CASE sendMsg
  <2>1. Uses({"task"}) /\ deleted["task"] = 0 /\ UNCHANGED <<deleted, worker, handled>>
    BY <1>0, <1>12 DEF sendMsg, TaskInv
  <2>2. Len(sent) <= Len(sent') /\ Len(sent') \in Nat /\ \A i \in 1..Len(sent) : sent'[i] = sent[i]
    BY <1>12, <1>s DEF sendMsg
  <2>3. Done' = Done /\ Done \in Int
    BY <1>0, <2>1 DEF Done, TaskTypes
  <2>4. QED
    BY <1>0, <1>2, <2>1, <2>2, <2>3, MessagesStay DEF FateInv
<1>13. CASE Construct \/ destroy \/ Disown \/ stop \/ Join \/ UNCHANGED taskVars
  <2>1. UNCHANGED <<deleted, sent, handled>> /\ Done' = Done
    BY <1>0, <1>13 DEF Construct, destroy, Disown, stop, Join, Done, TaskInv
  <2>2. misused' \subseteq {"mThread"}
    <3>1. CASE destroy
      BY <1>0, <1>2, <3>1 DEF destroy, TaskInv
    <3>2. CASE stop
      <4>1. deleted["delegate"] = 0
        BY <1>0, <3>2 DEF stop, DelegateInv, TaskInv, TaskTypes
      <4>2. QED
        BY <1>2, <3>2, <4>1 DEF stop
    <3>3. QED
      BY <1>0, <1>13, <3>1, <3>2 DEF Construct, Disown, Join
  <2>3. QED
    BY <1>0, <2>1, <2>2 DEF FateInv, MessageInv
<1>14. QED
  BY <1>5, <1>6, <1>7, <1>8, <1>9, <1>10, <1>11, <1>12, <1>13 DEF TaskNext, Worker, Destroying

\* The invariant is inductive.
LEMMA TaskInvStep == TaskIInv /\ [TaskNext]_taskVars => TaskIInv'
BY TaskTypeStep, ListStep, TaskStep, DelegateStep, FateStep DEF TaskIInv, TaskLife

\* Messages are handled in the order in which they were put on the queue, none twice and
\* none left out between two others, whenever the worker waits and whoever sends
\* (msg_q_snd, msg_q_rcv and the list under them): InOrder.
THEOREM AlwaysInOrder == TaskSpec => []InOrder
<1>1. TaskIInv => InOrder
  <2> SUFFICES ASSUME TaskIInv
               PROVE  InOrder
    OBVIOUS
  <2>2. /\ handled \in Seq(Messages) /\ sent \in Seq(Messages) /\ Len(handled) <= Len(sent)
        /\ \A i \in 1..Len(handled) : handled[i] = sent[i]
    <3>1. /\ Len(handled) \in Nat /\ Len(sent) \in Nat /\ Taken \in Nat /\ Taken <= Len(sent)
          /\ Len(handled) <= Taken
      BY DEF TaskIInv, TaskTypes, ListInv, Taken
    <3>2. QED
      BY <3>1 DEF TaskIInv, TaskTypes, ListInv
  <2>3. SubSeq(handled, 1, Len(handled)) = SubSeq(sent, 1, Len(handled))
    BY <2>2
  <2>4. QED
    BY <2>2, <2>3 DEF InOrder, IsPrefix
<1>2. QED
  BY <1>1, TaskInvInit, TaskInvStep, PTL DEF TaskSpec

\* No message, and neither the task, the thread nor the delegate, is deleted twice or used
\* after it was: not by the handling and the flush of the queue, nor by the worker and the
\* owner that destroy the delegate at the same time (LocThreadDelegate::destroy). Only
\* LocThread's mThread may be read after its object is gone: DeletedOnce.
THEOREM AlwaysDeletedOnce == TaskSpec => []DeletedOnce
<1>1. TaskIInv => DeletedOnce
  BY DEF TaskIInv, TaskLife, TaskInv, DelegateInv, FateInv, MessageInv, DeletedOnce, Objects
<1>2. QED
  BY <1>1, TaskInvInit, TaskInvStep, PTL DEF TaskSpec

-----------------------------------------------------------------------------
(***************************************************************************)
(* LocHeap. For any objects and ranks: the tree is what checkTree asks for, *)
(* and it is the set that RankedSet promises.                              *)
(*                                                                         *)
(* An operation changes the nodes along one way down from the top; every   *)
(* node and its child are on it or the child is not. What is at the end of a *)
(* way follows from the least depth at which it would not hold, for which the *)
(* intervals of naturals are a well-founded order.                         *)
(***************************************************************************)

\* A set of naturals has a least member: the intervals below them are well-founded.
LEMMA LeastOf ==
  ASSUME NEW S \in SUBSET Nat, S # {}
  PROVE  \E n \in S : \A m \in S : n <= m
<1> DEFINE Below == {0 .. n - 1 : n \in S}
<1>1. \A n \in S : 0 .. n - 1 \in FiniteSubsetsOf(Nat)
  BY FS_Interval DEF FiniteSubsetsOf
<1>2. Below \subseteq FiniteSubsetsOf(Nat) /\ Below # {}
  BY <1>1
<1>3. IsWellFoundedOn(StrictSubsetOrdering(Nat), FiniteSubsetsOf(Nat))
  BY FS_StrictSubsetOrderingWellFounded
<1>4. \E x \in Below : \A y \in Below : <<y, x>> \notin StrictSubsetOrdering(Nat)
  BY <1>2, <1>3, WFMin
<1>5. PICK n \in S : \A m \in S : <<0 .. m - 1, 0 .. n - 1>> \notin StrictSubsetOrdering(Nat)
  BY <1>4
<1>6. ASSUME NEW m \in S, m < n
      PROVE  FALSE
  <2>1. n \in Nat /\ m \in Nat
    OBVIOUS
  <2>2. m \in 0 .. n - 1 /\ m \notin 0 .. m - 1
    BY <1>6, <2>1
  <2>3. 0 .. m - 1 \subseteq 0 .. n - 1 /\ 0 .. m - 1 \in SUBSET Nat /\ 0 .. n - 1 \in SUBSET Nat
    BY <1>6, <2>1
  <2>4. <<0 .. m - 1, 0 .. n - 1>> \in StrictSubsetOrdering(Nat)
    BY <2>2, <2>3 DEF StrictSubsetOrdering
  <2>5. QED
    BY <1>5, <2>4
<1>7. QED
  BY <1>6

Sides == {"left", "right"}
Paths == Seq(Sides)

\* Sequences are equal that have the same members.
LEMMA SamePath ==
  ASSUME NEW x \in Paths, NEW y \in Paths, Len(x) = Len(y), \A i \in 1..Len(x) : x[i] = y[i]
  PROVE  x = y
BY DEF Paths

\* The first k sides of a way.
LEMMA PartOfWay ==
  ASSUME NEW p \in Paths, NEW k \in 0..Len(p)
  PROVE  /\ SubSeq(p, 1, k) \in WayTo(p) /\ SubSeq(p, 1, k) \in Paths
         /\ Len(SubSeq(p, 1, k)) = k /\ \A i \in 1..k : SubSeq(p, 1, k)[i] = p[i]
<1>1. SubSeq(p, 1, k) \in WayTo(p)
  BY Zenon DEF WayTo
<1>2. QED
  BY <1>1 DEF Paths

\* The nodes on the way to p are those before p, one at each depth.
LEMMA WayDown ==
  ASSUME NEW p \in Paths, NEW x \in WayTo(p)
  PROVE  /\ x \in Paths /\ Len(x) \in 0..Len(p) /\ x = SubSeq(p, 1, Len(x))
         /\ \A i \in 1..Len(x) : x[i] = p[i]
         /\ Len(x) = Len(p) => x = p
<1>1. PICK k \in 0..Len(p) : x = SubSeq(p, 1, k)
  BY DEF WayTo
<1>2. x \in Paths /\ Len(x) = k /\ \A i \in 1..Len(x) : x[i] = p[i]
  BY <1>1, PartOfWay
<1>3. Len(x) = Len(p) => x = p
  BY <1>2, SamePath
<1>4. QED
  BY <1>1, <1>2, <1>3

\* The node at x's depth that agrees with p is on the way to p.
LEMMA OnTheWay ==
  ASSUME NEW p \in Paths, NEW x \in Paths, Len(x) <= Len(p), \A i \in 1..Len(x) : x[i] = p[i]
  PROVE  x \in WayTo(p)
<1>1. Len(x) \in 0..Len(p)
  BY DEF Paths
<1>2. /\ SubSeq(p, 1, Len(x)) \in WayTo(p) /\ SubSeq(p, 1, Len(x)) \in Paths
      /\ Len(SubSeq(p, 1, Len(x))) = Len(x)
      /\ \A i \in 1..Len(x) : SubSeq(p, 1, Len(x))[i] = p[i]
  BY <1>1, PartOfWay
<1>3. x = SubSeq(p, 1, Len(x))
  BY <1>2, SamePath
<1>4. QED
  BY <1>2, <1>3

\* A way starts at the top and ends at its node.
LEMMA WayEnds ==
  ASSUME NEW p \in Paths
  PROVE  /\ p \in WayTo(p) /\ Top \in WayTo(p)
         /\ Top \in Paths /\ Len(Top) = 0 /\ Len(p) \in Nat
<1>1. Len(p) \in Nat /\ Top \in Paths /\ Len(Top) = 0
  BY DEF Paths, Top
<1>2. p \in WayTo(p)
  BY <1>1, OnTheWay
<1>3. Top \in WayTo(p)
  BY <1>1, OnTheWay
<1>4. QED
  BY <1>1, <1>2, <1>3

\* One side more.
LEMMA AppendPath ==
  ASSUME NEW x \in Paths, NEW s \in Sides
  PROVE  /\ Append(x, s) \in Paths /\ Len(x) \in Nat /\ Len(Append(x, s)) = Len(x) + 1
         /\ Append(x, s)[Len(x) + 1] = s /\ \A i \in 1..Len(x) : Append(x, s)[i] = x[i]
         /\ SubSeq(Append(x, s), 1, Len(x)) = x
BY DEF Paths

\* The next node on the way.
LEMMA WayNext ==
  ASSUME NEW p \in Paths, NEW x \in WayTo(p), x # p
  PROVE  /\ Len(x) < Len(p) /\ SideAt(p, x) \in Sides
         /\ Append(x, SideAt(p, x)) = SubSeq(p, 1, Len(x) + 1)
         /\ Append(x, SideAt(p, x)) \in WayTo(p)
<1>1. /\ x \in Paths /\ Len(x) \in 0..Len(p) /\ Len(p) \in Nat /\ Len(x) # Len(p)
      /\ \A i \in 1..Len(x) : x[i] = p[i]
  BY WayDown, WayEnds
<1>2. Len(x) < Len(p) /\ SideAt(p, x) \in Sides
  BY <1>1 DEF Paths, SideAt
<1> DEFINE y == Append(x, SideAt(p, x))
           z == SubSeq(p, 1, Len(x) + 1)
<1>3. /\ y \in Paths /\ Len(y) = Len(x) + 1 /\ y[Len(x) + 1] = p[Len(x) + 1]
      /\ \A i \in 1..Len(x) : y[i] = p[i]
  BY <1>1, <1>2, AppendPath DEF SideAt
<1>4. z \in Paths /\ Len(z) = Len(x) + 1 /\ \A i \in 1 .. Len(x) + 1 : z[i] = p[i]
  BY <1>1, <1>2 DEF Paths
<1>5. y = z
  BY <1>1, <1>3, <1>4, SamePath
<1>6. z \in WayTo(p)
  BY <1>1, <1>2 DEF WayTo
<1>7. QED
  BY <1>2, <1>5, <1>6

\* What is above a node on the way is on it.
LEMMA WayAbove ==
  ASSUME NEW p \in Paths, NEW x \in Paths, NEW s \in Sides, Append(x, s) \in WayTo(p)
  PROVE  x \in WayTo(p) /\ x # p /\ s = SideAt(p, x)
<1> DEFINE y == Append(x, s)
<1>1. /\ y \in Paths /\ Len(x) \in Nat /\ Len(y) = Len(x) + 1 /\ y[Len(x) + 1] = s
      /\ \A i \in 1..Len(x) : y[i] = x[i]
  BY AppendPath
<1>2. Len(y) \in 0..Len(p) /\ \A i \in 1..Len(y) : y[i] = p[i]
  BY WayDown
<1>3. Len(p) \in Nat /\ Len(x) < Len(p)
  BY <1>1, <1>2, WayEnds
<1>4. \A i \in 1..Len(x) : x[i] = p[i]
  BY <1>1, <1>2
<1>5. x \in WayTo(p)
  BY <1>3, <1>4, OnTheWay
<1>6. QED
  BY <1>1, <1>2, <1>3, <1>5 DEF SideAt

\* A way to a node on the way is part of it.
LEMMA WayOfWay ==
  ASSUME NEW p \in Paths, NEW x \in WayTo(p), NEW y \in WayTo(p)
  PROVE  /\ Len(x) <= Len(y) => x \in WayTo(y)
         /\ Len(x) = Len(y) => x = y
<1>1. /\ x \in Paths /\ y \in Paths /\ Len(x) \in Nat /\ Len(y) \in Nat
      /\ \A i \in 1..Len(x) : x[i] = p[i]
      /\ \A i \in 1..Len(y) : y[i] = p[i]
  BY WayDown, WayEnds
<1>2. Len(x) = Len(y) => x = y
  BY <1>1, SamePath
<1>3. ASSUME Len(x) <= Len(y)
      PROVE  x \in WayTo(y)
  <2>1. \A i \in 1..Len(x) : x[i] = y[i]
    BY <1>1, <1>3
  <2>2. QED
    BY <1>1, <1>3, <2>1, OnTheWay
<1>4. QED
  BY <1>2, <1>3

\* A node's children.
Children(y) == {Left(y), Right(y)}

\* A child is one side further down.
LEMMA ChildOf ==
  ASSUME NEW y \in Paths, NEW c \in Children(y)
  PROVE  c \in Paths /\ c # y /\ Len(c) = Len(y) + 1 /\ Len(y) \in Nat /\ y \in WayTo(c)
<1>1. PICK s \in Sides : c = Append(y, s)
  BY DEF Children, Left, Right, Sides
<1>2. c \in Paths /\ Len(c) = Len(y) + 1 /\ Len(y) \in Nat /\ \A i \in 1..Len(y) : c[i] = y[i]
  BY <1>1, AppendPath
<1>3. y \in WayTo(c)
  BY <1>2, OnTheWay
<1>4. QED
  BY <1>2, <1>3

\* A way that passes through a node goes on to one of its children.
LEMMA Branch ==
  ASSUME NEW p \in Paths, NEW y \in WayTo(p), y # p
  PROVE  \/ /\ SideAt(p, y) = "left" /\ SubSeq(p, 1, Len(y) + 1) = Left(y)
            /\ Left(y) \in WayTo(p) /\ Right(y) \notin WayTo(p)
         \/ /\ SideAt(p, y) = "right" /\ SubSeq(p, 1, Len(y) + 1) = Right(y)
            /\ Right(y) \in WayTo(p) /\ Left(y) \notin WayTo(p)
<1>1. /\ SideAt(p, y) \in Sides /\ Append(y, SideAt(p, y)) = SubSeq(p, 1, Len(y) + 1)
      /\ Append(y, SideAt(p, y)) \in WayTo(p)
  BY WayNext
<1>2. y \in Paths
  BY WayDown
<1>3. \A s \in Sides : Append(y, s) \in WayTo(p) => s = SideAt(p, y)
  BY <1>2, WayAbove
<1>4. Left(y) = Append(y, "left") /\ Right(y) = Append(y, "right")
  BY DEF Left, Right
<1>5. "left" \in Sides /\ "right" \in Sides /\ "left" # "right"
  BY DEF Sides
<1>6. CASE SideAt(p, y) = "left"
  BY <1>1, <1>3, <1>4, <1>5, <1>6
<1>7. CASE SideAt(p, y) = "right"
  BY <1>1, <1>3, <1>4, <1>5, <1>7
<1>8. QED
  BY <1>1, <1>6, <1>7 DEF Sides

\* A way to a child passes through its parent.
LEMMA NoBranch ==
  ASSUME NEW p \in Paths, NEW y \in Paths, NEW c \in Children(y), c \in WayTo(p)
  PROVE  y \in WayTo(p) /\ y # p /\ c = SubSeq(p, 1, Len(y) + 1)
<1>1. PICK s \in Sides : c = Append(y, s)
  BY DEF Children, Left, Right, Sides
<1>2. y \in WayTo(p) /\ y # p /\ s = SideAt(p, y)
  BY <1>1, WayAbove
<1>3. QED
  BY <1>1, <1>2, WayNext

-----------------------------------------------------------------------------
HeapTypes ==
  /\ Nodes \subseteq Paths
  /\ \A y \in Nodes : tree[y] \in Data /\ mSize[y] \in Nat
  /\ answer \in Data \cup {NoData}

\* CheckTree in three parts.
Ordered == \A y \in Nodes : \A c \in Children(y) : c \in Nodes => ~outRanks(tree[c], tree[y])
Counted == \A y \in Nodes : mSize[y] = 1 + SizeAt(Left(y)) + SizeAt(Right(y))
Rooted  == \A y \in Nodes : WayTo(y) \subseteq Nodes

TreeInv == HeapTypes /\ Ordered /\ Counted /\ Rooted

\* CheckTree is its three parts.
LEMMA TreeParts == CheckTree <=> Ordered /\ Counted /\ Rooted
BY DEF CheckTree, Ordered, Counted, Rooted, Children

\* What is given up is not above what is kept.
LEMMA KeptDropped ==
  ASSUME NEW new \in Data, NEW old \in Data
  PROVE  /\ Kept(new, old) \in {new, old} /\ Dropped(new, old) \in {new, old}
         /\ Kept(new, old) = new \/ Dropped(new, old) = new
         /\ Kept(new, old) = old \/ Dropped(new, old) = old
         /\ ~outRanks(new, Kept(new, old)) /\ ~outRanks(old, Kept(new, old))
         /\ ~outRanks(Dropped(new, old), Kept(new, old))
BY RankAssumption DEF Kept, Dropped, outRanks

\* Not to outrank is transitive: ranks are integers.
LEMMA RankOrder ==
  ASSUME NEW a \in Data, NEW b \in Data, NEW c \in Data, ~outRanks(a, b), ~outRanks(b, c)
  PROVE  ~outRanks(a, c)
BY RankAssumption DEF outRanks

\* What a push does, along the way to the new leaf.
Pushed(d, p, coming) ==
  /\ p \in Paths /\ p \notin Nodes
  /\ \A y \in WayTo(p) : y # p => y \in Nodes
  /\ \A c \in Children(p) : c \notin Nodes
  /\ \A k \in 0..Len(p) : coming[k] \in Data
  /\ coming[0] = d
  /\ \A y \in WayTo(p) : y # p => /\ coming[Len(y) + 1] = Dropped(coming[Len(y)], tree[y])
                                  /\ tree'[y] = Kept(coming[Len(y)], tree[y])
                                  /\ mSize'[y] = mSize[y] + 1
  /\ Nodes' = Nodes \cup {p}
  /\ tree'[p] = coming[Len(p)] /\ mSize'[p] = 1
  /\ \A y \in Nodes : y \notin WayTo(p) => tree'[y] = tree[y] /\ mSize'[y] = mSize[y]
  /\ answer' = answer

\* A push follows the smaller sides to a leaf that is free, where the last data stay.
LEMMA PushAlong ==
  ASSUME TreeInv, NEW d \in Data, push(d)
  PROVE  \E p, coming : Pushed(d, p, coming)
<1>1. PICK p \in FreeLeaves : \E coming \in [0..Len(p) -> Data] :
        /\ ComesDown(coming, d, p)
        /\ tree' = [x \in Nodes \cup {p} |->
                      IF x = p THEN coming[Len(p)]
                      ELSE IF x \in WayTo(p) THEN Kept(coming[Len(x)], tree[x]) ELSE tree[x]]
        /\ mSize' = Grown(p)
  BY DEF push
<1>2. PICK coming \in [0..Len(p) -> Data] :
        /\ ComesDown(coming, d, p)
        /\ tree' = [x \in Nodes \cup {p} |->
                      IF x = p THEN coming[Len(p)]
                      ELSE IF x \in WayTo(p) THEN Kept(coming[Len(x)], tree[x]) ELSE tree[x]]
        /\ mSize' = Grown(p)
  BY <1>1
<1>3. p \in Paths
  <2>1. p = Top \/ \E x \in Nodes : p \in Children(x)
    BY DEF FreeLeaves, Children
  <2>2. \A x \in Nodes : x \in Paths
    BY DEF TreeInv, HeapTypes
  <2>3. Top \in Paths
    BY DEF Top, Paths
  <2>4. QED
    BY <2>1, <2>2, <2>3, ChildOf
<1>4. p \notin Nodes /\ \A y \in WayTo(p) : y # p => y \in Nodes
  BY DEF FreeLeaves
<1>5. ASSUME NEW c \in Children(p), c \in Nodes
      PROVE  FALSE
  <2>1. p \in WayTo(c)
    BY <1>3, ChildOf
  <2>2. WayTo(c) \subseteq Nodes
    BY <1>5 DEF TreeInv, Rooted
  <2>3. QED
    BY <1>4, <2>1, <2>2
<1>6. ASSUME NEW y \in WayTo(p), y # p
      PROVE  /\ coming[Len(y) + 1] = Dropped(coming[Len(y)], tree[y])
             /\ tree'[y] = Kept(coming[Len(y)], tree[y])
             /\ mSize'[y] = mSize[y] + 1
  <2>1. y = SubSeq(p, 1, Len(y)) /\ Len(y) \in 0 .. Len(p) - 1
    BY <1>3, <1>6, WayDown, WayNext
  <2>2. coming[Len(y) + 1] = Dropped(coming[Len(y)], tree[SubSeq(p, 1, Len(y))])
    BY <1>2, <2>1 DEF ComesDown
  <2>3. y \in Nodes
    BY <1>4, <1>6
  <2>4. QED
    BY <1>2, <1>6, <2>1, <2>2, <2>3 DEF Grown
<1>7. Nodes' = Nodes \cup {p} /\ tree'[p] = coming[Len(p)] /\ mSize'[p] = 1
  BY <1>2 DEF Nodes, Grown
<1>8. \A y \in Nodes : y \notin WayTo(p) => tree'[y] = tree[y] /\ mSize'[y] = mSize[y]
  BY <1>2, <1>4 DEF Grown
<1>9. coming[0] = d /\ \A k \in 0..Len(p) : coming[k] \in Data
  BY <1>2 DEF ComesDown
<1>10. answer' = answer
  BY DEF push
<1>11. Pushed(d, p, coming)
  BY <1>3, <1>4, <1>5, <1>6, <1>7, <1>8, <1>9, <1>10 DEF Pushed
<1>12. QED
  BY <1>11

\* After a push the nodes have data and sizes.
LEMMA PushTypes ==
  ASSUME TreeInv, NEW d, NEW p, NEW coming, Pushed(d, p, coming)
  PROVE  HeapTypes'
<1>1. Nodes' \subseteq Paths
  BY DEF Pushed, TreeInv, HeapTypes
<1>2. ASSUME NEW y \in Nodes'
      PROVE  (tree[y])' \in Data /\ (mSize[y])' \in Nat
  <2>1. CASE y = p
    <3>1. Len(p) \in 0..Len(p)
      BY WayEnds DEF Pushed
    <3>2. QED
      BY <2>1, <3>1 DEF Pushed
  <2>2. CASE y # p /\ y \in WayTo(p)
    <3>1. Len(y) \in 0..Len(p) /\ y \in Nodes
      BY <2>2, WayDown DEF Pushed
    <3>2. coming[Len(y)] \in Data /\ tree[y] \in Data /\ mSize[y] \in Nat
      BY <3>1 DEF Pushed, TreeInv, HeapTypes
    <3>3. tree'[y] = Kept(coming[Len(y)], tree[y]) /\ mSize'[y] = mSize[y] + 1
      BY <2>2 DEF Pushed
    <3>4. QED
      BY <3>2, <3>3, KeptDropped
  <2>3. CASE y # p /\ y \notin WayTo(p)
    BY <1>2, <2>3 DEF Pushed, TreeInv, HeapTypes
  <2>4. QED
    BY <2>1, <2>2, <2>3
<1>3. answer' \in Data \cup {NoData}
  BY DEF Pushed, TreeInv, HeapTypes
<1>4. QED
  BY <1>1, <1>2, <1>3 DEF HeapTypes

\* After a push no child outranks its parent: each node on the way keeps the higher of the
\* two and passes on the lower, of which no other child was higher.
LEMMA PushOrdered ==
  ASSUME TreeInv, NEW d, NEW p, NEW coming, Pushed(d, p, coming)
  PROVE  Ordered'
<1> SUFFICES ASSUME NEW y \in Nodes', NEW c \in Children(y), c \in Nodes'
             PROVE  ~outRanks(tree'[c], tree'[y])
  BY DEF Ordered, Children, outRanks, Left, Right
<1>1. p \in Paths /\ Nodes' = Nodes \cup {p} /\ Nodes \subseteq Paths
  BY DEF Pushed, TreeInv, HeapTypes
<1>2. y \in Paths /\ c \in Paths /\ c # y
  BY <1>1, ChildOf
<1>3. y # p /\ y \in Nodes /\ tree[y] \in Data
  <2>1. y # p
    BY <1>1, <1>2 DEF Pushed
  <2>2. QED
    BY <1>1, <2>1 DEF TreeInv, HeapTypes
<1>4. CASE c \in WayTo(p)
  <2>1. y \in WayTo(p) /\ Len(c) = Len(y) + 1
    BY <1>1, <1>2, <1>4, NoBranch, ChildOf
  <2>2. Len(y) \in 0..Len(p) /\ Len(c) \in 0..Len(p)
    BY <1>1, <1>4, <2>1, WayDown
  <2>3. coming[Len(y)] \in Data /\ coming[Len(c)] \in Data
    BY <2>2 DEF Pushed
  <2>4. tree'[y] = Kept(coming[Len(y)], tree[y])
        /\ coming[Len(c)] = Dropped(coming[Len(y)], tree[y])
    BY <1>3, <2>1 DEF Pushed
  <2>5. ~outRanks(coming[Len(c)], tree'[y]) /\ ~outRanks(tree[y], tree'[y])
        /\ tree'[y] \in Data
    BY <1>3, <2>3, <2>4, KeptDropped
  <2>6. CASE c = p
    BY <2>5, <2>6 DEF Pushed
  <2>7. CASE c # p
    <3>1. tree'[c] = Kept(coming[Len(c)], tree[c]) /\ c \in Nodes /\ tree[c] \in Data
      BY <1>4, <2>7 DEF Pushed, TreeInv, HeapTypes
    <3>2. ~outRanks(tree[c], tree[y])
      BY <1>3, <3>1 DEF TreeInv, Ordered
    <3>3. ~outRanks(tree[c], tree'[y])
      BY <1>3, <2>5, <3>1, <3>2, RankOrder
    <3>4. tree'[c] \in {coming[Len(c)], tree[c]}
      BY <2>3, <3>1, KeptDropped
    <3>5. QED
      BY <2>5, <3>3, <3>4
  <2>8. QED
    BY <2>6, <2>7
<1>5. CASE c \notin WayTo(p)
  <2>1. c \in Nodes
    BY <1>1, <1>5, WayEnds
  <2>2. tree'[c] = tree[c] /\ tree[c] \in Data
    BY <1>5, <2>1 DEF Pushed, TreeInv, HeapTypes
  <2>3. ~outRanks(tree[c], tree[y])
    BY <1>3, <2>1 DEF TreeInv, Ordered
  <2>4. CASE y \in WayTo(p)
    <3>1. coming[Len(y)] \in Data /\ tree'[y] = Kept(coming[Len(y)], tree[y])
      BY <1>1, <1>3, <2>4, WayDown DEF Pushed
    <3>2. ~outRanks(tree[y], tree'[y]) /\ tree'[y] \in Data
      BY <1>3, <3>1, KeptDropped
    <3>3. QED
      BY <1>3, <2>2, <2>3, <3>2, RankOrder
  <2>5. CASE y \notin WayTo(p)
    BY <1>3, <2>2, <2>3, <2>5 DEF Pushed
  <2>6. QED
    BY <2>4, <2>5
<1>6. QED
  BY <1>4, <1>5

\* After a push the sizes on the way are one more, of a node and of one of its children.
LEMMA PushCounted ==
  ASSUME TreeInv, NEW d, NEW p, NEW coming, Pushed(d, p, coming)
  PROVE  Counted'
<1> DEFINE Count(y) == IF y \in Nodes' THEN mSize'[y] ELSE 0
<1> SUFFICES ASSUME NEW y \in Nodes'
             PROVE  mSize'[y] = 1 + Count(Left(y)) + Count(Right(y))
  BY DEF Counted, SizeAt, Left, Right
<1>1. p \in Paths /\ Nodes' = Nodes \cup {p} /\ Nodes \subseteq Paths /\ p \notin Nodes
  BY DEF Pushed, TreeInv, HeapTypes
<1>2. y \in Paths /\ Left(y) # y /\ Right(y) # y
  BY <1>1, ChildOf DEF Children
<1>3. \A x \in Nodes : mSize[x] \in Nat
  BY DEF TreeInv, HeapTypes
<1>4. \A c : c \notin WayTo(p) => Count(c) = SizeAt(c)
  <2>1. p \in WayTo(p)
    BY <1>1, WayEnds
  <2>2. QED
    BY <1>1, <2>1 DEF Pushed, SizeAt
<1>5. \A c \in WayTo(p) : Count(c) = SizeAt(c) + 1
  <2> SUFFICES ASSUME NEW c \in WayTo(p)
               PROVE  Count(c) = SizeAt(c) + 1
    OBVIOUS
  <2>1. CASE c = p
    BY <1>1, <2>1 DEF Pushed, SizeAt
  <2>2. CASE c # p
    BY <1>1, <2>2 DEF Pushed, SizeAt
  <2>3. QED
    BY <2>1, <2>2
<1>6. \A c : SizeAt(c) \in Nat
  BY <1>3 DEF SizeAt
<1>7. y \in Nodes => mSize[y] = 1 + SizeAt(Left(y)) + SizeAt(Right(y))
  BY DEF TreeInv, Counted
<1> HIDE DEF Count
<1>8. CASE y = p
  <2>1. Left(p) \notin Nodes' /\ Right(p) \notin Nodes'
    BY <1>1, <1>2, <1>8 DEF Pushed, Children
  <2>2. QED
    BY <1>8, <2>1 DEF Pushed, Count
<1>9. CASE y # p /\ y \in WayTo(p)
  <2>1. mSize'[y] = mSize[y] + 1 /\ y \in Nodes
    BY <1>9 DEF Pushed
  <2>2. Count(Left(y)) + Count(Right(y)) = SizeAt(Left(y)) + SizeAt(Right(y)) + 1
    <3>1. \/ Left(y) \in WayTo(p) /\ Right(y) \notin WayTo(p)
          \/ Right(y) \in WayTo(p) /\ Left(y) \notin WayTo(p)
      BY <1>1, <1>9, Branch
    <3>2. QED
      BY <1>4, <1>5, <1>6, <3>1
  <2>3. Count(Left(y)) \in Nat /\ Count(Right(y)) \in Nat
    BY <1>4, <1>5, <1>6
  <2>4. QED
    BY <1>6, <1>7, <2>1, <2>2, <2>3
<1>10. CASE y # p /\ y \notin WayTo(p)
  <2>1. Left(y) \notin WayTo(p) /\ Right(y) \notin WayTo(p)
    BY <1>1, <1>2, <1>10, NoBranch DEF Children
  <2>2. y \in Nodes /\ mSize'[y] = mSize[y]
    BY <1>1, <1>10 DEF Pushed
  <2>3. QED
    BY <1>4, <1>7, <2>1, <2>2
<1>11. QED
  BY <1>8, <1>9, <1>10

\* After a push every node hangs from another: the new one from the end of the way.
LEMMA PushRooted ==
  ASSUME TreeInv, NEW d, NEW p, NEW coming, Pushed(d, p, coming)
  PROVE  Rooted'
<1> SUFFICES ASSUME NEW y \in Nodes'
             PROVE  WayTo(y) \subseteq Nodes'
  BY DEF Rooted, WayTo
<1>1. CASE y = p
  BY <1>1 DEF Pushed
<1>2. CASE y # p
  BY <1>2 DEF Pushed, TreeInv, Rooted
<1>3. QED
  BY <1>1, <1>2

-----------------------------------------------------------------------------
\* Where the data come up, on the way of heirs from q to the leaf r.
Below(y, q, r) == y \in WayTo(r) /\ Len(y) >= Len(q)
NextDown(y, r) == SubSeq(r, 1, Len(y) + 1)

\* What taking out the node q does, along the way to the leaf r that goes.
TakenOut(q, r) ==
  /\ q \in Nodes /\ r \in Nodes /\ IsLeaf(r) /\ q \in WayTo(r)
  /\ \A y \in WayTo(r) : y # r => /\ y \in Nodes /\ NextDown(y, r) \in Nodes
                                  /\ NextDown(y, r) \in WayTo(r)
                                  /\ Len(NextDown(y, r)) = Len(y) + 1
                                  /\ NextDown(y, r) \in Children(y)
  /\ \A y : Below(y, q, r) /\ y # r => /\ SideAt(r, y) = HeirSide(y)
                                       /\ tree'[y] = tree[NextDown(y, r)]
  /\ \A y \in WayTo(r) : y # r => mSize'[y] = mSize[y] - 1
  /\ Nodes' = Nodes \ {r}
  /\ \A y \in Nodes : y # r /\ ~Below(y, q, r) => tree'[y] = tree[y]
  /\ \A y \in Nodes : y \notin WayTo(r) => mSize'[y] = mSize[y]
  /\ answer' = tree[q]

\* LocHeapNode::pop follows the heirs to a leaf, which goes.
LEMMA TakeOutAlong ==
  ASSUME TreeInv, NEW q \in Nodes, TakeOut(q)
  PROVE  \E r : TakenOut(q, r)
<1>1. PICK r \in LastHeirs(q) :
        /\ tree' = [x \in Nodes \ {r} |->
                      IF x \in WayTo(r) /\ Len(x) >= Len(q) THEN tree[SubSeq(r, 1, Len(x) + 1)]
                      ELSE tree[x]]
        /\ mSize' = [x \in Nodes \ {r} |-> IF x \in WayTo(r) THEN mSize[x] - 1 ELSE mSize[x]]
        /\ answer' = tree[q]
  BY DEF TakeOut
<1>2. /\ r \in Nodes /\ IsLeaf(r) /\ q \in WayTo(r)
      /\ \A x \in WayTo(r) \ {r} : Len(x) >= Len(q) => SideAt(r, x) = HeirSide(x)
  BY DEF LastHeirs
<1>3. r \in Paths /\ WayTo(r) \subseteq Nodes
  BY <1>2 DEF TreeInv, HeapTypes, Rooted
<1>4. ASSUME NEW y \in WayTo(r), y # r
      PROVE  /\ y \in Nodes /\ NextDown(y, r) \in Nodes /\ NextDown(y, r) \in WayTo(r)
             /\ Len(NextDown(y, r)) = Len(y) + 1 /\ NextDown(y, r) \in Children(y)
  <2>1. NextDown(y, r) \in WayTo(r) /\ NextDown(y, r) \in Children(y)
    BY <1>3, <1>4, Branch DEF NextDown, Children
  <2>2. y \in Paths
    BY <1>3, WayDown
  <2>3. QED
    BY <1>3, <2>1, <2>2, ChildOf
<1>5. ASSUME NEW y, Below(y, q, r), y # r
      PROVE  SideAt(r, y) = HeirSide(y) /\ tree'[y] = tree[NextDown(y, r)]
  BY <1>1, <1>2, <1>3, <1>5 DEF Below, NextDown
<1>6. \A y \in WayTo(r) : y # r => mSize'[y] = mSize[y] - 1
  BY <1>1, <1>3
<1>7. Nodes' = Nodes \ {r}
  BY <1>1 DEF Nodes
<1>8. \A y \in Nodes : y # r /\ ~Below(y, q, r) => tree'[y] = tree[y]
  BY <1>1 DEF Below
<1>9. \A y \in Nodes : y \notin WayTo(r) => mSize'[y] = mSize[y]
  <2>1. r \in WayTo(r)
    BY <1>3, WayEnds
  <2>2. QED
    BY <1>1, <2>1
<1>10. TakenOut(q, r)
  BY <1>1, <1>2, <1>4, <1>5, <1>6, <1>7, <1>8, <1>9 DEF TakenOut
<1>11. QED
  BY <1>10

\* Afterwards the nodes have data and sizes.
LEMMA TakeOutTypes ==
  ASSUME TreeInv, NEW q, NEW r, TakenOut(q, r)
  PROVE  HeapTypes'
<1>1. Nodes' \subseteq Paths
  BY DEF TakenOut, TreeInv, HeapTypes
<1>2. ASSUME NEW y \in Nodes'
      PROVE  tree'[y] \in Data /\ mSize'[y] \in Nat
  <2>1. y \in Nodes /\ y # r
    BY DEF TakenOut
  <2>2. tree'[y] \in Data
    <3>1. CASE Below(y, q, r)
      <4>1. tree'[y] = tree[NextDown(y, r)] /\ NextDown(y, r) \in Nodes
        BY <2>1, <3>1 DEF TakenOut, Below
      <4>2. QED
        BY <4>1 DEF TreeInv, HeapTypes
    <3>2. CASE ~Below(y, q, r)
      BY <2>1, <3>2 DEF TakenOut, TreeInv, HeapTypes
    <3>3. QED
      BY <3>1, <3>2
  <2>3. mSize'[y] \in Nat
    <3>1. mSize[y] = 1 + SizeAt(Left(y)) + SizeAt(Right(y))
      BY <2>1 DEF TreeInv, Counted
    <3>2. SizeAt(Left(y)) \in Nat /\ SizeAt(Right(y)) \in Nat
      BY DEF TreeInv, HeapTypes, SizeAt
    <3>3. mSize'[y] = mSize[y] \/ mSize'[y] = mSize[y] - 1
      BY <2>1 DEF TakenOut
    <3>4. mSize[y] - 1 \in Nat /\ mSize[y] \in Nat
      BY <3>1, <3>2
    <3>5. QED
      BY <3>3, <3>4
  <2>4. QED
    BY <2>2, <2>3
<1>3. answer' \in Data \cup {NoData}
  BY DEF TakenOut, TreeInv, HeapTypes
<1>4. QED
  BY <1>1, <1>2, <1>3 DEF HeapTypes

\* The heir is the child that the other does not outrank.
LEMMA HeirIsHighest ==
  ASSUME TreeInv, NEW q, NEW r, TakenOut(q, r), NEW y, Below(y, q, r), y # r,
         NEW c \in Children(y), c \in Nodes
  PROVE  ~outRanks(tree[c], tree[NextDown(y, r)])
<1>1. r \in Paths /\ y \in WayTo(r) /\ SideAt(r, y) = HeirSide(y) /\ NextDown(y, r) \in Nodes
  BY DEF TakenOut, Below, TreeInv, HeapTypes
<1>2. tree[c] \in Data /\ tree[NextDown(y, r)] \in Data
  BY <1>1 DEF TreeInv, HeapTypes
<1>3. CASE SideAt(r, y) = "left" /\ NextDown(y, r) = Left(y)
  BY <1>1, <1>2, <1>3, RankAssumption DEF HeirSide, outRanks, Children
<1>4. CASE SideAt(r, y) = "right" /\ NextDown(y, r) = Right(y)
  BY <1>1, <1>2, <1>4, RankAssumption DEF HeirSide, outRanks, Children
<1>5. QED
  BY <1>1, <1>3, <1>4, Branch DEF NextDown

\* Afterwards no child outranks its parent: what came up was the higher of two children.
LEMMA TakeOutOrdered ==
  ASSUME TreeInv, NEW q, NEW r, TakenOut(q, r)
  PROVE  Ordered'
<1> SUFFICES ASSUME NEW y \in Nodes', NEW c \in Children(y), c \in Nodes'
             PROVE  ~outRanks(tree'[c], tree'[y])
  BY DEF Ordered, Children, outRanks, Left, Right
<1>1. y \in Nodes /\ y # r /\ c \in Nodes /\ c # r /\ r \in Paths /\ y \in Paths
  BY DEF TakenOut, TreeInv, HeapTypes
<1>2. c \in Paths /\ Len(c) = Len(y) + 1 /\ Len(y) \in Nat
  BY <1>1, ChildOf
<1>3. tree[c] \in Data /\ tree[y] \in Data /\ ~outRanks(tree[c], tree[y])
  BY <1>1 DEF TreeInv, HeapTypes, Ordered
<1>4. q \in Paths /\ Len(q) \in Nat
  <2>1. q \in Paths
    BY DEF TakenOut, TreeInv, HeapTypes
  <2>2. QED
    BY <2>1, WayEnds
    \* What comes up to c, if anything does, does not outrank what was there.
<1>5. tree'[c] \in Data /\ ~outRanks(tree'[c], tree[c])
  <2>1. CASE Below(c, q, r)
    <3>1. tree'[c] = tree[NextDown(c, r)] /\ NextDown(c, r) \in Nodes
          /\ NextDown(c, r) \in Children(c)
      BY <1>1, <2>1 DEF TakenOut, Below
    <3>2. QED
      BY <1>1, <3>1 DEF TreeInv, HeapTypes, Ordered
  <2>2. CASE ~Below(c, q, r)
    BY <1>1, <1>3, <2>2, RankAssumption DEF TakenOut, outRanks
  <2>3. QED
    BY <2>1, <2>2
<1>6. CASE Below(y, q, r)
  <2>1. tree'[y] = tree[NextDown(y, r)] /\ NextDown(y, r) \in Nodes
    BY <1>1, <1>6 DEF TakenOut, Below
  <2>2. ~outRanks(tree[c], tree'[y]) /\ tree'[y] \in Data
    BY <1>1, <1>6, <2>1, HeirIsHighest DEF TreeInv, HeapTypes
  <2>3. QED
    BY <1>3, <1>5, <2>2, RankOrder
<1>7. CASE ~Below(y, q, r)
  <2>1. tree'[y] = tree[y]
    BY <1>1, <1>7 DEF TakenOut
  <2>2. QED
    BY <1>3, <1>5, <2>1, RankOrder
<1>8. QED
  BY <1>6, <1>7

\* Afterwards the sizes on the way are one less, of a node and of one of its children.
LEMMA TakeOutCounted ==
  ASSUME TreeInv, NEW q, NEW r, TakenOut(q, r)
  PROVE  Counted'
<1> DEFINE Count(y) == IF y \in Nodes' THEN mSize'[y] ELSE 0
<1> SUFFICES ASSUME NEW y \in Nodes'
             PROVE  mSize'[y] = 1 + Count(Left(y)) + Count(Right(y))
  BY DEF Counted, SizeAt, Left, Right
<1>1. r \in Nodes /\ Nodes' = Nodes \ {r} /\ y \in Nodes /\ y # r /\ r \in Paths /\ y \in Paths
  BY DEF TakenOut, TreeInv, HeapTypes
<1>2. mSize[y] = 1 + SizeAt(Left(y)) + SizeAt(Right(y))
  BY <1>1 DEF TreeInv, Counted
<1>3. \A c : c \notin WayTo(r) => Count(c) = SizeAt(c)
  <2>1. r \in WayTo(r)
    BY <1>1, WayEnds
  <2>2. QED
    BY <1>1, <2>1 DEF TakenOut, SizeAt
<1>4. mSize[r] = 1
  <2>1. SizeAt(Left(r)) = 0 /\ SizeAt(Right(r)) = 0
    BY DEF TakenOut, IsLeaf, SizeAt
  <2>2. QED
    BY <1>1, <2>1 DEF TreeInv, Counted
<1>5. \A c \in WayTo(r) : Count(c) = SizeAt(c) - 1
  <2> SUFFICES ASSUME NEW c \in WayTo(r)
               PROVE  Count(c) = SizeAt(c) - 1
    OBVIOUS
  <2>1. CASE c = r
    BY <1>1, <1>4, <2>1 DEF SizeAt
  <2>2. CASE c # r
    <3>1. c \in Nodes /\ mSize'[c] = mSize[c] - 1
      BY <2>2 DEF TakenOut
    <3>2. QED
      BY <1>1, <2>2, <3>1 DEF SizeAt
  <2>3. QED
    BY <2>1, <2>2
<1>6. \A c : SizeAt(c) \in Nat
  BY DEF TreeInv, HeapTypes, SizeAt
<1> HIDE DEF Count
<1>7. CASE y \in WayTo(r)
  <2>1. mSize'[y] = mSize[y] - 1
    BY <1>1, <1>7 DEF TakenOut
  <2>2. \/ Left(y) \in WayTo(r) /\ Right(y) \notin WayTo(r)
        \/ Right(y) \in WayTo(r) /\ Left(y) \notin WayTo(r)
    BY <1>1, <1>7, Branch
  <2>3. Count(Left(y)) + Count(Right(y)) = SizeAt(Left(y)) + SizeAt(Right(y)) - 1
        /\ Count(Left(y)) \in Int /\ Count(Right(y)) \in Int
    BY <1>3, <1>5, <1>6, <2>2
  <2>4. QED
    BY <1>2, <1>6, <2>1, <2>3
<1>8. CASE y \notin WayTo(r)
  <2>1. Left(y) \notin WayTo(r) /\ Right(y) \notin WayTo(r)
    BY <1>1, <1>8, NoBranch DEF Children
  <2>2. mSize'[y] = mSize[y]
    BY <1>1, <1>8 DEF TakenOut
  <2>3. QED
    BY <1>2, <1>3, <2>1, <2>2
<1>9. QED
  BY <1>7, <1>8

\* Afterwards every node hangs from another: only a leaf has gone.
LEMMA TakeOutRooted ==
  ASSUME TreeInv, NEW q, NEW r, TakenOut(q, r)
  PROVE  Rooted'
<1> SUFFICES ASSUME NEW y \in Nodes'
             PROVE  WayTo(y) \subseteq Nodes'
  BY DEF Rooted, WayTo
<1>1. y \in Nodes /\ y # r /\ y \in Paths /\ WayTo(y) \subseteq Nodes
  BY DEF TakenOut, TreeInv, HeapTypes, Rooted
\* A leaf is on the way to no other node.
<1>2. ASSUME r \in WayTo(y)
      PROVE  FALSE
  <2>1. Left(r) \in WayTo(y) \/ Right(r) \in WayTo(y)
    BY <1>1, <1>2, Branch
  <2>2. QED
    BY <1>1, <2>1 DEF TakenOut, IsLeaf
<1>3. QED
  BY <1>1, <1>2 DEF TakenOut

-----------------------------------------------------------------------------
\* No datum is at two nodes.
Distinct == IsFiniteSet(Nodes) /\ Cardinality(Nodes) = Cardinality(Held)

HeapInv == TreeInv /\ Distinct

\* There are as many nodes as data, so each is at one node.
LEMMA OneNodeEach ==
  ASSUME HeapInv, NEW x \in Nodes, NEW y \in Nodes, tree[x] = tree[y]
  PROVE  x = y
<1> DEFINE f == [z \in Nodes |-> tree[z]]
<1>1. f \in [Nodes -> Held] /\ \A d \in Held : \E z \in Nodes : f[z] = d
  BY DEF Held
<1>2. f \in Surjection(Nodes, Held)
  BY <1>1, Fun_IsSurj
<1>3. f \in Injection(Nodes, Held)
  BY <1>2, FS_SurjSameCardinalityImpliesInj DEF HeapInv, Distinct
<1>4. QED
  BY <1>3 DEF Injection, IsInjective

\* There are finitely many data.
LEMMA HeldIsFinite ==
  ASSUME Distinct
  PROVE  IsFiniteSet(Held)
<1> DEFINE f == [z \in Nodes |-> tree[z]]
<1>1. f \in [Nodes -> Held] /\ \A d \in Held : \E z \in Nodes : f[z] = d
  BY DEF Held
<1>2. f \in Surjection(Nodes, Held)
  BY <1>1, Fun_IsSurj
<1>3. QED
  BY <1>2, FS_Surjection DEF Distinct

\* What comes down on the way of a push was pushed or was in the heap.
LEMMA ComingFromHeap ==
  ASSUME TreeInv, NEW d, NEW p, NEW coming, Pushed(d, p, coming), NEW k \in 0..Len(p)
  PROVE  coming[k] \in Held \cup {d}
<1> DEFINE Strange == {n \in 0..Len(p) : coming[n] \notin Held \cup {d}}
<1>1. p \in Paths /\ Len(p) \in Nat
  BY WayEnds DEF Pushed
<1>2. ASSUME Strange # {}
      PROVE  FALSE
  <2>1. PICK n \in Strange : \A m \in Strange : n <= m
    <3>1. Strange \in SUBSET Nat
      BY <1>1
    <3>2. QED
      BY <1>2, <3>1, LeastOf
  <2>2. n \in 0..Len(p) /\ n # 0
    BY <2>1 DEF Pushed
  <2>3. n - 1 \in 0..Len(p) /\ n - 1 \notin Strange
    BY <1>1, <2>1, <2>2
  <2> DEFINE y == SubSeq(p, 1, n - 1)
  <2>4. y \in WayTo(p) /\ Len(y) = n - 1 /\ y # p /\ Len(y) + 1 = n
    BY <1>1, <2>2, <2>3, PartOfWay
  <2> HIDE DEF y
  <2>5. coming[n] = Dropped(coming[n - 1], tree[y]) /\ y \in Nodes
    BY <2>2, <2>4 DEF Pushed
  <2>6. coming[n] \in {coming[n - 1], tree[y]}
    BY <2>5 DEF Dropped
  <2>7. tree[y] \in Held
    BY <2>5 DEF Held
  <2>8. QED
    BY <2>1, <2>3, <2>6, <2>7
<1>3. QED
  BY <1>2

\* What comes down is kept at some node.
LEMMA ComingIsKept ==
  ASSUME TreeInv, NEW d, NEW p, NEW coming, Pushed(d, p, coming), NEW k \in 0..Len(p)
  PROVE  coming[k] \in Held'
<1> DEFINE Lost == {n \in 0..Len(p) : coming[Len(p) - n] \notin Held'}
<1>1. p \in Paths /\ Len(p) \in Nat
  BY WayEnds DEF Pushed
<1>2. ASSUME Lost # {}
      PROVE  FALSE
  <2>1. PICK n \in Lost : \A m \in Lost : n <= m
    <3>1. Lost \in SUBSET Nat
      BY <1>1
    <3>2. QED
      BY <1>2, <3>1, LeastOf
  <2>2. n \in 0..Len(p) /\ n # 0
    BY <1>1, <2>1 DEF Pushed, Held
  <2>3. n - 1 \in 0..Len(p) /\ n - 1 \notin Lost
    BY <1>1, <2>1, <2>2
  <2> DEFINE j == Len(p) - n
             y == SubSeq(p, 1, j)
  <2>4. j \in 0..Len(p) /\ j # Len(p) /\ Len(p) - (n - 1) = j + 1
    BY <1>1, <2>2
  <2>5. y \in WayTo(p) /\ Len(y) = j /\ y # p
    BY <1>1, <2>4, PartOfWay
  <2>6. coming[j + 1] = Dropped(coming[j], tree[y]) /\ y \in Nodes'
        /\ tree'[y] = Kept(coming[j], tree[y])
    BY <2>5 DEF Pushed
  <2>7. coming[j] \in {coming[j + 1], tree'[y]}
    BY <2>6 DEF Dropped, Kept
  <2>8. tree'[y] \in Held'
    BY <2>6 DEF Held
  <2>9. coming[j + 1] \in Held'
    BY <2>3, <2>4
  <2>10. coming[j] \in Held'
    BY <2>7, <2>8, <2>9
  <2>11. QED
    BY <2>1, <2>10
<1>3. Len(p) - k \in 0..Len(p) /\ Len(p) - (Len(p) - k) = k
  BY <1>1
<1>4. QED
  BY <1>2, <1>3

\* A push adds what it pushes and loses nothing.
LEMMA PushHeld ==
  ASSUME TreeInv, NEW d, NEW p, NEW coming, Pushed(d, p, coming)
  PROVE  Held' = Held \cup {d}
<1>1. p \in Paths /\ Len(p) \in Nat /\ Nodes \subseteq Paths
  BY WayEnds DEF Pushed, TreeInv, HeapTypes
<1>2. ASSUME NEW y \in Nodes'
      PROVE  tree'[y] \in Held \cup {d}
  <2>1. CASE y = p
    BY <1>1, <2>1, ComingFromHeap DEF Pushed
  <2>2. CASE y # p /\ y \in WayTo(p)
    <3>1. tree'[y] = Kept(coming[Len(y)], tree[y]) /\ y \in Nodes /\ Len(y) \in 0..Len(p)
      BY <1>1, <2>2, WayDown DEF Pushed
    <3>2. coming[Len(y)] \in Held \cup {d} /\ tree[y] \in Held
      BY <3>1, ComingFromHeap DEF Held
    <3>3. QED
      BY <3>1, <3>2 DEF Kept
  <2>3. CASE y # p /\ y \notin WayTo(p)
    BY <1>2, <2>3 DEF Pushed, Held
  <2>4. QED
    BY <2>1, <2>2, <2>3
<1>3. ASSUME NEW y \in Nodes
      PROVE  tree[y] \in Held'
  <2>1. y \in Nodes' /\ y # p
    BY <1>3 DEF Pushed
  <2>2. CASE y \in WayTo(p)
    <3>1. /\ coming[Len(y) + 1] = Dropped(coming[Len(y)], tree[y])
          /\ tree'[y] = Kept(coming[Len(y)], tree[y])
      BY <2>1, <2>2 DEF Pushed
    <3>2. Len(y) + 1 \in 0..Len(p)
      BY <1>1, <2>1, <2>2, WayNext, WayDown
    <3>3. coming[Len(y) + 1] \in Held' /\ tree'[y] \in Held'
      BY <2>1, <3>2, ComingIsKept DEF Held
    <3>4. tree[y] \in {coming[Len(y) + 1], tree'[y]}
      BY <3>1 DEF Dropped, Kept
    <3>5. QED
      BY <3>3, <3>4
  <2>3. CASE y \notin WayTo(p)
    BY <2>1, <2>3 DEF Pushed, Held
  <2>4. QED
    BY <2>2, <2>3
<1>4. d \in Held'
  BY <1>1, ComingIsKept DEF Pushed
<1>5. Held' \subseteq Held \cup {d}
  BY <1>2 DEF Held
<1>6. Held \subseteq Held'
  BY <1>3 DEF Held
<1>7. QED
  BY <1>4, <1>5, <1>6

\* A node that is taken out takes its data with it and no other.
LEMMA TakeOutHeld ==
  ASSUME HeapInv, NEW q, NEW r, TakenOut(q, r)
  PROVE  Held' = Held \ {tree[q]}
<1>1. /\ q \in Nodes /\ r \in Nodes /\ q \in WayTo(r) /\ q \in Paths /\ r \in Paths
      /\ Nodes' = Nodes \ {r} /\ Nodes \subseteq Paths
  BY DEF TakenOut, HeapInv, TreeInv, HeapTypes
<1>2. Len(q) \in 0..Len(r) /\ Len(r) \in Nat
  BY <1>1, WayDown, WayEnds
<1>3. ASSUME NEW y \in Nodes'
      PROVE  tree'[y] \in Held \ {tree[q]}
  <2>1. y \in Nodes /\ y # r /\ Len(y) \in Nat
    BY <1>1, WayEnds
  <2>2. CASE Below(y, q, r)
    <3>1. tree'[y] = tree[NextDown(y, r)] /\ NextDown(y, r) \in Nodes
          /\ Len(NextDown(y, r)) = Len(y) + 1
      BY <2>1, <2>2 DEF TakenOut, Below
    <3>2. NextDown(y, r) # q
      BY <1>2, <2>1, <2>2, <3>1 DEF Below
    <3>3. QED
      BY <1>1, <3>1, <3>2, OneNodeEach DEF Held
  <2>3. CASE ~Below(y, q, r)
    <3>1. tree'[y] = tree[y] /\ y # q
      BY <1>1, <1>2, <2>1, <2>3 DEF TakenOut, Below
    <3>2. QED
      BY <1>1, <2>1, <3>1, OneNodeEach DEF Held
  <2>4. QED
    BY <2>2, <2>3
<1>4. ASSUME NEW y \in Nodes, y # q
      PROVE  tree[y] \in Held'
  <2>1. CASE y \in WayTo(r) /\ Len(y) > Len(q)
    <3> DEFINE x == SubSeq(r, 1, Len(y) - 1)
    <3>1. Len(y) \in 0..Len(r) /\ y = SubSeq(r, 1, Len(y)) /\ Len(y) - 1 \in 0..Len(r)
      BY <1>1, <1>2, <2>1, WayDown
    <3>2. x \in WayTo(r) /\ Len(x) = Len(y) - 1 /\ x # r
      BY <1>1, <1>2, <3>1, PartOfWay
    <3>3. Below(x, q, r) /\ NextDown(x, r) = y
      BY <1>2, <2>1, <3>1, <3>2 DEF Below, NextDown
    <3>4. tree'[x] = tree[y] /\ x \in Nodes'
      BY <1>1, <3>2, <3>3 DEF TakenOut
    <3>5. QED
      BY <3>4 DEF Held
  <2>2. CASE ~(y \in WayTo(r) /\ Len(y) > Len(q))
    <3>1. y # r
      <4>1. ASSUME y = r
            PROVE  FALSE
        <5>1. r \in WayTo(r) /\ Len(r) = Len(q)
          BY <1>1, <1>2, <2>2, <4>1, WayEnds
        <5>2. QED
          BY <1>1, <1>4, <4>1, <5>1, WayOfWay
      <4>2. QED
        BY <4>1
    <3>2. ~Below(y, q, r)
      <4>1. ASSUME Below(y, q, r)
            PROVE  FALSE
        <5>1. Len(y) = Len(q) /\ y \in WayTo(r)
          BY <1>1, <1>2, <2>2, <4>1, WayEnds DEF Below
        <5>2. QED
          BY <1>1, <1>4, <5>1, WayOfWay
      <4>2. QED
        BY <4>1
    <3>3. tree'[y] = tree[y] /\ y \in Nodes'
      BY <1>1, <3>1, <3>2 DEF TakenOut
    <3>4. QED
      BY <3>3 DEF Held
  <2>3. QED
    BY <2>1, <2>2
<1>5. Held' \subseteq Held \ {tree[q]}
  BY <1>3 DEF Held
<1>6. Held \ {tree[q]} \subseteq Held'
  BY <1>4 DEF Held
<1>7. QED
  BY <1>5, <1>6

-----------------------------------------------------------------------------
\* The empty heap.
LEMMA HeapInvInit == HeapInit => HeapInv
<1> SUFFICES ASSUME HeapInit
             PROVE  HeapInv
  OBVIOUS
<1>1. Nodes = {} /\ answer = NoData
  BY DEF HeapInit, Nodes
<1>2. TreeInv
  BY <1>1 DEF TreeInv, HeapTypes, Ordered, Counted, Rooted
<1>3. Held = {}
  BY <1>1 DEF Held
<1>4. QED
  BY <1>1, <1>2, <1>3, FS_EmptySet DEF HeapInv, Distinct

\* LocHeap::push as a step of the set.
LEMMA PushStep ==
  ASSUME HeapInv, NEW d \in Data, push(d)
  PROVE  HeapInv' /\ d \notin Held /\ Held' = Held \cup {d} /\ answer' = answer
<1>1. PICK p, coming : Pushed(d, p, coming)
  BY PushAlong DEF HeapInv
<1>2. TreeInv'
  BY <1>1, PushTypes, PushOrdered, PushCounted, PushRooted DEF TreeInv, HeapInv
<1>3. Held' = Held \cup {d} /\ d \notin Held
  BY <1>1, PushHeld DEF HeapInv, push
<1>4. Nodes' = Nodes \cup {p} /\ p \notin Nodes /\ answer' = answer
  BY <1>1 DEF Pushed
<1>5. IsFiniteSet(Nodes) /\ Cardinality(Nodes) = Cardinality(Held)
  BY DEF HeapInv, Distinct
<1>6. IsFiniteSet(Nodes') /\ Cardinality(Nodes') = Cardinality(Nodes) + 1
  BY <1>4, <1>5, FS_AddElement
<1>7. Cardinality(Held') = Cardinality(Held) + 1
  BY <1>3, HeldIsFinite, FS_AddElement DEF HeapInv
<1>8. Distinct'
  BY <1>5, <1>6, <1>7 DEF Distinct
<1>9. QED
  BY <1>2, <1>3, <1>4, <1>8 DEF HeapInv

\* LocHeapNode::pop as a step of the set.
LEMMA TakeOutStep ==
  ASSUME HeapInv, NEW q \in Nodes, TakeOut(q)
  PROVE  HeapInv' /\ Held' = Held \ {tree[q]} /\ answer' = tree[q]
<1>1. PICK r : TakenOut(q, r)
  BY TakeOutAlong DEF HeapInv
<1>2. TreeInv'
  BY <1>1, TakeOutTypes, TakeOutOrdered, TakeOutCounted, TakeOutRooted DEF TreeInv, HeapInv
<1>3. Held' = Held \ {tree[q]} /\ tree[q] \in Held
  BY <1>1, TakeOutHeld DEF Held
<1>4. Nodes' = Nodes \ {r} /\ r \in Nodes /\ answer' = tree[q]
  BY <1>1 DEF TakenOut
<1>5. IsFiniteSet(Nodes) /\ Cardinality(Nodes) = Cardinality(Held)
  BY DEF HeapInv, Distinct
<1>6. IsFiniteSet(Nodes') /\ Cardinality(Nodes') = Cardinality(Nodes) - 1
  BY <1>4, <1>5, FS_RemoveElement
<1>7. Cardinality(Held') = Cardinality(Held) - 1
  BY <1>3, HeldIsFinite, FS_RemoveElement DEF HeapInv
<1>8. Distinct'
  BY <1>5, <1>6, <1>7 DEF Distinct
<1>9. QED
  BY <1>2, <1>3, <1>4, <1>8 DEF HeapInv

\* An operation that finds nothing, or only looks.
LEMMA SameTree ==
  ASSUME HeapInv, UNCHANGED <<tree, mSize>>, answer' \in Data \cup {NoData}
  PROVE  HeapInv' /\ Held' = Held
<1>1. Nodes' = Nodes /\ Held' = Held
  BY DEF Nodes, Held
<1>2. TreeInv'
  BY <1>1 DEF HeapInv, TreeInv, HeapTypes, Ordered, Counted, Rooted, SizeAt, outRanks, WayTo,
              Children, Left, Right
<1>3. QED
  BY <1>1, <1>2 DEF HeapInv, Distinct

\* Nothing below a node outranks it, however far below.
LEMMA AboveRanks ==
  ASSUME TreeInv, NEW p \in Nodes, NEW x \in WayTo(p)
  PROVE  ~outRanks(tree[p], tree[x])
<1> DEFINE At(n) == SubSeq(p, 1, Len(p) - n)
           Under == {n \in 0..Len(p) : outRanks(tree[p], tree[At(n)])}
<1>1. p \in Paths /\ Len(p) \in Nat /\ At(0) = p /\ tree[p] \in Data
  <2>1. p \in Paths /\ tree[p] \in Data
    BY DEF TreeInv, HeapTypes
  <2>2. Len(p) \in Nat /\ p \in WayTo(p) /\ Len(p) - 0 = Len(p)
    BY <2>1, WayEnds
  <2>3. At(0) = p
    BY <2>1, <2>2, WayDown
  <2>4. QED
    BY <2>1, <2>2, <2>3
<1>2. ASSUME NEW n \in 0..Len(p)
      PROVE  /\ At(n) \in WayTo(p) /\ At(n) \in Nodes /\ Len(At(n)) = Len(p) - n
             /\ tree[At(n)] \in Data
  <2>1. Len(p) - n \in 0..Len(p)
    BY <1>1
  <2>2. At(n) \in WayTo(p) /\ Len(At(n)) = Len(p) - n
    BY <1>1, <2>1, PartOfWay
  <2>3. QED
    BY <2>2 DEF TreeInv, Rooted, HeapTypes
<1> HIDE DEF At
<1>3. ASSUME Under # {}
      PROVE  FALSE
  <2>1. PICK n \in Under : \A m \in Under : n <= m
    <3>1. Under \in SUBSET Nat
      BY <1>1
    <3>2. QED
      BY <1>3, <3>1, LeastOf
  <2>2. n \in 0..Len(p) /\ n # 0
    BY <1>1, <2>1, RankAssumption DEF outRanks
  <2>3. n - 1 \in 0..Len(p) /\ n - 1 \notin Under
    BY <1>1, <2>1, <2>2
  <2>4. At(n) \in WayTo(p) /\ At(n) \in Nodes /\ Len(At(n)) = Len(p) - n /\ tree[At(n)] \in Data
    BY <1>2, <2>2
  <2>5. Len(At(n)) + 1 = Len(p) - (n - 1) /\ At(n) # p
    BY <1>1, <2>2, <2>4
  <2>6. At(n - 1) = SubSeq(p, 1, Len(At(n)) + 1)
    BY <2>5 DEF At
  <2>7. At(n - 1) \in Children(At(n))
    BY <1>1, <2>4, <2>5, <2>6, Branch DEF Children
  <2>8. At(n - 1) \in Nodes /\ tree[At(n - 1)] \in Data
    BY <1>2, <2>3
  <2>9. ~outRanks(tree[At(n - 1)], tree[At(n)])
    BY <2>4, <2>7, <2>8 DEF TreeInv, Ordered
  <2>10. ~outRanks(tree[p], tree[At(n - 1)])
    BY <2>3
  <2>11. ~outRanks(tree[p], tree[At(n)])
    BY <1>1, <2>4, <2>8, <2>9, <2>10, RankOrder
  <2>12. QED
    BY <2>1, <2>11
<1>4. x = SubSeq(p, 1, Len(x)) /\ Len(x) \in 0..Len(p)
  BY <1>1, WayDown
<1>5. Len(p) - Len(x) \in 0..Len(p) /\ Len(p) - (Len(p) - Len(x)) = Len(x)
  BY <1>1, <1>4
<1>6. x = At(Len(p) - Len(x))
  BY <1>4, <1>5 DEF At
<1>7. QED
  BY <1>3, <1>5, <1>6

\* The top is a node, if there is one, and nothing outranks what is in it.
LEMMA TopIsHighest ==
  ASSUME HeapInv, Nodes # {}
  PROVE  Top \in Nodes /\ tree[Top] \in AsSet!Highest
<1>1. ASSUME NEW y \in Nodes
      PROVE  Top \in Nodes /\ ~outRanks(tree[y], tree[Top])
  <2>1. y \in Paths /\ WayTo(y) \subseteq Nodes
    BY DEF HeapInv, TreeInv, HeapTypes, Rooted
  <2>2. Top \in WayTo(y)
    BY <2>1, WayEnds
  <2>3. QED
    BY <2>1, <2>2, AboveRanks DEF HeapInv
<1>2. Top \in Nodes /\ tree[Top] \in Held
  BY <1>1 DEF Held
<1>3. \A y \in Nodes : tree[y] \in Data
  BY DEF HeapInv, TreeInv, HeapTypes
<1>4. \A y \in Nodes : Rank[tree[y]] <= Rank[tree[Top]]
  BY <1>1, <1>2, <1>3, RankAssumption DEF outRanks
<1>5. QED
  BY <1>2, <1>4 DEF AsSet!Highest, Held

\* The search comes to what is in the heap.
LEMMA FoundIfHeld ==
  ASSUME HeapInv, NEW d \in Data, Found(d) = {}
  PROVE  d \notin Held
<1>1. ASSUME NEW y \in Nodes, tree[y] = d
      PROVE  y \in Found(d)
  BY <1>1, AboveRanks DEF HeapInv, Found
<1>2. QED
  BY <1>1 DEF Held

-----------------------------------------------------------------------------
\* Every operation keeps the invariant and is the set's operation.
LEMMA HeapStep ==
  ASSUME HeapInv, [HeapNext]_heapVars
  PROVE  HeapInv' /\ [AsSet!Next]_(AsSet!vars)
<1>1. ASSUME NEW d \in Data, push(d)
      PROVE  HeapInv' /\ AsSet!push(d)
  BY <1>1, PushStep DEF AsSet!push
<1>2. ASSUME Nothing
      PROVE  HeapInv' /\ Held' = Held /\ answer' = NoData
  BY <1>2, SameTree DEF Nothing
<1>3. Nodes = {} <=> Held = {}
  BY DEF Held
<1>4. ASSUME NEW d \in Data, remove(d)
      PROVE  HeapInv' /\ AsSet!remove(d)
  <2>1. CASE Found(d) = {}
    <3>1. Nothing /\ d \notin Held
      BY <1>4, <2>1, FoundIfHeld DEF remove
    <3>2. QED
      BY <1>2, <3>1 DEF AsSet!remove
  <2>2. CASE Found(d) # {}
    <3>1. PICK q \in Found(d) : TakeOut(q)
      BY <1>4, <2>2 DEF remove
    <3>2. q \in Nodes /\ tree[q] = d /\ d \in Held
      BY DEF Found, Held
    <3>3. HeapInv' /\ Held' = Held \ {d} /\ answer' = d
      BY <3>1, <3>2, TakeOutStep
    <3>4. QED
      BY <3>2, <3>3 DEF AsSet!remove
  <2>3. QED
    BY <2>1, <2>2
<1>5. ASSUME pop
      PROVE  HeapInv' /\ AsSet!pop
  <2>1. CASE Nodes = {}
    <3>1. HeapInv' /\ Held' = Held /\ answer' = NoData
      BY <1>2, <1>5, <2>1 DEF pop
    <3>2. QED
      BY <1>3, <2>1, <3>1 DEF AsSet!pop
  <2>2. CASE Nodes # {}
    <3>1. Top \in Nodes /\ tree[Top] \in AsSet!Highest
      BY <2>2, TopIsHighest
    <3>2. HeapInv' /\ Held' = Held \ {tree[Top]} /\ answer' = tree[Top]
      BY <1>5, <2>2, <3>1, TakeOutStep DEF pop
    <3>3. QED
      BY <1>3, <2>2, <3>1, <3>2 DEF AsSet!pop
  <2>3. QED
    BY <2>1, <2>2
<1>6. ASSUME peek
      PROVE  HeapInv' /\ AsSet!peek
  <2>1. answer' \in IF Held = {} THEN {NoData} ELSE AsSet!Highest
    BY <1>3, <1>6, TopIsHighest DEF peek
  <2>2. answer' \in Data \cup {NoData}
    <3>1. Nodes # {} => tree[Top] \in Data
      BY TopIsHighest DEF HeapInv, TreeInv, HeapTypes
    <3>2. QED
      BY <1>6, <3>1 DEF peek
  <2>3. HeapInv' /\ Held' = Held
    BY <1>6, <2>2, SameTree DEF peek
  <2>4. QED
    BY <2>1, <2>3 DEF AsSet!peek
<1>7. CASE UNCHANGED heapVars
  <2>1. answer' \in Data \cup {NoData} /\ answer' = answer
    BY <1>7 DEF heapVars, HeapInv, TreeInv, HeapTypes
  <2>2. HeapInv' /\ Held' = Held
    BY <1>7, <2>1, SameTree DEF heapVars
  <2>3. QED
    BY <2>1, <2>2 DEF AsSet!vars
<1>8. QED
  BY <1>1, <1>4, <1>5, <1>6, <1>7 DEF HeapNext, AsSet!Next

\* After any pushes, pops and removes checkTree finds nothing wrong with the tree: no child
\* outranks its parent, every size is right and every node hangs from another: CheckTree.
THEOREM TreeAlwaysChecked == HeapSpec => []CheckTree
<1>1. HeapInv /\ [HeapNext]_heapVars => HeapInv'
  BY HeapStep
<1>2. HeapInv => CheckTree
  BY TreeParts DEF HeapInv, TreeInv
<1>3. QED
  BY <1>1, <1>2, HeapInvInit, PTL DEF HeapSpec

\* The heap keeps the promise of RankedSet, for any objects and ranks: what is pushed is
\* there until it is popped or removed, pop and peek give one that nothing outranks, and
\* remove finds its object wherever it is (LocHeap::push, pop, remove and peek).
THEOREM HeapImplementsSet == HeapSpec => ImplementsSet
<1>1. HeapInit => AsSet!Init
  BY DEF HeapInit, AsSet!Init, Held, Nodes
<1>2. HeapInv /\ [HeapNext]_heapVars => HeapInv' /\ [AsSet!Next]_(AsSet!vars)
  BY HeapStep
<1>3. QED
  BY <1>1, <1>2, HeapInvInit, PTL DEF HeapSpec, ImplementsSet, AsSet!Spec

=============================================================================
