----------------------------- MODULE RilWakeLock -----------------------------
(***************************************************************************)
(* The partial wake lock of the RIL daemon (libril/ril.cpp), for vendor    *)
(* libraries of version 13 and later.  The phone must stay awake from the  *)
(* moment a message goes up to the telephony process until that process    *)
(* has acknowledged it, and go back to sleep after 200 ms if it does not.  *)
(*                                                                         *)
(* The lock of the kernel (acquire_wake_lock, release_wake_lock) is held   *)
(* or not; s_wakelock_count counts the messages it is held for.  Each      *)
(* message starts a timer, and the timer of the message before is          *)
(* cancelled by writing to its userParam.  All timers run for the same     *)
(* time, so they expire in the order they were started.                    *)
(*                                                                         *)
(* Three kinds of threads meet here.                                       *)
(*   Senders      threads of the vendor library, which grab the lock;      *)
(*   the binder   thread, which brings the acknowledgements;               *)
(*   the event    loop thread, which runs the callbacks of the timers.     *)
(* Senders and binder hold s_wakeLockCountMutex all along.  The event loop *)
(* takes it only to release the lock: it reads userParam before, and       *)
(* clears s_last_wake_timeout_info and frees the timer after it.           *)
(***************************************************************************)
EXTENDS Naturals, Sequences

CONSTANTS
  Senders,      \* threads of the vendor library
  Timers,       \* UserCallbackInfo blocks; a freed one may be allocated again.
                \* Bound: when all are in use there is no memory for another
  None,         \* NULL, and the mutex when nobody holds it
  MaxMessages   \* bound: messages sent

Binder == "binder"

ASSUME ThreadsAssumption ==
  /\ Binder \notin Senders
  /\ None \notin Senders \cup {Binder}
  /\ None \notin Timers
  /\ MaxMessages \in Nat

VARIABLES
  held,       \* does the daemon hold the wake lock?
  starved,    \* was it last given up because there was no memory for a timer?
  count,      \* s_wakelock_count
  last,       \* s_last_wake_timeout_info
  queue,      \* timer_list: the timers that run, soonest first
  cancelled,  \* timers whose userParam is set
  mutex,      \* who holds s_wakeLockCountMutex, or None
  pc,         \* per sender and for the binder: the next thing it does
  own,        \* per sender: the timer it has started
  saw,        \* what the holder of the mutex found in last
  firing,     \* the timer whose callback the event loop runs, or None
  loop,       \* the next thing the event loop does
  owed,       \* messages the telephony process has yet to acknowledge
  sent        \* messages sent

vars == <<held, starved, count, last, queue, cancelled, mutex, pc, own, saw, firing, loop,
          owed, sent>>

Threads == Senders \cup {Binder}

Init ==
  /\ held = FALSE
  /\ starved = FALSE
  /\ count = 0
  /\ last = None
  /\ queue = <<>>
  /\ cancelled = {}
  /\ mutex = None
  /\ pc = [p \in Threads |-> "idle"]
  /\ own = [p \in Senders |-> None]
  /\ saw = None
  /\ firing = None
  /\ loop = "idle"
  /\ owed = 0
  /\ sent = 0

Running == {queue[i] : i \in 1..Len(queue)}

\* Blocks that are not allocated.
Free == Timers \ (Running \cup {firing})

-----------------------------------------------------------------------------
(* grabPartialWakeLock                                                     *)

Grab(p) ==
  /\ pc[p] = "idle"
  /\ mutex = None
  /\ sent < MaxMessages
  /\ sent' = sent + 1
  /\ mutex' = p
  /\ held' = TRUE
  /\ starved' = FALSE
  /\ pc' = [pc EXCEPT ![p] = "start"]
  /\ UNCHANGED <<count, last, queue, cancelled, own, saw, firing, loop, owed>>

\* internalRequestTimedCallback: the timer is on the list before it is known
\* as the last one.
StartTimer(p) ==
  /\ pc[p] = "start"
  /\ count' = count + 1
  /\ \E t \in Free :
       /\ own' = [own EXCEPT ![p] = t]
       /\ queue' = Append(queue, t)
       /\ cancelled' = cancelled \ {t}
  /\ pc' = [pc EXCEPT ![p] = "test"]
  /\ UNCHANGED <<held, starved, last, mutex, saw, firing, loop, owed, sent>>

\* There is no memory for the timer: the lock is given up, for the messages before as
\* well, and they stay counted.  The message goes up all the same.
StartTimerFails(p) ==
  /\ pc[p] = "start"
  /\ held' = FALSE
  /\ starved' = TRUE
  /\ mutex' = None
  /\ pc' = [pc EXCEPT ![p] = "idle"]
  /\ owed' = owed + 1
  /\ UNCHANGED <<count, last, queue, cancelled, own, saw, firing, loop, sent>>

\* The timer before, if there is one, ...
Test(p) ==
  /\ pc[p] = "test"
  /\ saw' = last
  /\ pc' = [pc EXCEPT ![p] = IF last = None THEN "done" ELSE "cancel"]
  /\ UNCHANGED <<held, starved, count, last, queue, cancelled, mutex, own, firing, loop, owed,
                 sent>>

\* Mutant: a sender cancels the timer it has just started.
CancelOwn(p) ==
  /\ pc[p] = "cancel"
  /\ cancelled' = cancelled \cup (IF p \in Senders THEN {own[p]} ELSE {saw} \ Free)
  /\ pc' = [pc EXCEPT ![p] = "done"]
  /\ UNCHANGED <<held, starved, count, last, queue, mutex, own, saw, firing, loop, owed, sent>>

\* ... is cancelled, through the pointer that was tested or the same read again.  The
\* event loop may have freed the timer since; what else the write then hits is not
\* modelled.
Cancel(p) ==
  /\ pc[p] = "cancel"
  /\ cancelled' = cancelled \cup ({saw} \ Free)
  /\ pc' = [pc EXCEPT ![p] = "done"]
  /\ UNCHANGED <<held, starved, count, last, queue, mutex, own, saw, firing, loop, owed, sent>>

\* The pointer is read again and the event loop has cleared it since: the daemon dies,
\* with the mutex taken and whatever it holds of the lock.
CancelNothing(p) ==
  /\ pc[p] = "cancel"
  /\ last = None
  /\ pc' = [pc EXCEPT ![p] = "dead"]
  /\ loop' = "dead"
  /\ UNCHANGED <<held, starved, count, last, queue, cancelled, mutex, own, saw, firing, owed, sent>>

\* The message goes up, and its acknowledgement will be waited for.
Grabbed(p) ==
  /\ p \in Senders
  /\ pc[p] = "done"
  /\ last' = own[p]
  /\ own' = [own EXCEPT ![p] = None]
  /\ mutex' = None
  /\ saw' = None
  /\ pc' = [pc EXCEPT ![p] = "idle"]
  /\ owed' = owed + 1
  /\ UNCHANGED <<held, starved, count, queue, cancelled, firing, loop, sent>>

-----------------------------------------------------------------------------
(* responseAcknowledgement: releaseWakeLock                                *)

AcknowledgeOneOfMany ==
  /\ pc[Binder] = "idle"
  /\ mutex = None
  /\ owed > 0
  /\ count > 1
  /\ owed' = owed - 1
  /\ count' = count - 1
  /\ UNCHANGED <<held, starved, last, queue, cancelled, mutex, pc, own, saw, firing, loop, sent>>

\* Mutant: the count is left alone.
AcknowledgeUncounted ==
  /\ pc[Binder] = "idle"
  /\ mutex = None
  /\ owed > 0
  /\ count <= 1
  /\ owed' = owed - 1
  /\ held' = FALSE
  /\ mutex' = Binder
  /\ pc' = [pc EXCEPT ![Binder] = "test"]
  /\ UNCHANGED <<starved, count, last, queue, cancelled, own, saw, firing, loop, sent>>

AcknowledgeLast ==
  /\ pc[Binder] = "idle"
  /\ mutex = None
  /\ owed > 0
  /\ count <= 1
  /\ owed' = owed - 1
  /\ count' = 0
  /\ held' = FALSE
  /\ mutex' = Binder
  /\ pc' = [pc EXCEPT ![Binder] = "test"]
  /\ UNCHANGED <<starved, last, queue, cancelled, own, saw, firing, loop, sent>>

Released ==
  /\ pc[Binder] = "done"
  /\ mutex' = None
  /\ saw' = None
  /\ pc' = [pc EXCEPT ![Binder] = "idle"]
  /\ UNCHANGED <<held, starved, count, last, queue, cancelled, own, firing, loop, owed, sent>>

\* The telephony process dies, and its acknowledgements with it.
ClientDies ==
  /\ owed > 0
  /\ owed' = 0
  /\ UNCHANGED <<held, starved, count, last, queue, cancelled, mutex, pc, own, saw, firing,
                 loop, sent>>

-----------------------------------------------------------------------------
(* The event loop: userTimerCallback and wakeTimeoutCallback               *)

Expire ==
  /\ loop = "idle"
  /\ queue # <<>>
  /\ firing' = Head(queue)
  /\ queue' = Tail(queue)
  /\ loop' = IF Head(queue) \in cancelled THEN "compare" ELSE "release"
  /\ UNCHANGED <<held, starved, count, last, cancelled, mutex, pc, own, saw, owed, sent>>

\* Mutant: a timeout is taken for an acknowledgement.
TimeoutOfOne ==
  /\ loop = "release"
  /\ mutex = None
  /\ count' = IF count > 0 THEN count - 1 ELSE 0
  /\ held' = (count' > 0)
  /\ loop' = "compare"
  /\ UNCHANGED <<starved, last, queue, cancelled, mutex, pc, own, saw, firing, owed, sent>>

Timeout ==
  /\ loop = "release"
  /\ mutex = None
  /\ count' = 0
  /\ held' = FALSE
  /\ loop' = "compare"
  /\ UNCHANGED <<starved, last, queue, cancelled, mutex, pc, own, saw, firing, owed, sent>>

Compare ==
  /\ loop = "compare"
  /\ loop' = IF last = firing THEN "clear" ELSE "free"
  /\ UNCHANGED <<held, starved, count, last, queue, cancelled, mutex, pc, own, saw, firing,
                 owed, sent>>

Clear ==
  /\ loop = "clear"
  /\ last' = None
  /\ loop' = "free"
  /\ UNCHANGED <<held, starved, count, queue, cancelled, mutex, pc, own, saw, firing, owed, sent>>

FreeTimer ==
  /\ loop = "free"
  /\ firing' = None
  /\ cancelled' = cancelled \ {firing}
  /\ loop' = "idle"
  /\ UNCHANGED <<held, starved, count, last, queue, mutex, pc, own, saw, owed, sent>>

EventLoop == Expire \/ Timeout \/ Compare \/ Clear \/ FreeTimer

-----------------------------------------------------------------------------
Sends(p) ==
  StartTimer(p) \/ StartTimerFails(p) \/ Test(p) \/ Cancel(p) \/ CancelNothing(p) \/ Grabbed(p)

Acknowledges ==
  \/ AcknowledgeOneOfMany \/ AcknowledgeLast
  \/ Test(Binder) \/ Cancel(Binder) \/ CancelNothing(Binder) \/ Released

Next ==
  \/ \E p \in Senders : Grab(p) \/ Sends(p)
  \/ Acknowledges
  \/ ClientDies
  \/ EventLoop

Spec == Init /\ [][Next]_vars

\* A thread that holds the mutex goes on, and the loop runs what is due.  Nobody
\* has to send, and nobody has to acknowledge.
Fairness ==
  /\ \A p \in Senders : WF_vars(Sends(p))
  /\ WF_vars(Test(Binder) \/ Cancel(Binder) \/ CancelNothing(Binder) \/ Released)
  /\ WF_vars(EventLoop)

FairSpec == Spec /\ Fairness

-----------------------------------------------------------------------------
(* Properties                                                              *)

\* Every variable has its type (s_wakelock_count, ril.cpp:130, and
\* s_last_wake_timeout_info, ril.cpp:159).
TypeOK ==
  /\ held \in BOOLEAN
  /\ starved \in BOOLEAN
  /\ count \in Nat
  /\ last \in Timers \cup {None}
  /\ queue \in Seq(Timers)
  /\ cancelled \subseteq Timers
  /\ mutex \in Threads \cup {None}
  /\ pc \in [Threads -> {"idle", "start", "test", "cancel", "done", "dead"}]
  /\ own \in [Senders -> Timers \cup {None}]
  /\ saw \in Timers \cup {None}
  /\ firing \in Timers \cup {None}
  /\ loop \in {"idle", "release", "compare", "clear", "free", "dead"}
  /\ owed \in Nat
  /\ sent \in 0..MaxMessages

\* When nobody is at work on it, the lock of the kernel is held exactly when
\* messages are counted: grabs, acknowledgements and timeouts change the two in
\* steps of several threads (grabPartialWakeLock, releaseWakeLock,
\* wakeTimeoutCallback).  The count is never below zero, although a timeout may
\* come before an acknowledgement.  Messages stay counted without the lock only from
\* the time there was no memory for a timer (ril.cpp:672-673) to the next grab.
HeldIffCounted ==
  /\ count \in Nat
  /\ mutex = None => (held => count > 0) /\ (count > 0 => held \/ starved)

\* The phone is never kept awake without a timer that will put it back to sleep:
\* one that runs and was not cancelled, or one whose callback has gone past the
\* test of its parameter (ril.cpp:671-680, 718).  A timer that is cancelled by
\* mistake, or at the wrong moment, drains the battery.  (A daemon that is dead keeps
\* the mutex, and the property says nothing of it.)
AwakeHasTimeout ==
  held /\ mutex = None =>
    \/ Running \ cancelled # {}
    \/ loop = "release"

\* Once messages stop coming the phone goes to sleep, whether or not the
\* telephony process acknowledges them or lives, unless the daemon has died.
Sleeps == held ~> ~held \/ loop = "dead"
=============================================================================
