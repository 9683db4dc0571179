--------------------------- MODULE DSStateMachine ---------------------------
(***************************************************************************)
(* The machine of emergency SUPL, ds_nif (loc_eng_agps.cpp), where data    *)
(* services may refuse to start a data call: the call is tried again after *)
(* a while, and in the end the request is handed over to the ordinary      *)
(* interface (ATL).  AgpsStateMachine has the machine whose calls are      *)
(* always taken; here it is written again for one whose calls are not.     *)
(*                                                                         *)
(* The MsgTask thread takes every message and runs its handler.  A retry   *)
(* timer's callback looks at the list from the timers' thread, without a   *)
(* lock: it is taken to see the list as it is before or after a handler;   *)
(* what it could see of a list half changed is left out.  The list is a    *)
(* set here: where the code takes the first active entry, any may be it.   *)
(*                                                                         *)
(* Data services and the modem are external.  A handle that was handed     *)
(* over has its answer from agnss_nif, whose list is fallback here; what   *)
(* becomes of it there is AgpsStateMachine's.                              *)
(***************************************************************************)
EXTENDS Naturals, Sequences, FiniteSets

CONSTANTS
  Handles,      \* connection handles of the modem
  MaxRetries,   \* MAX_START_DATA_CALL_RETRIES
  MaxWaiting,   \* bound: messages and retry timers under way when the modem asks
  MaxRestarts   \* bound: times the modem goes down

ASSUME HandlesAssumption == IsFiniteSet(Handles)
ASSUME BoundsAssumption == {MaxRetries, MaxWaiting, MaxRestarts} \subseteq Nat

VARIABLES
  state,      \* mStatePtr
  active,     \* the list: entries that are not inactive,
  inactive,   \* and those that are
  mRetries,
  timers,     \* retry timers that are running
  queue,      \* messages the MsgTask has not taken
  fallback,   \* handles on agnss_nif's list
  modem,      \* what the modem knows of each handle
  call,       \* the data call, as data services have it
  restarts    \* times the modem went down

list  == <<active, inactive>>
retry == <<mRetries, timers>>
vars  == <<state, list, retry, queue, fallback, modem, call, restarts>>

Init ==
  /\ state = "Released"
  /\ active = {} /\ inactive = {}
  /\ mRetries = 0 /\ timers = 0
  /\ queue = <<>>
  /\ fallback = {}
  /\ modem = [h \in Handles |-> "closed"]
  /\ call = "down"
  /\ restarts = 0

Msg(kind, h) == [kind |-> kind, handle |-> h]
Report(word) == [kind |-> word]
Post(msg) == queue' = Append(queue, msg)

\* The ways to go through a set once.
Orders(S) == {f \in [1..Cardinality(S) -> S] : \A x \in S : \E i \in DOMAIN f : f[i] = x}

\* A handler takes the message, and may post others.
Takes(kind) == queue # <<>> /\ Head(queue).kind = kind
Handle == Head(queue).handle
Goes == queue' = Tail(queue)
GoesAndPosts(msg) == queue' = Append(Tail(queue), msg)

\* What the modem hears of handles; it heeds what it waits for.
Tell(hs, from, word) ==
  modem' = [h \in Handles |-> IF h \in hs /\ modem[h] \in from THEN word ELSE modem[h]]

-----------------------------------------------------------------------------
(* sendRsrcRequest to start a call, with active entries left.              *)

\* Data services take it, and report some time.
Started ==
  /\ call' = IF call = "down" THEN "starting" ELSE call
  /\ IF call = "up" THEN GoesAndPosts(Report("opened")) ELSE Goes
  /\ UNCHANGED retry

\* There is no profile, or another error: the first active entry is handed over
\* (informStatus), and stays listed.
GivesUp(left) ==
  /\ \E h \in left : GoesAndPosts(Msg("atl", h))
  /\ mRetries' = 0
  /\ UNCHANGED timers


Busy(left) ==
  IF mRetries + 1 > MaxRetries
  THEN GivesUp(left)
  ELSE /\ mRetries' = mRetries + 1
       /\ timers' = timers + 1
       /\ Goes

NotStarted(left) == (Busy(left) \/ GivesUp(left)) /\ UNCHANGED call

\* stopDataCall, which always succeeds.
Stopped ==
  /\ call' = "down"
  /\ IF call = "down" THEN Goes ELSE GoesAndPosts(Report("closed"))

-----------------------------------------------------------------------------
(* LocEngRequestSuplEs, from the modem or from a retry timer.              *)

addSubscriber(h) == IF h \in inactive THEN active ELSE active \cup {h}

Subscribes ==
  /\ Takes("request")
  /\ active' = addSubscriber(Handle)
  /\ UNCHANGED <<inactive, fallback, restarts>>

\* Pending only if the call is on its way: until then the entry stays on the list
\* of a Released machine, and a retry finds it there.
SubscribeReleased ==
  /\ state = "Released"
  /\ Subscribes
  /\ \/ Started /\ state' = "Pending"
     \/ NotStarted(active') /\ UNCHANGED state
  /\ UNCHANGED modem

SubscribeWaiting ==
  /\ state \in {"Pending", "Releasing"}
  /\ Subscribes
  /\ Goes
  /\ UNCHANGED <<state, retry, modem, call>>

\* The one who asks is told at once, a retry for the second time.
SubscribeAcquired ==
  /\ state = "Acquired"
  /\ Subscribes
  /\ Tell({Handle}, {"asking", "atl"}, "open")
  /\ Goes
  /\ UNCHANGED <<state, retry, call>>

-----------------------------------------------------------------------------
(* LocEngReleaseATL: the handle is looked for at agnss_nif first.          *)

Releases ==
  /\ Takes("release")
  /\ Tell({Handle}, {"closing"}, "closed")
  /\ UNCHANGED <<retry, restarts>>

ReleaseFallback ==
  /\ Releases
  /\ Handle \in fallback
  /\ fallback' = fallback \ {Handle}
  /\ Goes
  /\ UNCHANGED <<state, list, call>>

\* Nobody knows it, or a Released machine does, which says that it is closed and
\* leaves it on the list; or it is inactive already.
ReleaseUnlisted ==
  /\ Releases
  /\ Handle \notin fallback
  /\ Handle \notin active \/ state = "Released"
  /\ Goes
  /\ UNCHANGED <<state, list, fallback, call>>

\* Mutant: the machine does not wait for the close.
ReleaseHeldAtOnce ==
  /\ Releases
  /\ Handle \in active \ fallback
  /\ state \in {"Pending", "Acquired", "Releasing"}
  /\ active' = active \ {Handle}
  /\ UNCHANGED <<inactive, fallback>>
  /\ IF active' = {} /\ state # "Releasing"
     THEN state' = "Released" /\ Stopped
     ELSE UNCHANGED <<state, call>> /\ Goes

\* It turns inactive, which the modem is told as closed.
ReleaseHeld ==
  /\ Releases
  /\ Handle \in active \ fallback
  /\ state \in {"Pending", "Acquired", "Releasing"}
  /\ active' = active \ {Handle}
  /\ inactive' = inactive \cup {Handle}
  /\ UNCHANGED fallback
  /\ IF active' = {} /\ state # "Releasing"
     THEN state' = "Releasing" /\ Stopped
     ELSE UNCHANGED <<state, call>> /\ Goes

-----------------------------------------------------------------------------
(* LocEngRequestATL, LocEngUp, and the reports of data services.           *)

\* agnss_nif takes the handle, and will answer it.
RequestATL ==
  /\ Takes("atl")
  /\ fallback' = fallback \cup {Handle}
  /\ Tell({Handle}, {"asking"}, "atl")
  /\ Goes
  /\ UNCHANGED <<state, list, retry, call, restarts>>

\* agnss_nif's list is emptied, and not ds_nif's.
LocEngUp ==
  /\ Takes("up")
  /\ fallback' = {}
  /\ Goes
  /\ UNCHANGED <<state, list, retry, modem, call, restarts>>

Opened ==
  /\ Takes("opened")
  /\ IF state = "Pending"
     THEN state' = "Acquired" /\ Tell(active, {"asking", "atl"}, "open")
     ELSE UNCHANGED <<state, modem>>
  /\ Goes
  /\ UNCHANGED <<list, retry, fallback, call, restarts>>

\* A call that could not be opened: what is listed is handed over, inactive or not,
\* in some order.
ClosedPending ==
  /\ Takes("closed")
  /\ state = "Pending"
  /\ state' = "Released"
  /\ active' = {} /\ inactive' = {}
  /\ mRetries' = 0
  /\ \E order \in Orders(active \cup inactive) :
       queue' = Tail(queue) \o [i \in DOMAIN order |-> Msg("atl", order[i])]
  /\ UNCHANGED <<timers, fallback, modem, call, restarts>>

\* A call that was lost: the modem is not told.
ClosedAcquired ==
  /\ Takes("closed")
  /\ state = "Acquired"
  /\ state' = "Released"
  /\ active' = {} /\ inactive' = {}
  /\ Goes
  /\ UNCHANGED <<retry, fallback, modem, call, restarts>>

\* The close is complete.  For those who joined meanwhile a call is started, and
\* the machine is Pending even if it was not.
ClosedReleasing ==
  /\ Takes("closed")
  /\ state = "Releasing"
  /\ inactive' = {}
  /\ UNCHANGED <<active, fallback, modem, restarts>>
  /\ IF active # {}
     THEN state' = "Pending" /\ (Started \/ NotStarted(active))
     ELSE state' = "Released" /\ Goes /\ UNCHANGED <<retry, call>>

\* A Released machine would ignore it, and never gets it: the call is down then, and the
\* report that told of it was the only one.

MsgTask ==
  \/ SubscribeReleased \/ SubscribeWaiting \/ SubscribeAcquired
  \/ ReleaseFallback \/ ReleaseUnlisted \/ ReleaseHeld
  \/ RequestATL
  \/ LocEngUp
  \/ Opened
  \/ ClosedPending \/ ClosedAcquired \/ ClosedReleasing

-----------------------------------------------------------------------------
(* The timers' thread, data services and the modem.                        *)

\* delay_callback: the first active entry asks again, if there is one.
retryCallback ==
  /\ timers > 0
  /\ timers' = timers - 1
  /\ \/ \E h \in active : Post(Msg("request", h))
     \/ active = {} /\ UNCHANGED queue
  /\ UNCHANGED <<state, list, mRetries, fallback, modem, call, restarts>>

\* A call opens, cannot be opened, or is lost.
Reports(from, to, word) ==
  /\ call = from
  /\ call' = to
  /\ Post(Report(word))
  /\ UNCHANGED <<state, list, retry, fallback, modem, restarts>>

Ends == Reports("starting", "up", "opened") \/ Reports("starting", "down", "closed")
Lost == Reports("up", "down", "closed")

MayAct == Len(queue) + timers < MaxWaiting

Asks(h) ==
  /\ MayAct
  /\ modem[h] = "closed"
  /\ modem' = [modem EXCEPT ![h] = "asking"]
  /\ Post(Msg("request", h))
  /\ UNCHANGED <<state, list, retry, fallback, call, restarts>>

\* The modem gives a handle back, granted or not, and waits for the answer.
GivesBack(h) ==
  /\ MayAct
  /\ modem[h] \in {"asking", "open", "atl"}
  /\ modem' = [modem EXCEPT ![h] = "closing"]
  /\ Post(Msg("release", h))
  /\ UNCHANGED <<state, list, retry, fallback, call, restarts>>

\* It goes down, forgets its handles, and is up again.
Restart ==
  /\ restarts < MaxRestarts
  /\ restarts' = restarts + 1
  /\ modem' = [h \in Handles |-> "closed"]
  /\ Post(Report("up"))
  /\ UNCHANGED <<state, list, retry, fallback, call>>

Next ==
  \/ MsgTask
  \/ retryCallback
  \/ Ends \/ Lost
  \/ \E h \in Handles : Asks(h) \/ GivesBack(h)
  \/ Restart

\* The MsgTask drains its queue, timers expire, and data services end each attempt.
Fairness ==
  /\ WF_vars(MsgTask)
  /\ WF_vars(retryCallback)
  /\ WF_vars(Ends)

Spec == Init /\ [][Next]_vars /\ Fairness

-----------------------------------------------------------------------------
(* Properties.                                                             *)

Alone(h) == active = {h} /\ inactive = {}


\* A data call that is up or coming up belongs to a machine that is not Released: it is
\* never left open with nobody to close it, although calls, reports and releases cross.
CallIsTracked == call # "down" => state # "Released"
=============================================================================
