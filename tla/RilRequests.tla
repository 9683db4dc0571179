---------------------------- MODULE RilRequests ----------------------------
(***************************************************************************)
(* Requests of the telephony process and its callbacks: libril/ril.cpp and *)
(* libril/ril_service.cpp.  A request goes on the pending list and down to *)
(* the vendor library, which acknowledges and completes it from threads of *)
(* its own.  Answers and indications go up through the callbacks the       *)
(* process has registered.  When a call shows that the process is dead the *)
(* callbacks are reset, unless a new process has registered since.         *)
(*                                                                         *)
(* Two kinds of threads meet here.                                         *)
(*   Vendors    the threads of the vendor library, which call up;          *)
(*   Binder     the one thread of the binder pool, which takes requests    *)
(*              and registrations, and calls up too: initial indications   *)
(*              after a registration, and error answers.                   *)
(* Callbacks are read under the read lock of radioServiceRwlock and        *)
(* written under the write lock, by steps that release it at once; so only *)
(* readers are counted.  sendErrorResponse takes no lock.  The one         *)
(* indication sent under the write lock, NITZ, is left out.                *)
(*                                                                         *)
(* A client stands for one life of the telephony process: 1, 2, ...; no    *)
(* client is 0, and so are callbacks that are reset (NULL).                *)
(***************************************************************************)
EXTENDS Naturals, FiniteSets

CONSTANTS
  Vendors,     \* threads of the vendor library
  Requests,    \* requests, each with its RequestInfo
  None,        \* no request
  MaxClients   \* bound: lives of the telephony process

Binder == "binder"

ASSUME PartiesAssumption ==
  /\ Binder \notin Vendors
  /\ None \notin Requests
  /\ MaxClients \in Nat

Threads == Vendors \cup {Binder}

VARIABLES
  client,      \* the present life of the telephony process
  alive,       \* does it live?
  registered,  \* the last client whose setResponseFunctions was handled
  callback,    \* the client mRadioResponse and mRadioIndication belong to
  counter,     \* mCounterRadio
  readers,     \* readers the rwlock counts
  list,        \* s_pendingRequests
  given,       \* requests the vendor library has got
  refused,     \* requests that were answered with an error instead
  answers,     \* per request: answers that were sent for it
  at,          \* per thread: the next thing it does
  job,         \* per thread: what it calls up for, and for which request
  seen         \* per thread: the counter it noted

clients == <<client, alive, registered>>
lists   == <<list, given, refused>>
vars    == <<clients, callback, counter, readers, lists, answers, at, job, seen>>

Stages == {"idle", "lock", "test", "call", "reset", "relock", "unlock", "dead"}
Kinds  == {"answer", "ack", "connected", "indication"}

Idle      == [kind |-> "indication", request |-> None]
Connected == [kind |-> "connected", request |-> None]

Init ==
  /\ client = 0
  /\ alive = FALSE
  /\ registered = 0
  /\ callback = 0
  /\ counter = 0
  /\ readers = 0
  /\ list = {}
  /\ given = {}
  /\ refused = {}
  /\ answers = [r \in Requests |-> 0]
  /\ at = [t \in Threads |-> "idle"]
  /\ job = [t \in Threads |-> Idle]
  /\ seen = [t \in Threads |-> 0]

\* pthread_rwlock_unlock by a thread that may not hold it: a reader is
\* discounted, whoever it is, and without readers the call fails.
Unlocked == IF readers > 0 THEN readers - 1 ELSE readers

\* Thread t goes on to stage s.
Goes(t, s) == at' = [at EXCEPT ![t] = s]

-----------------------------------------------------------------------------
(* The telephony process                                                   *)

ClientStarts ==
  /\ ~alive
  /\ client < MaxClients
  /\ client' = client + 1
  /\ alive' = TRUE
  /\ UNCHANGED <<registered, callback, counter, readers, lists, answers, at, job, seen>>

ClientDies ==
  /\ alive
  /\ alive' = FALSE
  /\ UNCHANGED <<client, registered, callback, counter, readers, lists, answers, at, job, seen>>

\* setResponseFunctions, once the write lock is free.  onNewCommandConnect sends
\* two indications: RIL_CONNECTED, and RADIO_STATE_CHANGED after it.
SetResponseFunctions ==
  /\ at[Binder] = "idle"
  /\ readers = 0
  /\ registered < client
  /\ registered' = registered + 1
  /\ callback' = registered'
  /\ counter' = counter + 1
  /\ Goes(Binder, "lock")
  /\ job' = [job EXCEPT ![Binder] = Connected]
  /\ UNCHANGED <<client, alive, readers, lists, answers, seen>>

-----------------------------------------------------------------------------
(* Requests                                                                *)

\* A process asks when it has registered; it may have died since.
Asks(r) ==
  /\ at[Binder] = "idle"
  /\ registered > 0
  /\ r \notin given \cup refused
  /\ list' = list \cup {r}

\* addRequestToList and onRequest.
Dispatch(r) ==
  /\ Asks(r)
  /\ given' = given \cup {r}
  /\ UNCHANGED <<clients, callback, counter, readers, refused, answers, at, job, seen>>

\* sendErrorResponse for a request that is not supported or not valid: it stays
\* on the list, and its answer goes up without the read lock.
Refuse(r) ==
  /\ Asks(r)
  /\ refused' = refused \cup {r}
  /\ Goes(Binder, "test")
  /\ job' = [job EXCEPT ![Binder] = [kind |-> "answer", request |-> r]]
  /\ UNCHANGED <<clients, callback, counter, readers, given, answers, seen>>

\* The vendor library acknowledges and completes a request from one thread at a
\* time; it may complete one it has completed before.
MayCall(t, r) ==
  /\ at[t] = "idle"
  /\ r \in given
  /\ \A v \in Vendors : at[v] # "idle" => job[v].request # r

\* RIL_onRequestAck, of a request it finds on the list; it may come again.
\* wasAckSent only selects the type of the answer: see RilWakeLock.
Ack(t, r) ==
  /\ MayCall(t, r)
  /\ r \in list
  /\ Goes(t, "lock")
  /\ job' = [job EXCEPT ![t] = [kind |-> "ack", request |-> r]]
  /\ UNCHANGED <<clients, callback, counter, readers, lists, answers, seen>>

\* Mutant: the request stays on the list, as it does for an acknowledgement.
CompleteAsAck(t, r) ==
  /\ MayCall(t, r)
  /\ r \in list
  /\ Goes(t, "lock")
  /\ job' = [job EXCEPT ![t] = [kind |-> "answer", request |-> r]]
  /\ UNCHANGED <<clients, callback, counter, readers, lists, answers, seen>>

\* RIL_onRequestComplete takes it off.
Complete(t, r) ==
  /\ MayCall(t, r)
  /\ r \in list
  /\ list' = list \ {r}
  /\ Goes(t, "lock")
  /\ job' = [job EXCEPT ![t] = [kind |-> "answer", request |-> r]]
  /\ UNCHANGED <<clients, callback, counter, readers, given, refused, answers, seen>>

\* A request that is off the list is an invalid token to both.
CompleteInvalid(t, r) ==
  /\ MayCall(t, r)
  /\ r \notin list
  /\ UNCHANGED vars

\* RIL_onUnsolicitedResponse.
Indicate(t) ==
  /\ at[t] = "idle"
  /\ Goes(t, "lock")
  /\ job' = [job EXCEPT ![t] = Idle]
  /\ UNCHANGED <<clients, callback, counter, readers, lists, answers, seen>>

-----------------------------------------------------------------------------
(* Calling up                                                              *)

Lock(t) ==
  /\ at[t] = "lock"
  /\ readers' = readers + 1
  /\ Goes(t, "test")
  /\ UNCHANGED <<clients, callback, counter, lists, answers, job, seen>>

\* The read lock is left to whoever took it: the error answer took none.
Return(t) ==
  IF t = Binder /\ job[t].kind = "answer" THEN "idle" ELSE "unlock"

\* if (mRadioResponse != NULL)
Test(t) ==
  /\ at[t] = "test"
  /\ Goes(t, IF callback = 0 THEN Return(t) ELSE "call")
  /\ UNCHANGED <<clients, callback, counter, readers, lists, answers, job, seen>>

\* The call, through a callback that is read once more: without one the daemon
\* dies, with all its threads.  A failure is followed by checkReturnStatus, which
\* notes the counter and gives the read lock up.
CallUp(t) ==
  /\ at[t] = "call"
  /\ \/ /\ callback = 0
        /\ at' = [v \in Threads |-> "dead"]
        /\ UNCHANGED <<readers, answers, seen>>
     \/ /\ callback # 0
        /\ callback = client /\ alive
        /\ answers' = IF job[t].kind = "answer"
                      THEN [answers EXCEPT ![job[t].request] = @ + 1]
                      ELSE answers
        /\ Goes(t, Return(t))
        /\ UNCHANGED <<readers, seen>>
     \/ /\ callback # 0
        /\ ~(callback = client /\ alive)
        /\ seen' = [seen EXCEPT ![t] = counter]
        /\ readers' = Unlocked
        /\ Goes(t, "reset")
        /\ UNCHANGED answers
  /\ UNCHANGED <<clients, callback, counter, lists, job>>

\* Mutant: the callbacks are reset without a look at the counter.
ResetBlindly(t) ==
  /\ at[t] = "reset"
  /\ readers = 0
  /\ callback' = 0
  /\ counter' = counter + 1
  /\ Goes(t, "relock")
  /\ UNCHANGED <<clients, readers, lists, answers, job, seen>>

\* checkReturnStatus with the write lock.
Reset(t) ==
  /\ at[t] = "reset"
  /\ readers = 0
  /\ IF counter = seen[t]
     THEN callback' = 0 /\ counter' = counter + 1
     ELSE UNCHANGED <<callback, counter>>
  /\ Goes(t, "relock")
  /\ UNCHANGED <<clients, readers, lists, answers, job, seen>>

\* Mutant: the read lock is not taken again.
RelockNot(t) ==
  /\ at[t] = "relock"
  /\ Goes(t, Return(t))
  /\ UNCHANGED <<clients, callback, counter, readers, lists, answers, job, seen>>

\* ... and with the read lock again, for the caller to release.
Relock(t) ==
  /\ at[t] = "relock"
  /\ readers' = readers + 1
  /\ Goes(t, Return(t))
  /\ UNCHANGED <<clients, callback, counter, lists, answers, job, seen>>

\* The first of the two indications of onNewCommandConnect is done with.
UnlockConnected(t) ==
  /\ at[t] = "unlock"
  /\ job[t] = Connected
  /\ readers' = Unlocked
  /\ Goes(t, "lock")
  /\ job' = [job EXCEPT ![t] = Idle]
  /\ UNCHANGED <<clients, callback, counter, lists, answers, seen>>

Unlock(t) ==
  /\ at[t] = "unlock"
  /\ job[t] # Connected
  /\ readers' = Unlocked
  /\ Goes(t, "idle")
  /\ UNCHANGED <<clients, callback, counter, lists, answers, job, seen>>

-----------------------------------------------------------------------------
CallsUp(t) == Lock(t) \/ Test(t) \/ CallUp(t) \/ Relock(t) \/ UnlockConnected(t) \/ Unlock(t)

Next ==
  \/ ClientStarts
  \/ ClientDies
  \/ SetResponseFunctions
  \/ \E r \in Requests : Dispatch(r) \/ Refuse(r)
  \/ \E t \in Vendors :
       \/ Indicate(t)
       \/ \E r \in Requests : Ack(t, r) \/ Complete(t, r) \/ CompleteInvalid(t, r)
  \/ \E t \in Threads : CallsUp(t) \/ Reset(t)

Spec == Init /\ [][Next]_vars

\* Threads run, and a thread that waits for the write lock gets it if it is free
\* again and again.
Fairness ==
  /\ \A t \in Threads : WF_vars(CallsUp(t))
  /\ \A t \in Threads : SF_vars(Reset(t))
  /\ SF_vars(SetResponseFunctions)

FairSpec == Spec /\ Fairness

-----------------------------------------------------------------------------
(* Properties                                                              *)

\* Every variable has its type; callbacks belong to a client that registered,
\* and none registers before it starts (setResponseFunctions).
TypeOK ==
  /\ client \in 0..MaxClients
  /\ alive \in BOOLEAN
  /\ registered \in 0..client
  /\ callback \in {0, registered}
  /\ counter \in Nat
  /\ readers \in Nat
  /\ list \subseteq given \cup refused
  /\ given \subseteq Requests
  /\ refused \subseteq Requests
  /\ answers \in [Requests -> Nat]
  /\ at \in [Threads -> Stages]
  /\ job \in [Threads -> [kind : Kinds, request : Requests \cup {None}]]
  /\ seen \in [Threads -> Nat]

\* No request is answered twice, however often the vendor library completes it
\* and whether or not it was acknowledged (checkAndDequeueRequestInfoIfAck).
OneAnswer == \A r \in Requests : answers[r] <= 1

\* A process that lives and has registered keeps its callbacks: a call to an
\* earlier one that fails late does not reset them.  "note the current counter
\* to avoid overwriting updates made by another thread" (ril_service.cpp:775).
LiveClientIsKept == alive /\ registered = client => callback = client

Crashed == \E t \in Threads : at[t] = "dead"

Holding == {t \in Threads : at[t] \in {"test", "call", "unlock"}}

\* As long as no error answer was sent, the readers are the threads that are
\* between their lock and their unlock, and no reset callback is called.
CallsAreSafe ==
  refused = {} => readers = Cardinality(Holding) /\ ~Crashed

\* "When the client process is back up, it will call setResponseFunctions()"
\* (ril_service.cpp:771): a process that starts is registered.  It is not: an
\* error answer that finds the process dead goes through checkReturnStatus
\* without a read lock, leaves with one, and the write lock is never free again.
ClientGetsIn ==
  \A c \in 1..MaxClients : client = c ~> registered >= c \/ Crashed
=============================================================================
