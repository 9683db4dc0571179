------------------------------ MODULE LocEngNi ------------------------------
(***************************************************************************)
(* Network-initiated (NI) location requests: loc_eng_ni.cpp.  The modem    *)
(* asks whether somebody may know where the device is, the user accepts    *)
(* or denies, and the answer goes back with the modem's own request, a     *)
(* heap block that must be freed once.  There are two sessions, the        *)
(* ordinary one and the one of emergency SUPL, each for one request at a   *)
(* time.                                                                   *)
(*                                                                         *)
(* Three kinds of threads share a session.                                 *)
(*   MsgTask    starts a request, sends the answer to the modem, and       *)
(*              resets both sessions when the modem goes down;             *)
(*   NI thread  one per request (ni_thread_proc), waits for the user's     *)
(*              answer or a timeout and hands the answer to the MsgTask;   *)
(*   HAL        brings the user's answer (loc_eng_ni_respond).             *)
(* Only part of what they do is under the session's tLock, so each of them *)
(* is cut into the steps between which the others can see a difference.    *)
(*                                                                         *)
(* A request stands for its notification id too (the ids are counted up    *)
(* and never reused here), and for the NI thread that serves it.           *)
(***************************************************************************)
EXTENDS Naturals, Sequences, FiniteSets

CONSTANTS
  Requests,      \* the NI requests of the modem
  EsRequests,    \* those of emergency SUPL
  Words,         \* the answers of the user
  None,          \* NULL, and the notification id 0
  MaxRestarts    \* bound: times the modem goes down

ASSUME RequestsAssumption ==
  /\ EsRequests \subseteq Requests
  /\ Words \subseteq {"ACCEPT", "DENY"}
  /\ None \notin Requests
  /\ MaxRestarts \in Nat

VARIABLES
  rawRequest,  \* per session: the modem's request, or None
  reqID,       \* per session: the notification id that may be answered, or None
  respRecvd,   \* per session: has the user answered?
  resp,        \* per session: the answer, and the notification it was given for
  thread,      \* per request: where its NI thread is
  held,        \* per request: the rawRequest its thread took, once it has
  hal,         \* what the HAL thread is doing
  mt,          \* what the MsgTask thread is doing
  queue,       \* LocEngInformNiResponse messages for the MsgTask
  answered,    \* requests the user has answered
  sent,        \* answers that reached the modem
  freed,       \* per request: times its block was freed
  restarts     \* times the modem went down

session == <<rawRequest, reqID, respRecvd, resp>>
ghosts  == <<answered, sent, freed, restarts>>
vars    == <<session, thread, held, hal, mt, queue, ghosts>>

Sessions == {"ni", "es"}
Answers  == [word : Words \cup {"NONE", "NORESP", "IGNORE"}, id : Requests \cup {None}]
Stages   == {"none", "refused", "missing", "start", "waiting", "woken", "checked",
             "cleared", "done"}
Resets   == {"check", "free", "clear", "signal"}

\* What is sent: IGNORE is the driver's own word, and no answer to the modem.
Messages == [request : Requests \cup {None}, word : Words \cup {"NONE", "NORESP"},
             id : Requests \cup {None}]

\* NULL is no message.
ASSUME NoneAssumption == None \notin Messages

Idle == [at |-> "idle"]
NoAnswer == [word |-> "NONE", id |-> None]

sessionOf(r) == IF r \in EsRequests THEN "es" ELSE "ni"

\* ni_thread_proc holds tLock from the moment it wakes until it has cleared
\* rawRequest; everyone else locks and unlocks within one step.
Locked(s) == \E r \in Requests : sessionOf(r) = s /\ thread[r] \in {"woken", "checked"}

Init ==
  /\ rawRequest = [s \in Sessions |-> None]
  /\ reqID = [s \in Sessions |-> None]
  /\ respRecvd = [s \in Sessions |-> FALSE]
  /\ resp = [s \in Sessions |-> NoAnswer]
  /\ thread = [r \in Requests |-> "none"]
  /\ held = [r \in Requests |-> None]
  /\ hal = Idle
  /\ mt = Idle
  /\ queue = <<>>
  /\ answered = {}
  /\ sent = {}
  /\ freed = [r \in Requests |-> 0]
  /\ restarts = 0

\* free(r): of a block, or of NULL, which does nothing.
Free(r) == freed' = IF r = None THEN freed ELSE [freed EXCEPT ![r] = @ + 1]

-----------------------------------------------------------------------------
(* MsgTask: loc_eng_ni_request_handler                                     *)

\* Mutant: an ordinary request is checked against an emergency only.
BusyWithEmergency(r) == rawRequest["es"] # None

\* An emergency waits for nobody but another emergency.
Busy(r) ==
  \/ rawRequest["es"] # None
  \/ r \notin EsRequests /\ rawRequest["ni"] # None

Asks(r) == mt = Idle /\ thread[r] = "none"

\* Mutant: the block of an ignored request is not freed.
RequestIgnoredLeaks(r) ==
  /\ Asks(r)
  /\ Busy(r)
  /\ thread' = [thread EXCEPT ![r] = "refused"]
  /\ UNCHANGED <<session, held, hal, mt, queue, ghosts>>

RequestIgnored(r) ==
  /\ Asks(r)
  /\ Busy(r)
  /\ thread' = [thread EXCEPT ![r] = "refused"]
  /\ Free(r)
  /\ UNCHANGED <<session, held, hal, mt, queue, answered, sent, restarts>>

\* The fields are written without tLock; what they race with is the tail of
\* the session's previous thread, which is cut into steps below.
\* A thread that cannot be created is logged, and the user is asked all the same.
RequestAccepted(r) ==
  LET s == sessionOf(r) IN
  /\ Asks(r)
  /\ ~Busy(r)
  /\ rawRequest' = [rawRequest EXCEPT ![s] = r]
  /\ reqID' = [reqID EXCEPT ![s] = r]
  /\ \E created \in BOOLEAN :
       thread' = [thread EXCEPT ![r] = IF created THEN "start" ELSE "missing"]
  /\ UNCHANGED <<respRecvd, resp, held, hal, mt, queue, ghosts>>

\* LocEngInformNiResponse::proc and destructor: the modem gets the answer with
\* its request, and the request is freed.
Inform ==
  /\ mt = Idle
  /\ queue # <<>>
  /\ queue' = Tail(queue)
  /\ sent' = sent \cup {Head(queue)}
  /\ Free(Head(queue).request)
  /\ UNCHANGED <<session, thread, held, hal, mt, answered, restarts>>

-----------------------------------------------------------------------------
(* MsgTask: loc_eng_ni_reset_on_engine_restart, the emergency first        *)

At(s, step) == mt = [at |-> step, of |-> s]

GoTo(s, step) == mt' = [at |-> step, of |-> s]

GoOn(s) == IF s = "es" THEN GoTo("ni", "check") ELSE mt' = Idle

EngineDown ==
  /\ mt = Idle
  /\ restarts < MaxRestarts
  /\ restarts' = restarts + 1
  /\ GoTo("es", "check")
  /\ UNCHANGED <<session, thread, held, hal, queue, answered, sent, freed>>

ResetCheck(s) ==
  /\ At(s, "check")
  /\ IF rawRequest[s] # None THEN GoTo(s, "free") ELSE GoOn(s)
  /\ UNCHANGED <<session, thread, held, hal, queue, ghosts>>

ResetFree(s) ==
  /\ At(s, "free")
  /\ Free(rawRequest[s])
  /\ GoTo(s, "clear")
  /\ UNCHANGED <<session, thread, held, hal, queue, answered, sent, restarts>>

ResetClear(s) ==
  /\ At(s, "clear")
  /\ rawRequest' = [rawRequest EXCEPT ![s] = None]
  /\ GoTo(s, "signal")
  /\ UNCHANGED <<reqID, respRecvd, resp, thread, held, hal, queue, ghosts>>

ResetSignal(s) ==
  /\ At(s, "signal")
  /\ ~Locked(s)
  /\ respRecvd' = [respRecvd EXCEPT ![s] = TRUE]
  /\ GoOn(s)
  /\ UNCHANGED <<rawRequest, reqID, resp, thread, held, hal, queue, ghosts>>

Reset(s) == ResetCheck(s) \/ ResetFree(s) \/ ResetClear(s) \/ ResetSignal(s)

-----------------------------------------------------------------------------
(* NI thread: ni_thread_proc                                               *)

Becomes(r, stage) == thread' = [thread EXCEPT ![r] = stage]

\* The thread takes tLock, and waits unless the answer is there already.  How
\* long it waits (respTimeLeft) is left open: a timeout may come at once, which
\* is what it does when the thread before has set respTimeLeft to 0 meanwhile.
Start(r) ==
  LET s == sessionOf(r) IN
  /\ thread[r] = "start"
  /\ ~Locked(s)
  /\ Becomes(r, IF respRecvd[s] THEN "woken" ELSE "waiting")
  /\ respRecvd' = [respRecvd EXCEPT ![s] = FALSE]
  /\ UNCHANGED <<rawRequest, reqID, resp, held, hal, mt, queue, ghosts>>

Wake(r) ==
  LET s == sessionOf(r) IN
  /\ thread[r] = "waiting"
  /\ ~Locked(s)
  /\ respRecvd[s]
  /\ Becomes(r, "woken")
  /\ respRecvd' = [respRecvd EXCEPT ![s] = FALSE]
  /\ UNCHANGED <<rawRequest, reqID, resp, held, hal, mt, queue, ghosts>>

\* A wait that ends with ETIMEDOUT overwrites whatever answer came meanwhile.
Timeout(r) ==
  LET s == sessionOf(r) IN
  /\ thread[r] = "waiting"
  /\ ~Locked(s)
  /\ Becomes(r, "woken")
  /\ resp' = [resp EXCEPT ![s] = [word |-> "NORESP", id |-> r]]
  /\ respRecvd' = [respRecvd EXCEPT ![s] = FALSE]
  /\ UNCHANGED <<rawRequest, reqID, held, hal, mt, queue, ghosts>>

\* rawRequest is looked at, and taken for the message if it is there ...
Check(r) ==
  LET s == sessionOf(r) IN
  /\ thread[r] = "woken"
  /\ Becomes(r, IF rawRequest[s] # None THEN "checked" ELSE "cleared")
  /\ UNCHANGED <<session, held, hal, mt, queue, ghosts>>

\* Mutant: the block is freed here whatever becomes of it.
TakeAndFree(r) ==
  LET s == sessionOf(r) IN
  /\ thread[r] = "checked"
  /\ held' = [held EXCEPT ![r] =
       [request |-> rawRequest[s], word |-> resp[s].word, id |-> resp[s].id]]
  /\ Free(rawRequest[s])
  /\ rawRequest' = [rawRequest EXCEPT ![s] = None]
  /\ Becomes(r, "cleared")
  /\ UNCHANGED <<reqID, respRecvd, resp, hal, mt, queue,
                 answered, sent, restarts>>

\* Mutant: rawRequest is not cleared.
TakeAndKeep(r) ==
  LET s == sessionOf(r) IN
  /\ thread[r] = "checked"
  /\ held' = [held EXCEPT ![r] =
       [request |-> rawRequest[s], word |-> resp[s].word, id |-> resp[s].id]]
  /\ Becomes(r, "cleared")
  /\ UNCHANGED <<session, hal, mt, queue, ghosts>>

\* ... or freed if the answer is to be ignored; then it is cleared and tLock
\* released.
Take(r) ==
  LET s == sessionOf(r)
      ignored == resp[s].word = "IGNORE" IN
  /\ thread[r] = "checked"
  /\ held' = [held EXCEPT ![r] =
       IF ignored THEN None
       ELSE [request |-> rawRequest[s], word |-> resp[s].word, id |-> resp[s].id]]
  /\ Free(IF ignored THEN rawRequest[s] ELSE None)
  /\ rawRequest' = [rawRequest EXCEPT ![s] = None]
  /\ Becomes(r, "cleared")
  /\ UNCHANGED <<reqID, respRecvd, resp, hal, mt, queue,
                 answered, sent, restarts>>

\* The tail of the thread runs without tLock.  Sending the message is one step
\* with clearing reqID: only the MsgTask sees it, which may come to it any later.
Finish(r) ==
  /\ thread[r] = "cleared"
  /\ reqID' = [reqID EXCEPT ![sessionOf(r)] = None]
  /\ queue' = IF held[r] = None THEN queue ELSE Append(queue, held[r])
  /\ held' = [held EXCEPT ![r] = None]
  /\ Becomes(r, "done")
  /\ UNCHANGED <<rawRequest, respRecvd, resp, hal, mt, ghosts>>

Runs(r) ==
  Start(r) \/ Wake(r) \/ Timeout(r) \/ Check(r) \/ Take(r) \/ Finish(r)

-----------------------------------------------------------------------------
(* HAL: loc_eng_ni_respond                                                 *)

\* Does notification r belong to session s?
Active(s, r) == reqID[s] = r /\ rawRequest[s] # None

Setting(s, r, word) == [at |-> "set", of |-> s, id |-> r, word |-> word]

\* The framework answers a notification once; the session is found, without
\* tLock, by the id.
Respond(r, word) ==
  /\ hal = Idle
  /\ thread[r] \notin {"none", "refused"}
  /\ r \notin answered
  /\ answered' = answered \cup {r}
  /\ hal' = IF Active("es", r)
            THEN IF word = "ACCEPT" /\ rawRequest["ni"] # None
                 THEN [Setting("es", r, word) EXCEPT !.at = "override"]
                 ELSE Setting("es", r, word)
            ELSE IF Active("ni", r) THEN Setting("ni", r, word) ELSE Idle
  /\ UNCHANGED <<session, thread, held, mt, queue, sent, freed, restarts>>

\* An accepted emergency has the ordinary session ignored.
Override ==
  /\ hal.at = "override"
  /\ ~Locked("ni")
  /\ resp' = [resp EXCEPT !["ni"] = [word |-> "IGNORE", id |-> hal.id]]
  /\ respRecvd' = [respRecvd EXCEPT !["ni"] = TRUE]
  /\ hal' = [hal EXCEPT !.at = "set"]
  /\ UNCHANGED <<rawRequest, reqID, thread, held, mt, queue,
                 answered, sent, freed, restarts>>

SetResponse ==
  /\ hal.at = "set"
  /\ ~Locked(hal.of)
  /\ resp' = [resp EXCEPT ![hal.of] = [word |-> hal.word, id |-> hal.id]]
  /\ respRecvd' = [respRecvd EXCEPT ![hal.of] = TRUE]
  /\ hal' = Idle
  /\ UNCHANGED <<rawRequest, reqID, thread, held, mt, queue, ghosts>>

-----------------------------------------------------------------------------
Next ==
  \/ \E r \in Requests :
       RequestIgnored(r) \/ RequestAccepted(r) \/ Runs(r)
         \/ \E word \in Words : Respond(r, word)
  \/ Inform
  \/ EngineDown
  \/ \E s \in Sessions : Reset(s)
  \/ Override
  \/ SetResponse

Spec == Init /\ [][Next]_vars

-----------------------------------------------------------------------------
(* Properties.                                                             *)

\* The shape of the state; no message carries IGNORE.
TypeOK ==
  /\ rawRequest \in [Sessions -> Requests \cup {None}]
  /\ reqID \in [Sessions -> Requests \cup {None}]
  /\ respRecvd \in [Sessions -> BOOLEAN]
  /\ resp \in [Sessions -> Answers]
  /\ thread \in [Requests -> Stages]
  /\ held \in [Requests -> Messages \cup {None}]
  /\ hal = Idle \/ hal \in [at : {"override", "set"}, of : Sessions, id : Requests, word : Words]
  /\ mt = Idle \/ mt \in [at : Resets, of : Sessions]
  /\ queue \in Seq(Messages)
  /\ answered \subseteq Requests
  /\ sent \subseteq Messages
  /\ freed \in [Requests -> Nat]
  /\ restarts \in 0..MaxRestarts

\* While the modem has not restarted a session has a thread that has yet to look
\* at rawRequest exactly when it has a request, and it is that request's thread
\* (or would be, had it been created): a new request never finds the thread of
\* the one before still waiting.
OneWaiter ==
  restarts = 0 =>
    \A s \in Sessions :
      {r \in Requests :
         /\ sessionOf(r) = s
         /\ thread[r] \in {"missing", "start", "waiting", "woken", "checked"}}
      = {rawRequest[s]} \ {None}

Carried(r) ==
  Cardinality({t \in Requests : held[t] # None /\ held[t].request = r})
    + Cardinality({i \in 1..Len(queue) : queue[i].request = r})

Kept(r) == IF rawRequest[sessionOf(r)] = r THEN 1 ELSE 0

\* While the modem has not restarted the block of every request has one owner: it
\* is kept in its session, carried by one message, or freed, and freed once.
OneOwner ==
  restarts = 0 =>
    \A r \in Requests :
      thread[r] # "none" => Kept(r) + Carried(r) + freed[r] = 1

\* The modem is never given two answers to one request, restarted or not.
OneAnswer ==
  \A r \in Requests :
    Carried(r) + Cardinality({m \in sent : m.request = r}) <= 1

AtRest ==
  /\ mt = Idle
  /\ queue = <<>>
  /\ \A r \in Requests : thread[r] \in {"none", "refused", "missing", "done"}

\* Once all threads have come to rest every block the modem handed over has been
\* freed: after an answer, by an emergency that overrides it, after a timeout, by
\* a restart, or at once if it was refused. Only a session without a thread keeps it.
NothingLeaks ==
  AtRest =>
    \A r \in Requests :
      \/ thread[r] = "none"
      \/ freed[r] > 0
      \/ thread[r] = "missing" /\ Kept(r) = 1
=============================================================================
