-------------------------- MODULE AgpsStateMachine --------------------------
(***************************************************************************)
(* One AgpsStateMachine (gps/loc_api/libloc_api_50001/loc_eng_agps.cpp):   *)
(* the sharing of one data connection, a network interface or NIF, among   *)
(* the location clients of the device.  loc_eng.cpp creates one for SUPL   *)
(* (agnss_nif), one for the internet (internet_nif) and one for WiFi       *)
(* (wifi_nif); DSStateMachine (ds_nif) inherits from it.                   *)
(*                                                                         *)
(* Three parties meet here.                                                *)
(*   Clients         ask for the interface and give it back (ATL handles   *)
(*                   of the modem, the BIT daemon, the WiFi daemons).      *)
(*   the machine     runs every handler on the one MsgTask thread of the   *)
(*                   adapter, so a handler is one step.                    *)
(*   the framework   (AFW, external) opens and closes the connection.  The *)
(*                   machine calls it through agps_status_cb; it answers   *)
(*                   later by posting a message to the MsgTask queue.      *)
(*                                                                         *)
(* The two directions between machine and framework are FIFO: toAfw and    *)
(* fromAfw.  What a client does is not queued: the machine meets it at     *)
(* any point of its run, which is all a queue of clients' messages adds.   *)
(*                                                                         *)
(* For ds_nif this is the machine while data services take every call to   *)
(* start a data call (sendRsrcRequest returns 0, as it always does for the *)
(* other interfaces): the retries of a call that is refused are            *)
(* DSStateMachine's.  Its subscribers are told by informStatus: that they  *)
(* are closed when they turn inactive, nothing when the call is over, and  *)
(* on a denial their request is handed over to agnss_nif.                  *)
(***************************************************************************)
EXTENDS Naturals, Sequences

CONSTANTS
  Clients,        \* the clients, one for each Subscriber::equals class
  WaitsForClose,  \* those whose waitForCloseComplete() is true
  ModemClients,   \* those that live in the modem and die with it
  MaxInFlight     \* bound: clients act while fewer messages are in flight

ASSUME ClientsAssumption ==
  /\ WaitsForClose \subseteq Clients
  /\ ModemClients \subseteq Clients

ASSUME BoundAssumption == MaxInFlight \in Nat

VARIABLES
  mType,     \* which interface this is; never changes
  state,     \* mStatePtr
  active,    \* subscribers of mSubscribers that are not isInactive()
  inactive,  \* subscribers that unsubscribed and wait for the close to complete
  view,      \* what each client was last told, or last asked for; or what it missed
  toAfw,     \* calls of agps_status_cb the framework has not handled yet
  fromAfw,   \* the framework's events the MsgTask has not processed yet
  nif        \* the connection itself, as the framework has it

vars == <<mType, state, active, inactive, view, toAfw, fromAfw, nif>>

\* SUPL stands for agnss_nif and internet_nif, INVALID for ds_nif.
Types    == {"SUPL", "WIFI", "INVALID"}
States   == {"Released", "Pending", "Acquired", "Releasing"}
\* handed: agnss_nif was asked for the client instead.  dropped: its entry was
\* taken off the list without a word, and it still counts on what it had.
Views    == {"idle", "asking", "granted", "closing", "handed", "dropped"}
Requests == {"REQUEST", "RELEASE"}
Events   == {"GRANTED", "DENIED", "RELEASED"}
NifStates == {"closed", "opening", "open"}

Init ==
  /\ mType \in Types
  /\ state = "Released"
  /\ active = {}
  /\ inactive = {}
  /\ view = [c \in Clients |-> "idle"]
  /\ toAfw = <<>>
  /\ fromAfw = <<>>
  /\ nif = "closed"

-----------------------------------------------------------------------------
(* Helpers of the machine.                                                 *)

EnforceSingleSubscriber == mType = "WIFI"

subscribers == active \cup inactive

\* The clients of S are told the word w; the others are told nothing.
Tell(S, w) == [c \in Clients |-> IF c \in S THEN w ELSE view[c]]

\* S is taken off the list without a word.
Drop(S) == Tell({c \in S : view[c] \in {"asking", "granted"}}, "dropped")

\* addSubscriber: the new entry is active, unless an equal one is listed.
addSubscriber(c) == IF c \in inactive THEN active ELSE active \cup {c}

\* sendRsrcRequest, with the active subscribers left when it is called.  It
\* calls the framework only to request for somebody or to release for nobody.
sendRsrcRequest(action, left) ==
  IF (left = {}) <=> (action = "RELEASE") THEN Append(toAfw, action) ELSE toAfw

\* Clients act only while few messages are in flight (the bound of the model).
MayAct == Len(toAfw) + Len(fromAfw) < MaxInFlight

-----------------------------------------------------------------------------
(* subscribeRsrc                                                           *)

\* agnss_nif and internet_nif serve ATL handles and the BIT daemon, who leave at
\* once; wifi_nif the WiFi senders, who wait, and the BIT daemon; ds_nif the
\* handles of the modem alone, as subscribers that wait.
Serves(c) ==
  /\ mType = "SUPL" => c \notin WaitsForClose
  /\ mType = "WIFI" => c \notin ModemClients
  /\ mType = "INVALID" => c \in WaitsForClose \cap ModemClients

\* A client asks when it holds nothing and waits for no answer; its last close
\* may still be under way.
Asks(c) ==
  /\ MayAct
  /\ Serves(c)
  /\ view[c] \in {"idle", "closing"}

\* A second subscriber of a single-subscriber interface is denied at once.
SubscribeRefused(c) ==
  /\ Asks(c)
  /\ EnforceSingleSubscriber /\ subscribers # {}
  /\ UNCHANGED vars

Subscribes(c) ==
  /\ Asks(c)
  /\ ~(EnforceSingleSubscriber /\ subscribers # {})
  /\ active' = addSubscriber(c)
  /\ UNCHANGED <<mType, inactive, fromAfw, nif>>

SubscribeReleased(c) ==
  /\ state = "Released"
  /\ Subscribes(c)
  /\ toAfw' = sendRsrcRequest("REQUEST", addSubscriber(c))
  /\ state' = "Pending"
  /\ view' = Tell({c}, "asking")

\* Pending and Releasing: the client joins the list and waits for the answer.
SubscribeWaiting(c) ==
  /\ state \in {"Pending", "Releasing"}
  /\ Subscribes(c)
  /\ view' = Tell({c}, "asking")
  /\ UNCHANGED <<state, toAfw>>

\* Acquired: the resource is in hand and is granted right away.
SubscribeAcquired(c) ==
  /\ state = "Acquired"
  /\ Subscribes(c)
  /\ view' = Tell({c}, "granted")
  /\ UNCHANGED <<state, toAfw>>

Subscribe(c) ==
  \/ SubscribeRefused(c)
  \/ SubscribeReleased(c)
  \/ SubscribeWaiting(c)
  \/ SubscribeAcquired(c)

-----------------------------------------------------------------------------
(* unsubscribeRsrc                                                         *)

\* notifySubscribers deletes the receiver of its notification and then goes on
\* searching the list for that freed receiver: who else it matches depends on
\* what the memory holds by then.
AlsoMatched(c) == SUBSET (subscribers \ {c})

\* Mutant: an inactive subscriber stays among the active ones.
CloseSubscriberTwice(c) ==
  /\ active' = IF c \in WaitsForClose THEN active ELSE active \ {c}
  /\ inactive' = IF c \in WaitsForClose THEN inactive \cup {c} ELSE inactive
  /\ view' = Tell({c}, IF c \in WaitsForClose THEN "closing" ELSE "idle")

\* The subscriber turns inactive, which DSSubscriber::setInactive tells the modem as
\* closed, or is told it is unsubscribed and deleted.
CloseSubscriber(c) ==
  \/ /\ c \in WaitsForClose
     /\ active' = active \ {c}
     /\ inactive' = inactive \cup {c}
     /\ view' = Tell({c}, IF mType = "INVALID" THEN "idle" ELSE "closing")
  \/ /\ c \notin WaitsForClose
     /\ \E others \in AlsoMatched(c) :
          /\ active' = active \ ({c} \cup others)
          /\ inactive' = inactive \ ({c} \cup others)
          /\ view' = Tell({c} \cup others, "idle")

Unsubscribes(c) ==
  /\ MayAct
  /\ c \in subscribers
  /\ CloseSubscriber(c)
  /\ UNCHANGED <<mType, fromAfw, nif>>

\* Mutant: inactive subscribers count as users.
UnsubscribeHeldByAny(c) ==
  /\ state \in {"Pending", "Acquired"}
  /\ Unsubscribes(c)
  /\ IF active' \cup inactive' = {}
     THEN /\ state' = "Released"
          /\ toAfw' = sendRsrcRequest("RELEASE", active')
     ELSE UNCHANGED <<state, toAfw>>

\* Pending and Acquired: the last one out has the framework release the NIF.
UnsubscribeHeld(c) ==
  /\ state \in {"Pending", "Acquired"}
  /\ Unsubscribes(c)
  /\ IF active' = {}
     THEN /\ state' = IF inactive' = {} THEN "Released" ELSE "Releasing"
          /\ toAfw' = sendRsrcRequest("RELEASE", active')
     ELSE UNCHANGED <<state, toAfw>>

\* Releasing: the release is already on its way.
UnsubscribeReleasing(c) ==
  /\ state = "Releasing"
  /\ Unsubscribes(c)
  /\ state' = IF active' \cup inactive' = {} THEN "Released" ELSE state
  /\ UNCHANGED toAfw

\* A client that is on no list gives back what it counts on: an ATL handle is told
\* that it could not be released, others nothing.
UnsubscribeUnlisted(c) ==
  /\ MayAct
  /\ c \notin subscribers
  /\ view[c] \in {"handed", "dropped"}
  /\ view' = Tell({c}, "idle")
  /\ UNCHANGED <<mType, state, active, inactive, toAfw, fromAfw, nif>>

Unsubscribe(c) == UnsubscribeHeld(c) \/ UnsubscribeReleasing(c) \/ UnsubscribeUnlisted(c)

-----------------------------------------------------------------------------
(* onRsrcEvent: the MsgTask thread processes the framework's next event.   *)

Takes(event) ==
  /\ fromAfw # <<>>
  /\ Head(fromAfw) = event
  /\ fromAfw' = Tail(fromAfw)
  /\ UNCHANGED <<mType, nif>>

\* The event means nothing in this state and is dropped.
Dropped == UNCHANGED <<state, active, inactive, view, toAfw>>

\* The last words to S.  DSStateMachine::informStatus tells its handles nothing of a
\* call that is over, and asks agnss_nif for them after one that was denied.
LastWords(S, event) ==
  IF mType # "INVALID" THEN Tell(S, "idle")
  ELSE IF event = "DENIED" THEN Tell(S, "handed")
  ELSE Drop(S)

\* Mutant: BROADCAST_ACTIVE where the code has BROADCAST_ALL.
DismissActive(event) ==
  /\ state' = "Released"
  /\ view' = LastWords(active, event)
  /\ active' = {}
  /\ UNCHANGED <<inactive, toAfw>>

\* Everyone in the list is notified, and the list is emptied.
DismissAll(event) ==
  /\ state' = "Released"
  /\ view' = LastWords(subscribers, event)
  /\ active' = {}
  /\ inactive' = {}
  /\ UNCHANGED toAfw

\* Mutant: BROADCAST_ACTIVE where the code has BROADCAST_INACTIVE.
CloseCompleteUntold ==
  /\ inactive' = {}
  /\ UNCHANGED <<active, view>>
  /\ IF active # {}
     THEN /\ state' = "Pending"
          /\ toAfw' = sendRsrcRequest("REQUEST", active)
     ELSE /\ state' = "Released"
          /\ UNCHANGED toAfw

\* Mutant: the request for the newcomers is forgotten.
CloseCompleteUnasked ==
  /\ view' = LastWords(inactive, "RELEASED")
  /\ inactive' = {}
  /\ state' = IF active # {} THEN "Pending" ELSE "Released"
  /\ UNCHANGED <<active, toAfw>>

\* The close is complete for those who waited for it; whoever subscribed in
\* the meantime starts a new request.
CloseComplete ==
  /\ view' = LastWords(inactive, "RELEASED")
  /\ inactive' = {}
  /\ UNCHANGED active
  /\ IF active # {}
     THEN /\ state' = "Pending"
          /\ toAfw' = sendRsrcRequest("REQUEST", active)
     ELSE /\ state' = "Released"
          /\ UNCHANGED toAfw

\* The modem pays no heed to a grant for a handle it forgot in a restart.
Heeding(S) == {c \in S : mType = "INVALID" => view[c] = "asking"}

\* Mutant: the search of the list ends with the first subscriber it notifies.
OnGrantedToFirst ==
  /\ Takes("GRANTED")
  /\ \/ /\ state = "Pending"
        /\ state' = "Acquired"
        /\ view' = Tell(IF active = {} THEN {} ELSE {CHOOSE c \in active : TRUE}, "granted")
        /\ UNCHANGED <<active, inactive, toAfw>>
     \/ state # "Pending" /\ Dropped

OnGranted ==
  /\ Takes("GRANTED")
  /\ \/ /\ state = "Pending"
        /\ state' = "Acquired"
        /\ view' = Tell(Heeding(active), "granted")
        /\ UNCHANGED <<active, inactive, toAfw>>
     \/ state # "Pending" /\ Dropped

\* Mutant: Releasing waits for RELEASED alone.
OnDeniedTooLate ==
  /\ Takes("DENIED")
  /\ \/ state = "Pending" /\ DismissAll("DENIED")
     \/ state # "Pending" /\ Dropped

OnDenied ==
  /\ Takes("DENIED")
  /\ \/ state = "Pending" /\ DismissAll("DENIED")
     \/ state = "Releasing" /\ CloseComplete
     \/ state \in {"Released", "Acquired"} /\ Dropped

\* Mutant: ds_nif without DSStateMachine's own onRsrcEvent.
OnReleasedOnce ==
  /\ Takes("RELEASED")
  /\ \/ state = "Acquired" /\ DismissAll("RELEASED")
     \/ state = "Releasing" /\ CloseComplete
     \/ state \in {"Released", "Pending"} /\ Dropped

\* DSStateMachine::onRsrcEvent handles a RELEASED that changes nothing once
\* more as a DENIED: data services have no other word for a failed call.
OnReleased ==
  /\ Takes("RELEASED")
  /\ \/ state = "Acquired" /\ DismissAll("RELEASED")
     \/ state = "Releasing" /\ CloseComplete
     \/ state = "Pending" /\ (IF mType = "INVALID" THEN DismissAll("DENIED") ELSE Dropped)
     \/ state = "Released" /\ Dropped

OnRsrcEvent == OnGranted \/ OnDenied \/ OnReleased

-----------------------------------------------------------------------------
(* loc_eng_handle_engine_up: the modem came back after a crash and knows   *)
(* nothing of its handles.  The lists of agnss_nif and internet_nif are    *)
(* emptied without a word to the others, ds_nif's and wifi_nif's are not,  *)
(* and every machine stays in its state.                                   *)

EngineUp ==
  LET gone == IF mType = "SUPL" THEN subscribers ELSE {}
  IN  /\ active' = active \ gone
      /\ inactive' = inactive \ gone
      /\ view' = [c \in Clients |-> IF c \in ModemClients THEN "idle" ELSE Drop(gone)[c]]
      /\ UNCHANGED <<mType, state, toAfw, fromAfw, nif>>

-----------------------------------------------------------------------------
(* The framework (external).  It opens on a request, closes on a release,  *)
(* answers a request that finds the connection open, and says nothing of a *)
(* release that finds it closed.                                           *)

AfwRequest ==
  /\ toAfw # <<>> /\ Head(toAfw) = "REQUEST"
  /\ toAfw' = Tail(toAfw)
  /\ nif' = IF nif = "closed" THEN "opening" ELSE nif
  /\ fromAfw' = IF nif = "open" THEN Append(fromAfw, "GRANTED") ELSE fromAfw
  /\ UNCHANGED <<mType, state, active, inactive, view>>

AfwRelease ==
  /\ toAfw # <<>> /\ Head(toAfw) = "RELEASE"
  /\ toAfw' = Tail(toAfw)
  /\ nif' = "closed"
  /\ fromAfw' = IF nif = "closed" THEN fromAfw ELSE Append(fromAfw, "RELEASED")
  /\ UNCHANGED <<mType, state, active, inactive, view>>

\* The connection changes from one state to another and the framework says so.
AfwReports(from, to, event) ==
  /\ nif = from
  /\ nif' = to
  /\ fromAfw' = Append(fromAfw, event)
  /\ UNCHANGED <<mType, state, active, inactive, view, toAfw>>

AfwOpened == AfwReports("opening", "open", "GRANTED")    \* loc_eng_agps_open
AfwFailed == \* loc_eng_agps_open_failed
  AfwReports("opening", "closed", IF mType = "INVALID" THEN "RELEASED" ELSE "DENIED")
AfwLost   == AfwReports("open", "closed", "RELEASED")    \* loc_eng_agps_closed

\* Opened with no name (apn is NULL): loc_eng_agps_open returns and nothing is posted.
\* The framework is still to say how its attempt ends.
AfwOpenedUnnamed == nif = "opening" /\ UNCHANGED vars

-----------------------------------------------------------------------------
Next ==
  \/ \E c \in Clients : Subscribe(c) \/ Unsubscribe(c)
  \/ OnRsrcEvent
  \/ EngineUp
  \/ AfwRequest \/ AfwRelease
  \/ AfwOpened \/ AfwOpenedUnnamed \/ AfwFailed \/ AfwLost

Spec == Init /\ [][Next]_vars

\* The MsgTask thread drains its queue (MsgTask::run never returns while the
\* process lives) and the framework handles every call and ends every attempt
\* to open; neither clients nor losses of the connection are forced to happen.
Fairness ==
  /\ WF_vars(OnRsrcEvent)
  /\ WF_vars(AfwRequest \/ AfwRelease)
  /\ WF_vars(AfwOpened \/ AfwFailed)

FairSpec == Spec /\ Fairness

-----------------------------------------------------------------------------
(* Properties.                                                             *)

\* The shape of the state; no subscriber is both active and inactive.
TypeOK ==
  /\ mType \in Types
  /\ state \in States
  /\ active \subseteq Clients
  /\ inactive \subseteq Clients
  /\ active \cap inactive = {}
  /\ view \in [Clients -> Views]
  /\ toAfw \in Seq(Requests)
  /\ fromAfw \in Seq(Events)
  /\ nif \in NifStates

\* A released machine has nobody on its list: AgpsReleasedState::onRsrcEvent
\* logs "subscriber list not empty!!!" otherwise and cannot recover.
ReleasedIsEmpty == state = "Released" => subscribers = {}

\* The interface is asked for and held on somebody's behalf, and a close is
\* waited for by somebody: whoever takes the last active subscriber away leaves
\* Pending and Acquired, and Releasing ends with its last inactive one.  On
\* SUPL engine-up breaks this by emptying the list alone.
HeldForSomeone ==
  mType # "SUPL" =>
    /\ state \in {"Pending", "Acquired"} => active # {}
    /\ state = "Releasing" => inactive # {}

Answers(S) == \E i \in 1..Len(fromAfw) : fromAfw[i] \in S

LastAsked(action) == toAfw # <<>> /\ toAfw[Len(toAfw)] = action

\* A machine that waits for the framework has an answer coming, however many
\* stale calls and answers are in between: its request is the last call in the
\* queue, or the framework is opening, or the word that ends the state is on its
\* way.  Without this Pending and Releasing, which have no timeout, never end.
AnswerIsComing ==
  /\ state = "Pending" =>
       \/ LastAsked("REQUEST")
       \/ toAfw = <<>> /\ nif = "opening"
       \/ toAfw = <<>> /\ Answers({"GRANTED"})
       \/ toAfw = <<>> /\ Answers(IF mType = "INVALID" THEN {"RELEASED"} ELSE {"DENIED"})
  /\ state = "Releasing" =>
       \/ LastAsked("RELEASE")
       \/ toAfw = <<>> /\ Answers({"RELEASED", "DENIED"})

\* What makes it so.  A connection that is not open has every grant on its way
\* followed by the word that it is over; an Acquired machine whose connection is
\* gone will hear of it; and so will a Releasing one, even when its release finds
\* the connection closed and is not answered.
GrantsAreRevoked ==
  nif # "open" =>
    \A i \in 1..Len(fromAfw) :
      fromAfw[i] = "GRANTED" =>
        \E j \in (i + 1)..Len(fromAfw) : fromAfw[j] = "RELEASED"

LossIsTold == state = "Acquired" /\ nif # "open" => Answers({"RELEASED"})

CloseIsTold ==
  /\ state = "Releasing"
  /\ nif = "closed"
  /\ \A i \in 1..Len(toAfw) : toAfw[i] # "REQUEST"
  => Answers({"RELEASED", "DENIED"})

AnswerInv ==
  /\ TypeOK
  /\ ReleasedIsEmpty
  /\ AnswerIsComing
  /\ GrantsAreRevoked
  /\ LossIsTold
  /\ CloseIsTold

\* Those who count on what they had from a list they were dropped from at engine-up.
Abandoned(c) == mType = "SUPL" /\ c \notin ModemClients /\ view[c] = "dropped"

\* What a client was told agrees with what the machine keeps.  An active subscriber
\* was told of the grant if and only if the machine is Acquired, and waits for an
\* answer otherwise, or is a handle of ds_nif the modem has forgotten; an inactive
\* one waits for its close (those of ds_nif were told already, and may have asked
\* again); and whoever is not listed holds nothing, except the daemons that engine-up
\* abandons, and handles of ds_nif, which are handed over or not told of the end.
ToldIsTrue ==
  /\ \A c \in active :
       \/ view[c] = IF state = "Acquired" THEN "granted" ELSE "asking"
       \/ mType = "INVALID" /\ view[c] = "idle"
  /\ \A c \in inactive :
       IF mType = "INVALID" THEN view[c] \in {"idle", "asking", "granted"}
       ELSE view[c] = "closing"
  /\ \A c \in Clients \ subscribers :
       \/ view[c] = "idle"
       \/ Abandoned(c)
       \/ mType = "INVALID" /\ view[c] \in {"handed", "dropped"}

Lease == INSTANCE NifLease WITH
  lease   <- IF state = "Acquired" THEN "held" ELSE "free",
  waiting <- {c \in active : view[c] = "asking"},
  holders <- {c \in active : view[c] = "granted"}

\* The machine implements the lease its clients count on while they are listed.
ImplementsLease == Lease!Spec

\* Whoever is listed and asks gets an answer, withdraws, or is handed over; only a
\* daemon may be abandoned at engine-up.  (A handle of ds_nif that asks again while
\* its old entry is inactive is not listed anew and may never be answered.)
AskingEnds ==
  \A c \in Clients :
    c \in active /\ view[c] = "asking"
      ~> view[c] \notin {"asking", "dropped"} \/ Abandoned(c)

\* Once the release is under way whoever waits for the close leaves the list when it
\* is complete.  (While others still hold the interface the wait has no end in sight.)
ReleasingEnds ==
  \A c \in Clients : c \in inactive /\ state = "Releasing" ~> c \notin inactive
=============================================================================
