----------------------- MODULE AgpsStateMachineProofs -----------------------
(***************************************************************************)
(* Theorems about AgpsStateMachine, for any set of clients, any split of   *)
(* them, and any number of messages in flight; at the end, that it         *)
(* implements the abstract lease of NifLease.                              *)
(***************************************************************************)
EXTENDS AgpsStateMachine, TLAPS

(* How a call or an event changes a queue.                                 *)

LEMMA AppendProperties ==
  ASSUME NEW S, NEW s \in Seq(S), NEW e \in S
  PROVE  /\ Append(s, e) \in Seq(S)
         /\ Append(s, e) # <<>>
         /\ Len(Append(s, e)) = Len(s) + 1
         /\ \A i \in 1..Len(s) : Append(s, e)[i] = s[i]
         /\ Append(s, e)[Len(s) + 1] = e
OBVIOUS

LEMMA TailProperties ==
  ASSUME NEW S, NEW s \in Seq(S), s # <<>>
  PROVE  /\ Tail(s) \in Seq(S)
         /\ Len(s) \in Nat \ {0}
         /\ Len(Tail(s)) = Len(s) - 1
         /\ \A i \in 1..Len(Tail(s)) : Tail(s)[i] = s[i + 1]
         /\ Head(s) = s[1]
OBVIOUS

LEMMA LongIsNotEmpty == \A s : Len(s) # 0 => s # <<>>
<1>1. Len(<<>>) = 0
  OBVIOUS
<1> QED
  BY <1>1

-----------------------------------------------------------------------------
(* Type correctness.                                                       *)

LEMMA InitTypeOK == Init => TypeOK
BY DEF Init, TypeOK, Types, States, Views, Requests, Events, NifStates

\* Telling some clients a word of the vocabulary keeps the views well typed.
LEMMA TellType ==
  ASSUME TypeOK, NEW S, NEW w \in Views
  PROVE  Tell(S, w) \in [Clients -> Views]
BY DEF TypeOK, Tell, Views

LEMMA WordsType ==
  ASSUME TypeOK, NEW S, NEW event
  PROVE  /\ Drop(S) \in [Clients -> Views]
         /\ LastWords(S, event) \in [Clients -> Views]
BY TellType DEF Drop, LastWords, Views

LEMMA SendType ==
  ASSUME TypeOK, NEW action \in Requests, NEW left
  PROVE  sendRsrcRequest(action, left) \in Seq(Requests)
BY AppendProperties DEF TypeOK, sendRsrcRequest

LEMMA NextTypeOK == TypeOK /\ [Next]_vars => TypeOK'
<1> SUFFICES ASSUME TypeOK, [Next]_vars
             PROVE  TypeOK'
  OBVIOUS
<1> USE DEF States, Views, Requests, Events, NifStates
<1>1. ASSUME NEW c \in Clients, Subscribe(c)
      PROVE  TypeOK'
  <2>1. addSubscriber(c) \subseteq Clients /\ addSubscriber(c) \cap inactive = {}
    BY DEF TypeOK, addSubscriber
  <2>2. CASE SubscribeRefused(c)
    BY <2>2 DEF SubscribeRefused, TypeOK, vars
  <2>3. CASE SubscribeReleased(c)
    BY <2>1, <2>3, TellType, SendType DEF SubscribeReleased, Subscribes, TypeOK
  <2>4. CASE SubscribeWaiting(c)
    BY <2>1, <2>4, TellType DEF SubscribeWaiting, Subscribes, TypeOK
  <2>5. CASE SubscribeAcquired(c)
    BY <2>1, <2>5, TellType DEF SubscribeAcquired, Subscribes, TypeOK
  <2> QED
    BY <1>1, <2>2, <2>3, <2>4, <2>5 DEF Subscribe
<1>2. ASSUME NEW c \in Clients, Unsubscribe(c)
      PROVE  TypeOK'
  <2>0. CASE UnsubscribeUnlisted(c)
    BY <2>0, TellType DEF UnsubscribeUnlisted, TypeOK
  <2> SUFFICES ASSUME UnsubscribeHeld(c) \/ UnsubscribeReleasing(c)
               PROVE  TypeOK'
    BY <1>2, <2>0 DEF Unsubscribe
  <2>1. Unsubscribes(c)
    BY DEF UnsubscribeHeld, UnsubscribeReleasing
  <2>2. /\ active' \subseteq Clients
        /\ inactive' \subseteq Clients
        /\ active' \cap inactive' = {}
        /\ view' \in [Clients -> Views]
        /\ UNCHANGED <<mType, fromAfw, nif>>
    <3>1. CASE c \in WaitsForClose
      BY <2>1, <3>1, TellType DEF Unsubscribes, CloseSubscriber, TypeOK
    <3>2. CASE c \notin WaitsForClose
      <4>1. PICK others \in AlsoMatched(c) :
              /\ active' = active \ ({c} \cup others)
              /\ inactive' = inactive \ ({c} \cup others)
              /\ view' = Tell({c} \cup others, "idle")
        BY <2>1, <3>2 DEF Unsubscribes, CloseSubscriber
      <4>2. view' \in [Clients -> Views]
        BY <4>1, TellType
      <4> QED
        BY <2>1, <4>1, <4>2 DEF Unsubscribes, TypeOK
    <3> QED
      BY <3>1, <3>2
  <2>3. state' \in States /\ toAfw' \in Seq(Requests)
    BY SendType DEF UnsubscribeHeld, UnsubscribeReleasing, TypeOK
  <2> QED
    BY <2>2, <2>3 DEF TypeOK
<1>3. ASSUME OnRsrcEvent
      PROVE  TypeOK'
  <2>0. PICK event : Takes(event)
    BY <1>3 DEF OnRsrcEvent, OnGranted, OnDenied, OnReleased
  <2>1. fromAfw' \in Seq(Events) /\ UNCHANGED <<mType, nif>>
    BY <2>0, TailProperties DEF Takes, TypeOK
  <2>2. CASE Dropped
    BY <2>1, <2>2 DEF Dropped, TypeOK
  <2>3. ASSUME NEW e, DismissAll(e)
        PROVE  TypeOK'
    BY <2>1, <2>3, WordsType DEF DismissAll, TypeOK
  <2>4. CASE CloseComplete
    BY <2>1, <2>4, WordsType, SendType DEF CloseComplete, TypeOK
  <2>5. CASE OnGranted /\ state = "Pending"
    BY <2>1, <2>5, TellType DEF OnGranted, Dropped, TypeOK
  <2> QED
    BY <1>3, <2>2, <2>3, <2>4, <2>5 DEF OnRsrcEvent, OnGranted, OnDenied, OnReleased
<1>4. CASE EngineUp
  <2>1. PICK gone \in {subscribers, {}} :
          /\ active' = active \ gone
          /\ inactive' = inactive \ gone
          /\ view' = [c \in Clients |-> IF c \in ModemClients THEN "idle" ELSE Drop(gone)[c]]
    BY <1>4 DEF EngineUp
  <2>2. view' \in [Clients -> Views]
    BY <2>1, WordsType
  <2> QED
    BY <1>4, <2>1, <2>2 DEF EngineUp, TypeOK
<1>5. \A event \in Events : Append(fromAfw, event) \in Seq(Events)
  BY AppendProperties DEF TypeOK
<1>6. CASE AfwRequest \/ AfwRelease
  <2>1. toAfw' \in Seq(Requests)
    BY <1>6, TailProperties DEF AfwRequest, AfwRelease, TypeOK
  <2>2. fromAfw' \in Seq(Events)
    BY <1>5, <1>6 DEF AfwRequest, AfwRelease, TypeOK
  <2> QED
    BY <1>6, <2>1, <2>2 DEF AfwRequest, AfwRelease, TypeOK
<1>7. CASE AfwOpened \/ AfwFailed \/ AfwLost
  BY <1>5, <1>7 DEF AfwOpened, AfwFailed, AfwLost, AfwReports, TypeOK
<1>8. CASE UNCHANGED vars \/ AfwOpenedUnnamed
  BY <1>8 DEF vars, AfwOpenedUnnamed, TypeOK
<1> QED
  BY <1>1, <1>2, <1>3, <1>4, <1>6, <1>7, <1>8 DEF Next

\* Every reachable state is well formed; in particular no subscriber is both
\* active and inactive, whatever the clients and the framework do.
THEOREM TypeCorrect == Spec => []TypeOK
BY InitTypeOK, NextTypeOK, PTL DEF Spec

-----------------------------------------------------------------------------
(* How the two queues carry what AnswerIsComing speaks of.                 *)

LEMMA AnswersAppend ==
  ASSUME TypeOK, NEW event \in Events, fromAfw' = Append(fromAfw, event),
         NEW S, Answers(S) \/ event \in S
  PROVE  Answers(S)'
<1>1. /\ Len(fromAfw) \in Nat
      /\ Len(fromAfw') = Len(fromAfw) + 1
      /\ \A i \in 1..Len(fromAfw) : fromAfw'[i] = fromAfw[i]
      /\ fromAfw'[Len(fromAfw) + 1] = event
  BY AppendProperties DEF TypeOK
<1> QED
  BY <1>1 DEF Answers

LEMMA AnswersTail ==
  ASSUME TypeOK, fromAfw # <<>>, fromAfw' = Tail(fromAfw),
         NEW S, Answers(S), Head(fromAfw) \notin S
  PROVE  Answers(S)'
<1>1. /\ Len(fromAfw) \in Nat \ {0}
      /\ Len(fromAfw') = Len(fromAfw) - 1
      /\ \A i \in 1..Len(fromAfw') : fromAfw'[i] = fromAfw[i + 1]
      /\ Head(fromAfw) = fromAfw[1]
  BY TailProperties DEF TypeOK
<1>2. PICK i \in 1..Len(fromAfw) : fromAfw[i] \in S
  BY DEF Answers
<1>3. i - 1 \in 1..Len(fromAfw')
  BY <1>1, <1>2
<1>4. fromAfw'[i - 1] \in S
  BY <1>1, <1>2, <1>3
<1> QED
  BY <1>3, <1>4 DEF Answers

LEMMA LastAskedAppend ==
  ASSUME TypeOK, NEW action \in Requests, toAfw' = Append(toAfw, action)
  PROVE  LastAsked(action)'
<1>1. toAfw' # <<>> /\ Len(toAfw') = Len(toAfw) + 1 /\ toAfw'[Len(toAfw) + 1] = action
  BY AppendProperties DEF TypeOK
<1> QED
  BY <1>1 DEF LastAsked

LEMMA LastAskedTail ==
  ASSUME TypeOK, NEW action, LastAsked(action), toAfw' = Tail(toAfw)
  PROVE  LastAsked(action)' \/ (toAfw' = <<>> /\ Head(toAfw) = action)
<1>1. /\ toAfw' \in Seq(Requests)
      /\ Len(toAfw) \in Nat \ {0}
      /\ Len(toAfw') = Len(toAfw) - 1
      /\ \A i \in 1..Len(toAfw') : toAfw'[i] = toAfw[i + 1]
      /\ Head(toAfw) = toAfw[1]
  BY TailProperties DEF TypeOK, LastAsked
<1>2. CASE Len(toAfw) = 1
  <2>1. toAfw' = <<>>
    BY <1>1, <1>2
  <2> QED
    BY <1>1, <1>2, <2>1 DEF LastAsked
<1>3. CASE Len(toAfw) # 1
  <2>1. Len(toAfw') \in 1..Len(toAfw')
    BY <1>1, <1>3
  <2>2. toAfw' # <<>>
    <3>1. Len(toAfw') # 0
      BY <1>1, <1>3
    <3> QED
      BY <3>1, LongIsNotEmpty, Zenon
  <2>3. toAfw'[Len(toAfw')] = toAfw[Len(toAfw)]
    BY <1>1, <2>1
  <2> QED
    BY <2>2, <2>3 DEF LastAsked
<1> QED
  BY <1>2, <1>3

LEMMA GrantsAppend ==
  ASSUME TypeOK, GrantsAreRevoked,
         NEW event \in Events, fromAfw' = Append(fromAfw, event),
         nif' = "open" \/ event = "RELEASED" \/ (nif # "open" /\ event = "DENIED")
  PROVE  GrantsAreRevoked'
<1>1. /\ Len(fromAfw) \in Nat
      /\ Len(fromAfw') = Len(fromAfw) + 1
      /\ \A i \in 1..Len(fromAfw) : fromAfw'[i] = fromAfw[i]
      /\ fromAfw'[Len(fromAfw) + 1] = event
  BY AppendProperties DEF TypeOK
<1>2. CASE nif' = "open"
  BY <1>2 DEF GrantsAreRevoked
<1>3. CASE event = "RELEASED"
  BY <1>1, <1>3 DEF GrantsAreRevoked
<1>4. CASE nif # "open" /\ event = "DENIED"
  BY <1>1, <1>4 DEF GrantsAreRevoked
<1> QED
  BY <1>2, <1>3, <1>4

LEMMA GrantsTail ==
  ASSUME TypeOK, GrantsAreRevoked,
         fromAfw # <<>>, fromAfw' = Tail(fromAfw), nif' = nif
  PROVE  GrantsAreRevoked'
<1>1. /\ Len(fromAfw) \in Nat \ {0}
      /\ Len(fromAfw') = Len(fromAfw) - 1
      /\ \A i \in 1..Len(fromAfw') : fromAfw'[i] = fromAfw[i + 1]
  BY TailProperties DEF TypeOK
<1> SUFFICES ASSUME nif' # "open", NEW i \in 1..Len(fromAfw'), fromAfw'[i] = "GRANTED"
             PROVE  \E j \in (i + 1)..Len(fromAfw') : fromAfw'[j] = "RELEASED"
  BY DEF GrantsAreRevoked
<1>2. i + 1 \in 1..Len(fromAfw) /\ fromAfw[i + 1] = "GRANTED"
  BY <1>1
<1>3. PICK j \in (i + 2)..Len(fromAfw) : fromAfw[j] = "RELEASED"
  BY <1>1, <1>2 DEF GrantsAreRevoked
<1>4. j - 1 \in (i + 1)..Len(fromAfw') /\ fromAfw'[j - 1] = fromAfw[j]
  BY <1>1, <1>3
<1> QED
  BY <1>3, <1>4

-----------------------------------------------------------------------------
(* AnswerInv is inductive: one lemma per party that moves.                 *)

LEMMA InitAnswerInv == Init => AnswerInv
<1> SUFFICES ASSUME Init PROVE AnswerInv
  OBVIOUS
<1>1. GrantsAreRevoked
  BY DEF Init, GrantsAreRevoked
<1> QED
  BY <1>1, InitTypeOK
  DEF Init, AnswerInv, ReleasedIsEmpty, AnswerIsComing, LossIsTold, CloseIsTold, subscribers

\* A client subscribes: only the step out of Released says something to the
\* framework, and there the list has just gained its first, active, entry.
LEMMA SubscribeAnswerInv ==
  ASSUME AnswerInv, TypeOK', NEW c \in Clients, Subscribe(c)
  PROVE  AnswerInv'
<1>1. CASE SubscribeRefused(c) \/ SubscribeWaiting(c) \/ SubscribeAcquired(c)
  <2>1. UNCHANGED <<mType, state, toAfw, fromAfw, nif>>
    BY <1>1 DEF SubscribeRefused, SubscribeWaiting, SubscribeAcquired, Subscribes, vars
  <2>2. ReleasedIsEmpty'
    BY <1>1 DEF SubscribeRefused, SubscribeWaiting, SubscribeAcquired, Subscribes, vars,
                AnswerInv, ReleasedIsEmpty, subscribers
  <2> QED
    BY <2>1, <2>2 DEF AnswerInv, AnswerIsComing, LastAsked, Answers, GrantsAreRevoked,
                      LossIsTold, CloseIsTold
<1>2. CASE SubscribeReleased(c)
  <2>1. addSubscriber(c) # {}
    BY <1>2 DEF SubscribeReleased, AnswerInv, ReleasedIsEmpty, subscribers, addSubscriber
  <2>2. toAfw' = Append(toAfw, "REQUEST") /\ state' = "Pending"
    BY <1>2, <2>1 DEF SubscribeReleased, sendRsrcRequest
  <2>3. LastAsked("REQUEST")'
    BY <2>2, LastAskedAppend DEF AnswerInv, Requests
  <2>4. UNCHANGED <<mType, fromAfw, nif>>
    BY <1>2 DEF SubscribeReleased, Subscribes
  <2> QED
    BY <2>2, <2>3, <2>4 DEF AnswerInv, ReleasedIsEmpty, AnswerIsComing, GrantsAreRevoked,
                            LossIsTold, CloseIsTold
<1> QED
  BY <1>1, <1>2 DEF Subscribe

\* A Pending or Acquired machine whose connection is closed, and which has no
\* request on its way, has been sent the word that tells it so.
LEMMA HeldAndClosed ==
  ASSUME AnswerInv, state \in {"Pending", "Acquired"}, nif = "closed",
         \A i \in 1..Len(toAfw) : toAfw[i] # "REQUEST"
  PROVE  Answers({"RELEASED", "DENIED"})
<1>1. CASE state = "Acquired"
  BY <1>1 DEF AnswerInv, LossIsTold, Answers
<1>2. CASE state = "Pending"
  <2>1. ~LastAsked("REQUEST")
    <3>1. SUFFICES ASSUME LastAsked("REQUEST") PROVE FALSE
      OBVIOUS
    <3>2. Len(toAfw) \in 1..Len(toAfw)
      BY <3>1, TailProperties DEF LastAsked, AnswerInv, TypeOK
    <3> QED
      BY <3>1, <3>2 DEF LastAsked
  <2>2. Answers({"GRANTED"}) => Answers({"RELEASED"})
    BY DEF AnswerInv, TypeOK, GrantsAreRevoked, Answers
  <2> QED
    BY <1>2, <2>1, <2>2 DEF AnswerInv, AnswerIsComing, Answers
<1> QED
  BY <1>1, <1>2

\* A client unsubscribes: the last active one makes the machine release.
LEMMA UnsubscribeAnswerInv ==
  ASSUME AnswerInv, TypeOK', NEW c \in Clients, Unsubscribe(c)
  PROVE  AnswerInv'
<1>1. UNCHANGED <<mType, fromAfw, nif>>
  BY DEF Unsubscribe, UnsubscribeHeld, UnsubscribeReleasing, UnsubscribeUnlisted, Unsubscribes
<1>2. GrantsAreRevoked'
  BY <1>1 DEF AnswerInv, GrantsAreRevoked
<1>3. CASE state' = state /\ state # "Released" /\ toAfw' = toAfw
  BY <1>1, <1>2, <1>3 DEF AnswerInv, ReleasedIsEmpty, AnswerIsComing, LastAsked, Answers,
                          LossIsTold, CloseIsTold
<1>4. CASE state' = "Released" /\ subscribers' = {}
  BY <1>2, <1>4 DEF AnswerInv, ReleasedIsEmpty, AnswerIsComing, LossIsTold, CloseIsTold
<1>5. CASE /\ state \in {"Pending", "Acquired"}
           /\ state' = "Releasing"
           /\ toAfw' = Append(toAfw, "RELEASE")
  <2>1. LastAsked("RELEASE")'
    BY <1>5, LastAskedAppend DEF AnswerInv, Requests
  <2>2. CloseIsTold'
    <3>1. SUFFICES ASSUME nif = "closed", \A i \in 1..Len(toAfw') : toAfw'[i] # "REQUEST"
                   PROVE  Answers({"RELEASED", "DENIED"})
      BY <1>1 DEF CloseIsTold, Answers
    <3>2. \A i \in 1..Len(toAfw) : i \in 1..Len(toAfw') /\ toAfw'[i] = toAfw[i]
      BY <1>5, AppendProperties DEF AnswerInv, TypeOK, Requests
    <3> QED
      BY <1>5, <3>1, <3>2, HeldAndClosed
  <2> QED
    BY <1>2, <1>5, <2>1, <2>2 DEF AnswerInv, ReleasedIsEmpty, AnswerIsComing, LossIsTold
<1>6. CASE UnsubscribeHeld(c)
  BY <1>3, <1>4, <1>5, <1>6 DEF UnsubscribeHeld, sendRsrcRequest, subscribers
<1>7. CASE UnsubscribeReleasing(c)
  BY <1>3, <1>4, <1>7 DEF UnsubscribeReleasing, subscribers
<1>8. CASE UnsubscribeUnlisted(c)
  BY <1>1, <1>2, <1>8 DEF UnsubscribeUnlisted, AnswerInv, ReleasedIsEmpty, subscribers,
                          AnswerIsComing, LastAsked, Answers, LossIsTold, CloseIsTold
<1> QED
  BY <1>6, <1>7, <1>8 DEF Unsubscribe

\* The machine processes an event: one that it drops is never the only one
\* that could end its wait.
LEMMA EventAnswerInv ==
  ASSUME AnswerInv, TypeOK', OnRsrcEvent
  PROVE  AnswerInv'
<1> USE DEF AnswerInv
<1>1. /\ fromAfw # <<>>
      /\ fromAfw' = Tail(fromAfw)
      /\ UNCHANGED <<mType, nif>>
  BY DEF OnRsrcEvent, OnGranted, OnDenied, OnReleased, Takes
<1>2. GrantsAreRevoked'
  BY <1>1, GrantsTail
<1>3. ASSUME NEW e, DismissAll(e)
      PROVE  AnswerInv'
  BY <1>2, <1>3 DEF DismissAll, ReleasedIsEmpty, AnswerIsComing, LossIsTold, CloseIsTold,
                    subscribers
<1>4. CASE CloseComplete
  <2>1. CASE active = {}
    BY <1>2, <1>4, <2>1 DEF CloseComplete, ReleasedIsEmpty, AnswerIsComing, LossIsTold,
                            CloseIsTold, subscribers
  <2>2. CASE active # {}
    <3>1. toAfw' = Append(toAfw, "REQUEST") /\ state' = "Pending"
      BY <1>4, <2>2 DEF CloseComplete, sendRsrcRequest
    <3>2. LastAsked("REQUEST")'
      BY <3>1, LastAskedAppend DEF Requests
    <3> QED
      BY <1>2, <3>1, <3>2 DEF ReleasedIsEmpty, AnswerIsComing, LossIsTold, CloseIsTold
  <2> QED
    BY <2>1, <2>2
<1>5. CASE OnGranted /\ state = "Pending"
  <2>1. state' = "Acquired"
    BY <1>5 DEF OnGranted, Dropped
  <2>2. Head(fromAfw) = "GRANTED"
    BY <1>5 DEF OnGranted, Takes
  <2>3. ASSUME nif' # "open"
        PROVE  Answers({"RELEASED"})'
    <3>1. 1 \in 1..Len(fromAfw) /\ fromAfw[1] = "GRANTED"
      BY <1>1, <2>2, TailProperties DEF TypeOK
    <3>2. Answers({"RELEASED"})
      BY <1>1, <2>3, <3>1, TailProperties DEF TypeOK, GrantsAreRevoked, Answers
    <3> QED
      BY <1>1, <2>2, <3>2, AnswersTail
  <2> QED
    BY <1>2, <2>1, <2>3 DEF ReleasedIsEmpty, AnswerIsComing, LossIsTold, CloseIsTold
<1>6. CASE OnGranted /\ Dropped
  <2>1. Head(fromAfw) = "GRANTED" /\ state # "Pending"
    BY <1>6 DEF OnGranted, Takes, Dropped
  <2>2. \A S \in {{"RELEASED"}, {"RELEASED", "DENIED"}} : Answers(S) => Answers(S)'
    BY <1>1, <2>1, AnswersTail
  <2> QED
    BY <1>1, <1>2, <1>6, <2>1, <2>2
    DEF Dropped, ReleasedIsEmpty, subscribers, AnswerIsComing, LastAsked, LossIsTold, CloseIsTold
<1>7. CASE OnDenied /\ Dropped
  <2>1. Head(fromAfw) = "DENIED" /\ state \notin {"Pending", "Releasing"}
    BY <1>7 DEF OnDenied, Takes, Dropped, DismissAll, CloseComplete
  <2>2. Answers({"RELEASED"}) => Answers({"RELEASED"})'
    BY <1>1, <2>1, AnswersTail
  <2> QED
    BY <1>1, <1>2, <1>7, <2>1, <2>2
    DEF Dropped, ReleasedIsEmpty, subscribers, AnswerIsComing, LossIsTold, CloseIsTold
<1>8. CASE OnReleased /\ Dropped
  <2>1. /\ Head(fromAfw) = "RELEASED"
        /\ state \notin {"Acquired", "Releasing"}
        /\ state = "Pending" => mType # "INVALID"
    BY <1>8 DEF OnReleased, Takes, Dropped, DismissAll, CloseComplete
  <2>2. \A S \in {{"GRANTED"}, {"DENIED"}} : Answers(S) => Answers(S)'
    BY <1>1, <2>1, AnswersTail
  <2> QED
    BY <1>1, <1>2, <1>8, <2>1, <2>2
    DEF Dropped, ReleasedIsEmpty, subscribers, AnswerIsComing, LastAsked, LossIsTold, CloseIsTold
<1> QED
  BY <1>3, <1>4, <1>5, <1>6, <1>7, <1>8 DEF OnRsrcEvent, OnGranted, OnDenied, OnReleased

\* The framework takes a call off its queue.
LEMMA CallAnswerInv ==
  ASSUME AnswerInv, TypeOK', AfwRequest \/ AfwRelease
  PROVE  AnswerInv'
<1> USE DEF AnswerInv
<1>1. UNCHANGED <<mType, state, active, inactive>> /\ toAfw # <<>> /\ toAfw' = Tail(toAfw)
  BY DEF AfwRequest, AfwRelease
<1>2. ReleasedIsEmpty'
  BY <1>1 DEF ReleasedIsEmpty, subscribers
<1>3. CASE AfwRequest
  <2>1. nif' # "closed" /\ (nif' # "open" => nif # "open" /\ fromAfw' = fromAfw)
    BY <1>3 DEF AfwRequest, TypeOK, NifStates
  <2>2. nif' = "open" => Answers({"GRANTED"})'
    BY <1>3, AnswersAppend DEF AfwRequest, Events
  <2>3. nif' \in {"opening", "open"}
    BY <2>1 DEF TypeOK, NifStates
  <2>4. AnswerIsComing'
    <3>1. CASE state = "Pending"
      BY <1>1, <1>3, <2>2, <2>3, <3>1, LastAskedTail DEF AnswerIsComing
    <3>2. CASE state = "Releasing"
      BY <1>1, <1>3, <3>2, LastAskedTail DEF AnswerIsComing, AfwRequest
    <3> QED
      BY <1>1, <3>1, <3>2 DEF AnswerIsComing
  <2> QED
    BY <1>1, <1>2, <2>1, <2>4 DEF GrantsAreRevoked, LossIsTold, CloseIsTold, Answers
<1>4. CASE AfwRelease
  <2>1. /\ Head(toAfw) = "RELEASE"
        /\ nif' = "closed"
        /\ nif = "closed" => fromAfw' = fromAfw
        /\ nif # "closed" => fromAfw' = Append(fromAfw, "RELEASED")
    BY <1>4 DEF AfwRelease
  <2>2. nif # "closed" => Answers({"RELEASED"})' /\ Answers({"RELEASED", "DENIED"})'
    BY <2>1, AnswersAppend DEF Events
  <2>3. GrantsAreRevoked'
    <3>1. CASE nif = "closed"
      BY <2>1, <3>1 DEF GrantsAreRevoked
    <3>2. CASE nif # "closed"
      BY <2>1, <3>2, GrantsAppend DEF Events
    <3> QED
      BY <3>1, <3>2
  <2>4. LossIsTold'
    BY <1>1, <2>1, <2>2 DEF LossIsTold, Answers
  <2>5. (\A i \in 1..Len(toAfw') : toAfw'[i] # "REQUEST")
          => (\A i \in 1..Len(toAfw) : toAfw[i] # "REQUEST")
    <3>1. SUFFICES ASSUME \A i \in 1..Len(toAfw') : toAfw'[i] # "REQUEST",
                          NEW i \in 1..Len(toAfw), i # 1
                   PROVE  toAfw[i] # "REQUEST"
      BY <1>1, <2>1, TailProperties DEF TypeOK
    <3>2. i - 1 \in 1..Len(toAfw') /\ toAfw'[i - 1] = toAfw[i]
      BY <1>1, <3>1, TailProperties DEF TypeOK
    <3> QED
      BY <3>1, <3>2
  <2>6. CloseIsTold'
    BY <1>1, <2>1, <2>2, <2>5 DEF CloseIsTold, Answers
  <2>7. AnswerIsComing'
    <3>1. CASE state = "Pending"
      BY <1>1, <2>1, <3>1, LastAskedTail DEF AnswerIsComing
    <3>2. CASE state = "Releasing"
      <4>1. LastAsked("RELEASE")' \/ toAfw' = <<>>
        BY <1>1, <3>2, LastAskedTail DEF AnswerIsComing
      <4>2. toAfw' = <<>> => \A i \in 1..Len(toAfw') : toAfw'[i] # "REQUEST"
        OBVIOUS
      <4> QED
        BY <1>1, <2>1, <2>6, <3>2, <4>1, <4>2 DEF AnswerIsComing, CloseIsTold
    <3> QED
      BY <1>1, <3>1, <3>2 DEF AnswerIsComing
  <2> QED
    BY <1>2, <2>3, <2>4, <2>6, <2>7
<1> QED
  BY <1>3, <1>4

\* The connection changes and the framework reports it.
LEMMA ReportAnswerInv ==
  ASSUME AnswerInv, TypeOK', AfwOpened \/ AfwFailed \/ AfwLost
  PROVE  AnswerInv'
<1> USE DEF AnswerInv
<1>1. PICK event \in Events :
        /\ fromAfw' = Append(fromAfw, event)
        /\ UNCHANGED <<mType, state, active, inactive, toAfw>>
        /\ \/ nif = "opening" /\ nif' = "open" /\ event = "GRANTED"
           \/ /\ nif = "opening" /\ nif' = "closed"
              /\ event = IF mType = "INVALID" THEN "RELEASED" ELSE "DENIED"
           \/ nif = "open" /\ nif' = "closed" /\ event = "RELEASED"
  BY DEF AfwOpened, AfwFailed, AfwLost, AfwReports, Events
<1>2. ReleasedIsEmpty'
  BY <1>1 DEF ReleasedIsEmpty, subscribers
<1>3. GrantsAreRevoked'
  BY <1>1, GrantsAppend
<1>4. \A S \in SUBSET Events : Answers(S) \/ event \in S => Answers(S)'
  BY <1>1, AnswersAppend
<1>5. LossIsTold'
  BY <1>1, <1>4 DEF LossIsTold, Events
<1>6. CloseIsTold'
  BY <1>1, <1>4 DEF CloseIsTold, Events
<1>7. AnswerIsComing'
  <2>1. CASE state = "Pending"
    BY <1>1, <1>4, <2>1 DEF AnswerIsComing, Events, LastAsked
  <2>2. CASE state = "Releasing"
    BY <1>1, <1>4, <2>2 DEF AnswerIsComing, Events, LastAsked
  <2> QED
    BY <1>1, <2>1, <2>2 DEF AnswerIsComing
<1> QED
  BY <1>2, <1>3, <1>5, <1>6, <1>7

LEMMA NextAnswerInv == AnswerInv /\ [Next]_vars => AnswerInv'
<1> SUFFICES ASSUME AnswerInv, [Next]_vars
             PROVE  AnswerInv'
  OBVIOUS
<1>1. TypeOK'
  BY NextTypeOK DEF AnswerInv
<1>2. ASSUME NEW c \in Clients, Subscribe(c) \/ Unsubscribe(c)
      PROVE  AnswerInv'
  BY <1>1, <1>2, SubscribeAnswerInv, UnsubscribeAnswerInv
<1>3. CASE OnRsrcEvent
  BY <1>1, <1>3, EventAnswerInv
<1>4. CASE EngineUp
  BY <1>1, <1>4
  DEF EngineUp, AnswerInv, ReleasedIsEmpty, subscribers, AnswerIsComing, LastAsked, Answers,
      GrantsAreRevoked, LossIsTold, CloseIsTold
<1>5. CASE AfwRequest \/ AfwRelease
  BY <1>1, <1>5, CallAnswerInv
<1>6. CASE AfwOpened \/ AfwFailed \/ AfwLost
  BY <1>1, <1>6, ReportAnswerInv
<1>7. CASE UNCHANGED vars \/ AfwOpenedUnnamed
  BY <1>1, <1>7
  DEF vars, AfwOpenedUnnamed, AnswerInv, ReleasedIsEmpty, subscribers, AnswerIsComing,
      LastAsked, Answers,
      GrantsAreRevoked, LossIsTold, CloseIsTold
<1> QED
  BY <1>2, <1>3, <1>4, <1>5, <1>6, <1>7 DEF Next

LEMMA AnswerInvHolds == Spec => []AnswerInv
BY InitAnswerInv, NextAnswerInv, PTL DEF Spec

\* The list of a machine in the Released state is empty, the assumption that
\* AgpsReleasedState::onRsrcEvent checks and cannot recover from.
THEOREM ReleasedHasNobody == Spec => []ReleasedIsEmpty
<1>1. AnswerInv => ReleasedIsEmpty
  BY DEF AnswerInv
<1> QED
  BY <1>1, AnswerInvHolds, PTL

\* Pending and Releasing, which have no timeout, are never entered or kept
\* without the word that ends them being under way, however many stale calls and
\* answers the two queues hold.
THEOREM AnswerAlwaysComes == Spec => []AnswerIsComing
<1>1. AnswerInv => AnswerIsComing
  BY DEF AnswerInv
<1> QED
  BY <1>1, AnswerInvHolds, PTL

-----------------------------------------------------------------------------
(***************************************************************************)
(* What the clients of one AgpsStateMachine are told is true of it.        *)
(***************************************************************************)

\* A machine lists only clients it serves, a single one on wifi_nif, and none is
\* inactive but those who wait for the close.
ListIsServed ==
  /\ \A c \in subscribers : Serves(c)
  /\ mType = "WIFI" => \A c, d \in subscribers : c = d
  /\ inactive \subseteq WaitsForClose

ToldInv ==
  /\ TypeOK
  /\ ReleasedIsEmpty
  /\ ListIsServed
  /\ HeldForSomeone
  /\ ToldIsTrue

LEMMA InitToldInv == Init => ToldInv
BY InitTypeOK, ClientsAssumption
DEF Init, ToldInv, TypeOK, Types, ReleasedIsEmpty, subscribers, ListIsServed, Serves,
    HeldForSomeone, ToldIsTrue, Abandoned

\* Nobody waits for a close on SUPL, and nobody leaves at once on INVALID.
LEMMA ListShape ==
  ASSUME TypeOK, ListIsServed
  PROVE  /\ mType = "SUPL" => inactive = {}
         /\ mType = "INVALID" => subscribers \subseteq WaitsForClose \cap ModemClients
         /\ mType = "WIFI" => subscribers \cap ModemClients = {}
BY DEF TypeOK, ListIsServed, Serves, subscribers

\* The two ways a subscriber closes.  The one that leaves at once takes others along
\* on SUPL only, where none is inactive.
LEMMA CloseCases ==
  ASSUME ToldInv, NEW c \in subscribers, CloseSubscriber(c)
  PROVE  \/ /\ c \in WaitsForClose /\ mType # "SUPL"
            /\ active' = active \ {c}
            /\ inactive' = inactive \cup {c}
            /\ view' = Tell({c}, IF mType = "INVALID" THEN "idle" ELSE "closing")
         \/ \E gone \in SUBSET subscribers :
              /\ c \in gone
              /\ mType # "INVALID"
              /\ mType = "WIFI" => active' = {} /\ inactive' = {}
              /\ active' = active \ gone
              /\ inactive' = inactive \ gone
              /\ view' = Tell(gone, "idle")
<1>1. CASE c \in WaitsForClose
  BY <1>1 DEF CloseSubscriber, ToldInv, ListIsServed, Serves
<1>2. CASE c \notin WaitsForClose
  <2>1. PICK others \in SUBSET (subscribers \ {c}) :
          /\ active' = active \ ({c} \cup others)
          /\ inactive' = inactive \ ({c} \cup others)
          /\ view' = Tell({c} \cup others, "idle")
    BY <1>2 DEF CloseSubscriber, AlsoMatched
  <2>2. mType # "INVALID"
    BY <1>2, ListShape DEF ToldInv
  <2>3. mType = "WIFI" => subscribers = {c}
    BY DEF ToldInv, ListIsServed
  <2> QED
    BY <2>1, <2>2, <2>3 DEF subscribers
<1> QED
  BY <1>1, <1>2

LEMMA SubscribeToldInv ==
  ASSUME ToldInv, TypeOK', ReleasedIsEmpty',
         NEW c \in Clients, Subscribe(c)
  PROVE  ToldInv'
<1> USE DEF ToldInv
<1>1. CASE SubscribeRefused(c)
  BY <1>1 DEF SubscribeRefused, vars, ListIsServed, Serves, subscribers, HeldForSomeone,
              ToldIsTrue, Abandoned
<1>2. CASE Subscribes(c)
  <2>1. /\ Serves(c)
        /\ view[c] \in {"idle", "closing"}
        /\ mType = "WIFI" => subscribers = {}
        /\ active' = addSubscriber(c)
        /\ UNCHANGED <<mType, inactive>>
    BY <1>2 DEF Subscribes, Asks, EnforceSingleSubscriber
  <2>2. /\ c \in inactive => mType = "INVALID" /\ active' = active
        /\ c \notin inactive => active' = active \cup {c}
    BY <2>1, ListShape DEF addSubscriber, TypeOK, Types, subscribers
  <2>3. ListIsServed'
    BY <2>1, <2>2 DEF ListIsServed, Serves, subscribers
  <2>4. CASE state = "Acquired" /\ state' = "Acquired" /\ view' = Tell({c}, "granted")
    <3>1. ToldIsTrue'
      BY <2>1, <2>2, <2>4 DEF ToldIsTrue, Abandoned, Tell, TypeOK, subscribers
    <3> QED
      BY <2>1, <2>2, <2>3, <2>4, <3>1 DEF HeldForSomeone
  <2>5. CASE /\ state \in {"Pending", "Releasing"}
             /\ state' = state
             /\ view' = Tell({c}, "asking")
    <3>1. ToldIsTrue'
      BY <2>1, <2>2, <2>5 DEF ToldIsTrue, Abandoned, Tell, TypeOK, subscribers
    <3> QED
      BY <2>1, <2>2, <2>3, <2>5, <3>1 DEF HeldForSomeone
  <2>6. CASE state = "Released" /\ state' = "Pending" /\ view' = Tell({c}, "asking")
    <3>1. active = {} /\ inactive = {}
      BY <2>6 DEF ReleasedIsEmpty, subscribers
    <3>2. ToldIsTrue'
      BY <2>1, <2>2, <2>6, <3>1 DEF ToldIsTrue, Abandoned, Tell, TypeOK, subscribers
    <3> QED
      BY <2>1, <2>2, <2>3, <2>6, <3>1, <3>2 DEF HeldForSomeone
  <2> QED
    BY <1>1, <1>2, <2>4, <2>5, <2>6
    DEF Subscribe, SubscribeReleased, SubscribeWaiting, SubscribeAcquired
<1> QED
  BY <1>1, <1>2 DEF Subscribe, SubscribeReleased, SubscribeWaiting, SubscribeAcquired

LEMMA UnsubscribeToldInv ==
  ASSUME ToldInv, TypeOK', ReleasedIsEmpty',
         NEW c \in Clients, Unsubscribe(c)
  PROVE  ToldInv'
<1> USE DEF ToldInv
<1>1. CASE UnsubscribeUnlisted(c)
  BY <1>1 DEF UnsubscribeUnlisted, ListIsServed, Serves, subscribers, HeldForSomeone,
              ToldIsTrue, Abandoned, Tell, TypeOK
<1> SUFFICES ASSUME UnsubscribeHeld(c) \/ UnsubscribeReleasing(c)
             PROVE  ToldInv'
  BY <1>1 DEF Unsubscribe
<1>2. c \in subscribers /\ CloseSubscriber(c) /\ mType' = mType
  BY DEF UnsubscribeHeld, UnsubscribeReleasing, Unsubscribes
<1>3. state = "Releasing" =>
        \/ active' \cup inactive' # {} /\ state' = "Releasing"
        \/ active' \cup inactive' = {} /\ state' = "Released"
  BY DEF UnsubscribeHeld, UnsubscribeReleasing
<1>4. state \in {"Pending", "Acquired"} =>
        \/ active' # {} /\ state' = state
        \/ active' = {} /\ inactive' # {} /\ state' = "Releasing"
        \/ active' = {} /\ inactive' = {} /\ state' = "Released"
  BY DEF UnsubscribeHeld, UnsubscribeReleasing
<1>5. state \in {"Pending", "Acquired", "Releasing"}
  BY DEF UnsubscribeHeld, UnsubscribeReleasing
<1>6. CASE /\ c \in WaitsForClose /\ mType # "SUPL"
           /\ active' = active \ {c}
           /\ inactive' = inactive \cup {c}
           /\ view' = Tell({c}, IF mType = "INVALID" THEN "idle" ELSE "closing")
  <2>1. ListIsServed'
    BY <1>2, <1>6 DEF ListIsServed, Serves, subscribers
  <2>2. HeldForSomeone'
    BY <1>2, <1>3, <1>4, <1>5, <1>6 DEF HeldForSomeone
  <2>3. ToldIsTrue'
    BY <1>2, <1>3, <1>4, <1>5, <1>6 DEF ToldIsTrue, Abandoned, Tell, TypeOK, subscribers
  <2> QED
    BY <2>1, <2>2, <2>3
<1>7. ASSUME NEW gone \in SUBSET subscribers,
             c \in gone,
             mType # "INVALID",
             mType = "WIFI" => active' = {} /\ inactive' = {},
             active' = active \ gone,
             inactive' = inactive \ gone,
             view' = Tell(gone, "idle")
      PROVE  ToldInv'
  <2>1. ListIsServed'
    BY <1>2, <1>7 DEF ListIsServed, Serves, subscribers
  <2>2. HeldForSomeone'
    BY <1>2, <1>3, <1>4, <1>5, <1>7 DEF HeldForSomeone, TypeOK, Types
  <2>3. ToldIsTrue'
    BY <1>2, <1>3, <1>4, <1>5, <1>7 DEF ToldIsTrue, Abandoned, Tell, TypeOK, subscribers
  <2> QED
    BY <2>1, <2>2, <2>3
<1> QED
  BY <1>2, <1>6, <1>7, CloseCases

LEMMA EventToldInv ==
  ASSUME ToldInv, TypeOK', ReleasedIsEmpty', OnRsrcEvent
  PROVE  ToldInv'
<1> USE DEF ToldInv
<1>1. mType' = mType
  BY DEF OnRsrcEvent, OnGranted, OnDenied, OnReleased, Takes
<1>2. CASE Dropped
  BY <1>1, <1>2 DEF Dropped, ListIsServed, Serves, subscribers, HeldForSomeone, ToldIsTrue,
                    Abandoned
<1>3. ASSUME NEW event, DismissAll(event)
      PROVE  ToldInv'
  <2>1. state' = "Released" /\ active' = {} /\ inactive' = {}
    BY <1>3 DEF DismissAll
  <2>2. ToldIsTrue'
    <3>1. CASE mType # "INVALID"
      BY <1>1, <1>3, <2>1, <3>1
      DEF DismissAll, LastWords, ToldIsTrue, Abandoned, Tell, subscribers, TypeOK
    <3>2. CASE mType = "INVALID" /\ event = "DENIED"
      BY <1>1, <1>3, <2>1, <3>2
      DEF DismissAll, LastWords, ToldIsTrue, Abandoned, Tell, subscribers, TypeOK
    <3>3. CASE mType = "INVALID" /\ event # "DENIED"
      BY <1>1, <1>3, <2>1, <3>3
      DEF DismissAll, LastWords, Drop, ToldIsTrue, Abandoned, Tell, subscribers, TypeOK
    <3> QED
      BY <3>1, <3>2, <3>3
  <2> QED
    BY <1>1, <2>1, <2>2 DEF ListIsServed, subscribers, HeldForSomeone
<1>4. CASE CloseComplete /\ state = "Releasing"
  <2>1. /\ inactive' = {} /\ active' = active
        /\ state' = IF active # {} THEN "Pending" ELSE "Released"
    BY <1>4 DEF CloseComplete
  <2>2. ToldIsTrue'
    <3>1. CASE mType # "INVALID"
      BY <1>1, <1>4, <2>1, <3>1
      DEF CloseComplete, LastWords, ToldIsTrue, Abandoned, Tell, subscribers, TypeOK
    <3>2. CASE mType = "INVALID"
      BY <1>1, <1>4, <2>1, <3>2
      DEF CloseComplete, LastWords, Drop, ToldIsTrue, Abandoned, Tell, subscribers, TypeOK
    <3> QED
      BY <3>1, <3>2
  <2> QED
    BY <1>1, <2>1, <2>2 DEF ListIsServed, Serves, subscribers, HeldForSomeone
<1>5. CASE OnGranted /\ state = "Pending"
  <2>1. /\ state' = "Acquired" /\ view' = Tell(Heeding(active), "granted")
        /\ UNCHANGED <<active, inactive>>
    BY <1>5 DEF OnGranted, Dropped
  <2>2. ToldIsTrue'
    BY <1>1, <1>5, <2>1 DEF ToldIsTrue, Abandoned, Tell, Heeding, subscribers, TypeOK
  <2> QED
    BY <1>1, <1>5, <2>1, <2>2 DEF ListIsServed, Serves, subscribers, HeldForSomeone
<1> QED
  BY <1>2, <1>3, <1>4, <1>5 DEF OnRsrcEvent, OnGranted, OnDenied, OnReleased

LEMMA EngineUpToldInv ==
  ASSUME ToldInv, TypeOK', ReleasedIsEmpty', EngineUp
  PROVE  ToldInv'
<1> USE DEF ToldInv
<1>1. UNCHANGED <<mType, state>>
  BY DEF EngineUp
<1>2. CASE mType = "SUPL"
  <2>1. /\ active' = {} /\ inactive' = {} /\ inactive = {}
        /\ view' = [c \in Clients |->
                      IF c \in ModemClients THEN "idle" ELSE Drop(subscribers)[c]]
    BY <1>2, ListShape DEF EngineUp, subscribers
  <2>2. ToldIsTrue'
    BY <1>1, <1>2, <2>1 DEF ToldIsTrue, Abandoned, Drop, Tell, subscribers, TypeOK
  <2> QED
    BY <1>1, <1>2, <2>1, <2>2 DEF ListIsServed, subscribers, HeldForSomeone
<1>3. CASE mType # "SUPL"
  <2>1. /\ active' = active /\ inactive' = inactive
        /\ \A c \in Clients : view'[c] = IF c \in ModemClients THEN "idle" ELSE view[c]
    BY <1>3 DEF EngineUp, Drop, Tell
  <2>2. ToldIsTrue'
    BY <1>1, <1>3, <2>1, ListShape DEF ToldIsTrue, Abandoned, subscribers, TypeOK, Types
  <2> QED
    BY <1>1, <1>3, <2>1, <2>2 DEF ListIsServed, Serves, subscribers, HeldForSomeone
<1> QED
  BY <1>2, <1>3

LEMMA NextToldInv ==
  ASSUME ToldInv, ReleasedIsEmpty', [Next]_vars
  PROVE  ToldInv'
<1>1. TypeOK'
  BY NextTypeOK DEF ToldInv
<1>2. ASSUME NEW c \in Clients, Subscribe(c) \/ Unsubscribe(c)
      PROVE  ToldInv'
  BY <1>1, <1>2, SubscribeToldInv, UnsubscribeToldInv
<1>3. CASE OnRsrcEvent
  BY <1>1, <1>3, EventToldInv
<1>4. CASE EngineUp
  BY <1>1, <1>4, EngineUpToldInv
<1>5. CASE UNCHANGED <<mType, state, active, inactive, view>>
  BY <1>1, <1>5 DEF ToldInv, ListIsServed, Serves, subscribers, HeldForSomeone, ToldIsTrue,
                    Abandoned
<1>6. CASE AfwRequest \/ AfwRelease
  BY <1>5, <1>6 DEF AfwRequest, AfwRelease
<1>7. CASE AfwOpened \/ AfwFailed \/ AfwLost
  BY <1>5, <1>7 DEF AfwOpened, AfwFailed, AfwLost, AfwReports
<1>8. CASE UNCHANGED vars \/ AfwOpenedUnnamed
  BY <1>5, <1>8 DEF vars, AfwOpenedUnnamed
<1> QED
  BY <1>2, <1>3, <1>4, <1>6, <1>7, <1>8 DEF Next

LEMMA ToldInvHolds == Spec => []ToldInv
<1>1. ToldInv /\ ReleasedIsEmpty' /\ [Next]_vars => ToldInv'
  BY NextToldInv
<1> QED
  BY <1>1, InitToldInv, ReleasedHasNobody, PTL DEF Spec

\* What each client was told by notifyRsrcStatus agrees with mSubscribers and with the
\* state of the machine, for each kind of interface, through modem restarts and
\* whatever freed receivers are taken for.
THEOREM ToldIsAlwaysTrue == Spec => []ToldIsTrue
<1>1. ToldInv => ToldIsTrue
  BY DEF ToldInv
<1> QED
  BY <1>1, ToldInvHolds, PTL

\* Except where engine-up emptied the list, a machine that asks for or holds the
\* interface does so for an active subscriber, and one that closes it has somebody
\* waiting for the close.
THEOREM AlwaysHeldForSomeone == Spec => []HeldForSomeone
<1>1. ToldInv => HeldForSomeone
  BY DEF ToldInv
<1> QED
  BY <1>1, ToldInvHolds, PTL

-----------------------------------------------------------------------------
(* Refinement: every step of the machine is a step of the lease or changes *)
(* nothing that the clients on its list were told.                         *)

Held    == IF state = "Acquired" THEN "held" ELSE "free"
Waiting == {c \in active : view[c] = "asking"}
Holders == {c \in active : view[c] = "granted"}

LEMMA InitLease == Init => Lease!Init
BY DEF Init, Lease!Init

\* Nobody waits for the interface while it is held, and nobody holds it otherwise.
LEMMA GroupsOfState ==
  ASSUME ToldInv
  PROVE  /\ state = "Acquired" => Waiting = {}
         /\ state # "Acquired" => Holders = {}
         /\ state = "Released" => active = {}
BY DEF ToldInv, ToldIsTrue, TypeOK, ReleasedIsEmpty, subscribers, Waiting, Holders

LEMMA LeaseStutters ==
  ASSUME UNCHANGED <<Held, Waiting, Holders>>
  PROVE  UNCHANGED Lease!vars
BY DEF Lease!vars, Held, Waiting, Holders

\* Some leave, and the lease goes on.
LEMMA LeaseLeave ==
  ASSUME Held' = Held, NEW S, Waiting' = Waiting \ S, Holders' = Holders \ S
  PROVE  [Lease!Next]_(Lease!vars)
<1>1. PICK gone : gone = S \cap (Waiting \cup Holders)
  OBVIOUS
<1>2. gone \in SUBSET (Waiting \cup Holders)
  BY <1>1
<1>3. Waiting' = Waiting \ gone /\ Holders' = Holders \ gone
  BY <1>1
<1>4. CASE gone = {}
  BY <1>3, <1>4, LeaseStutters
<1>5. CASE gone # {}
  <2>1. Lease!Leave(gone)
    BY <1>3, <1>5 DEF Lease!Leave, Held, Waiting, Holders
  <2> QED
    BY <1>2, <2>1 DEF Lease!Next, Waiting, Holders
<1> QED
  BY <1>4, <1>5

\* An Acquired machine loses the interface and its last active subscriber.
LEMMA LeaseEnd ==
  ASSUME ToldInv, state = "Acquired", state' # "Acquired", active' = {}
  PROVE  [Lease!Next]_(Lease!vars)
<1>1. Waiting = {} /\ Waiting' = {} /\ Holders' = {}
  BY GroupsOfState DEF Waiting, Holders
<1>2. Lease!End
  BY <1>1 DEF Lease!End, Waiting, Holders
<1> QED
  BY <1>2 DEF Lease!Next

LEMMA SubscribeLease ==
  ASSUME ToldInv, NEW c \in Clients, Subscribe(c)
  PROVE  [Lease!Next]_(Lease!vars)
<1> USE DEF ToldInv
<1>1. CASE SubscribeRefused(c)
  BY <1>1, LeaseStutters DEF SubscribeRefused, vars, Held, Waiting, Holders
<1>2. CASE SubscribeReleased(c) \/ SubscribeWaiting(c) \/ SubscribeAcquired(c)
  <2>1. /\ view[c] \in {"idle", "closing"}
        /\ active' = addSubscriber(c)
    BY <1>2 DEF SubscribeReleased, SubscribeWaiting, SubscribeAcquired, Subscribes, Asks
  <2>2. c \notin Waiting /\ c \notin Holders
    BY <2>1 DEF Waiting, Holders
  <2>3. PICK word \in {"asking", "granted"} :
          /\ view' = Tell({c}, word)
          /\ word = "granted" => state = "Acquired" /\ state' = "Acquired"
          /\ word = "asking" => state # "Acquired" /\ state' # "Acquired"
    BY <1>2 DEF SubscribeReleased, SubscribeWaiting, SubscribeAcquired
  <2>4. CASE c \in inactive
    <3>1. active' = active /\ c \notin active
      BY <2>1, <2>4 DEF addSubscriber, TypeOK
    <3>2. UNCHANGED <<Held, Waiting, Holders>>
      BY <2>3, <3>1 DEF Held, Waiting, Holders, Tell, TypeOK
    <3> QED
      BY <3>2, LeaseStutters
  <2>5. CASE c \notin inactive
    <3>1. active' = active \cup {c}
      BY <2>1, <2>5 DEF addSubscriber
    <3>2. CASE word = "asking"
      <4>1. Held = "free" /\ Held' = "free"
        BY <2>3, <3>2 DEF Held
      <4>2. Waiting' = Waiting \cup {c} /\ Holders' = Holders
        BY <2>2, <2>3, <3>1, <3>2 DEF Waiting, Holders, Tell, TypeOK
      <4>3. Lease!Ask(c)
        BY <2>2, <4>1, <4>2 DEF Lease!Ask, Held, Waiting, Holders
      <4> QED
        BY <4>3 DEF Lease!Next
    <3>3. CASE word = "granted"
      <4>1. Held = "held" /\ Held' = "held"
        BY <2>3, <3>3 DEF Held
      <4>2. Waiting' = Waiting /\ Holders' = Holders \cup {c}
        BY <2>2, <2>3, <3>1, <3>3 DEF Waiting, Holders, Tell, TypeOK
      <4>3. Lease!Join(c)
        BY <2>2, <4>1, <4>2 DEF Lease!Join, Held, Waiting, Holders
      <4> QED
        BY <4>3 DEF Lease!Next
    <3> QED
      BY <3>2, <3>3
  <2> QED
    BY <2>4, <2>5
<1> QED
  BY <1>1, <1>2 DEF Subscribe

LEMMA UnsubscribeLease ==
  ASSUME ToldInv, NEW c \in Clients, Unsubscribe(c)
  PROVE  [Lease!Next]_(Lease!vars)
<1> USE DEF ToldInv
<1>1. CASE UnsubscribeUnlisted(c)
  <2>1. UNCHANGED <<Held, Waiting, Holders>>
    BY <1>1 DEF UnsubscribeUnlisted, subscribers, Held, Waiting, Holders, Tell, TypeOK
  <2> QED
    BY <2>1, LeaseStutters
<1> SUFFICES ASSUME UnsubscribeHeld(c) \/ UnsubscribeReleasing(c)
             PROVE  [Lease!Next]_(Lease!vars)
  BY <1>1 DEF Unsubscribe
<1>2. c \in subscribers /\ CloseSubscriber(c)
  BY DEF UnsubscribeHeld, UnsubscribeReleasing, Unsubscribes
<1>3. PICK gone : active' = active \ gone
                  /\ \E word \in {"idle", "closing"} : view' = Tell(gone, word)
  BY <1>2, CloseCases
<1>4. Waiting' = Waiting \ gone /\ Holders' = Holders \ gone
  BY <1>3 DEF Waiting, Holders, Tell, TypeOK
<1>5. state = "Acquired" /\ state' # "Acquired" => active' = {}
  BY DEF UnsubscribeHeld, UnsubscribeReleasing
<1>6. state # "Acquired" => state' # "Acquired"
  BY DEF UnsubscribeHeld, UnsubscribeReleasing
<1>7. CASE Held' = Held
  BY <1>4, <1>7, LeaseLeave
<1>8. CASE state = "Acquired" /\ state' # "Acquired"
  BY <1>5, <1>8, LeaseEnd
<1> QED
  BY <1>6, <1>7, <1>8 DEF Held

LEMMA EventLease ==
  ASSUME ToldInv, OnRsrcEvent
  PROVE  [Lease!Next]_(Lease!vars)
<1> USE DEF ToldInv
<1>1. CASE Dropped
  BY <1>1, LeaseStutters DEF Dropped, Held, Waiting, Holders
<1>2. ASSUME NEW event, DismissAll(event)
      PROVE  [Lease!Next]_(Lease!vars)
  <2>1. state' = "Released" /\ active' = {}
    BY <1>2 DEF DismissAll
  <2>2. CASE state = "Acquired"
    BY <2>1, <2>2, LeaseEnd
  <2>3. CASE state # "Acquired"
    <3>1. Held' = Held
      BY <2>1, <2>3 DEF Held
    <3>2. Waiting' = Waiting \ active /\ Holders' = Holders \ active
      BY <2>1 DEF Waiting, Holders
    <3> QED
      BY <3>1, <3>2, LeaseLeave
  <2> QED
    BY <2>2, <2>3
<1>3. CASE CloseComplete /\ state = "Releasing"
  <2>1. active' = active /\ state' # "Acquired"
    BY <1>3 DEF CloseComplete
  <2>2. \A c \in active : view'[c] = view[c]
    BY <1>3 DEF CloseComplete, LastWords, Drop, Tell, TypeOK
  <2>3. UNCHANGED <<Held, Waiting, Holders>>
    BY <1>3, <2>1, <2>2 DEF Held, Waiting, Holders
  <2> QED
    BY <2>3, LeaseStutters
<1>4. CASE OnGranted /\ state = "Pending"
  <2>1. /\ state' = "Acquired" /\ active' = active
        /\ view' = Tell(Heeding(active), "granted")
    BY <1>4 DEF OnGranted, Dropped
  <2>2. Waiting' = {} /\ Holders' = Waiting
    BY <1>4, <2>1 DEF Waiting, Holders, Tell, Heeding, ToldIsTrue, TypeOK
  <2>3. Held = "free" /\ Held' = "held"
    BY <1>4, <2>1 DEF Held
  <2>4. Lease!GrantAll
    BY <2>2, <2>3 DEF Lease!GrantAll, Held, Waiting, Holders
  <2> QED
    BY <2>4 DEF Lease!Next
<1> QED
  BY <1>1, <1>2, <1>3, <1>4 DEF OnRsrcEvent, OnGranted, OnDenied, OnReleased

\* Where engine-up empties the list, and where the modem forgets all that is listed,
\* everyone leaves; on wifi_nif nobody does.
LEMMA EngineUpLease ==
  ASSUME ToldInv, EngineUp
  PROVE  [Lease!Next]_(Lease!vars)
<1> USE DEF ToldInv
<1>1. Held' = Held
  BY DEF EngineUp, Held
<1>2. CASE mType = "SUPL"
  <2>1. active' = {}
    BY <1>2 DEF EngineUp, subscribers
  <2>2. Waiting' = Waiting \ active /\ Holders' = Holders \ active
    BY <2>1 DEF Waiting, Holders
  <2> QED
    BY <1>1, <2>2, LeaseLeave
<1>3. CASE mType = "INVALID"
  <2>1. active' = active /\ \A c \in active : view'[c] = "idle"
    BY <1>3, ListShape DEF EngineUp, subscribers, TypeOK
  <2>2. Waiting' = Waiting \ active /\ Holders' = Holders \ active
    BY <2>1 DEF Waiting, Holders
  <2> QED
    BY <1>1, <2>2, LeaseLeave
<1>4. CASE mType = "WIFI"
  <2>1. active' = active /\ \A c \in active : view'[c] = view[c]
    BY <1>4, ListShape DEF EngineUp, Drop, Tell, subscribers, TypeOK
  <2>2. UNCHANGED <<Waiting, Holders>>
    BY <2>1 DEF Waiting, Holders
  <2> QED
    BY <1>1, <2>2, LeaseStutters
<1> QED
  BY <1>2, <1>3, <1>4 DEF TypeOK, Types

LEMMA StepLease ==
  ASSUME ToldInv, [Next]_vars
  PROVE  [Lease!Next]_(Lease!vars)
<1>1. CASE UNCHANGED <<state, active, view>>
  BY <1>1, LeaseStutters DEF Held, Waiting, Holders
<1>2. CASE AfwRequest \/ AfwRelease \/ AfwOpened \/ AfwOpenedUnnamed \/ AfwFailed \/ AfwLost
           \/ UNCHANGED vars
  BY <1>1, <1>2 DEF AfwRequest, AfwRelease, AfwOpened, AfwOpenedUnnamed, AfwFailed, AfwLost,
                    AfwReports, vars
<1> QED
  BY <1>2, SubscribeLease, UnsubscribeLease, EventLease, EngineUpLease DEF Next

\* The machine keeps the promise of NifLease, whoever its clients are: those who wait
\* are granted in one step, nobody waits while the interface is held, and its end is
\* everyone's end.
THEOREM MachineImplementsLease == Spec => ImplementsLease
<1>1. ToldInv /\ [Next]_vars => [Lease!Next]_(Lease!vars)
  BY StepLease
<1> QED
  BY <1>1, InitLease, ToldInvHolds, PTL DEF Spec, ImplementsLease, Lease!Spec
=============================================================================
