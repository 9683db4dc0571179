--------------------------- MODULE LocEngNiProofs ---------------------------
(***************************************************************************)
(* For any number of requests, answers and restarts of the modem: the      *)
(* variables have their types, a session has one waiting thread, a request *)
(* has one owner, the modem gets one answer to it, and nothing leaks.      *)
(*                                                                         *)
(* A request is in at most one place: its session, the hands of an NI      *)
(* thread (whichever thread that is), a message in the queue, or with the  *)
(* modem as an answer. This holds even when a restart leaves the threads   *)
(* of two requests in one session, and the other facts follow from what    *)
(* each step does to the places.                                           *)
(***************************************************************************)
EXTENDS LocEngNi, FiniteSetTheorems, TLAPS

-----------------------------------------------------------------------------
(* Types                                                                   *)

LEMMA QueueEnds ==
  ASSUME NEW q \in Seq(Messages)
  PROVE  /\ \A m \in Messages : Append(q, m) \in Seq(Messages)
         /\ q # <<>> => Head(q) \in Messages /\ Tail(q) \in Seq(Messages)
OBVIOUS

LEMMA TypeInit == Init => TypeOK
<1> SUFFICES ASSUME Init
             PROVE  TypeOK
  OBVIOUS
<1> USE RequestsAssumption
<1>1. resp \in [Sessions -> Answers]
  BY DEF Init, Answers, NoAnswer
<1>2. queue \in Seq(Messages)
  BY DEF Init
<1>3. QED
  BY <1>1, <1>2 DEF Init, TypeOK, Stages

LEMMA TypeStep == TypeOK /\ [Next]_vars => TypeOK'
<1> SUFFICES ASSUME TypeOK, [Next]_vars
             PROVE  TypeOK'
  OBVIOUS
<1> USE RequestsAssumption, NoneAssumption
<1> USE DEF TypeOK, Stages, session, ghosts
<1>0. \A r : sessionOf(r) \in Sessions
  BY DEF sessionOf, Sessions
<1>1. ASSUME NEW r \in Requests, RequestIgnored(r)
      PROVE  TypeOK'
  BY <1>1 DEF RequestIgnored, Free
<1>2. ASSUME NEW r \in Requests, RequestAccepted(r)
      PROVE  TypeOK'
  BY <1>0, <1>2 DEF RequestAccepted
<1>3. ASSUME NEW r \in Requests, Start(r) \/ Wake(r) \/ Check(r)
      PROVE  TypeOK'
  BY <1>0, <1>3 DEF Start, Wake, Check, Becomes
<1>4. ASSUME NEW r \in Requests, Timeout(r)
      PROVE  TypeOK'
  BY <1>0, <1>4 DEF Timeout, Becomes, Answers
<1>5. ASSUME NEW r \in Requests, Take(r)
      PROVE  TypeOK'
  <2> DEFINE s == sessionOf(r)
  <2>1. resp[s] \in Answers /\ rawRequest[s] \in Requests \cup {None}
    BY <1>0
  <2>2. CASE resp[s].word = "IGNORE"
    BY <1>0, <1>5, <2>1, <2>2 DEF Take, Becomes, Free
  <2>3. CASE resp[s].word # "IGNORE"
    <3>1. [request |-> rawRequest[s], word |-> resp[s].word, id |-> resp[s].id] \in Messages
      BY <2>1, <2>3 DEF Answers, Messages
    <3>2. QED
      BY <1>0, <1>5, <2>3, <3>1 DEF Take, Becomes, Free
  <2>4. QED
    BY <2>2, <2>3
<1>6. ASSUME NEW r \in Requests, Finish(r)
      PROVE  TypeOK'
  <2>1. queue' \in Seq(Messages)
    BY <1>6, QueueEnds DEF Finish
  <2>2. QED
    BY <1>0, <1>6, <2>1 DEF Finish, Becomes
<1>7. ASSUME NEW r \in Requests, NEW word \in Words, Respond(r, word)
      PROVE  TypeOK'
  BY <1>7 DEF Respond, Setting, Sessions
<1>8. CASE Inform
  <2>1. Head(queue) \in Messages /\ queue' \in Seq(Messages)
    BY <1>8, QueueEnds DEF Inform
  <2>2. Head(queue).request \in Requests \cup {None}
    BY <2>1 DEF Messages
  <2>3. QED
    BY <1>8, <2>1, <2>2 DEF Inform, Free
<1>9. CASE EngineDown
  BY <1>9 DEF EngineDown, GoTo, Resets, Sessions
<1>10. ASSUME NEW s \in Sessions, Reset(s)
       PROVE  TypeOK'
  <2> USE DEF GoTo, GoOn, Resets, Sessions
  <2>1. CASE ResetCheck(s)
    BY <2>1 DEF ResetCheck
  <2>2. CASE ResetFree(s)
    BY <2>2 DEF ResetFree, Free
  <2>3. CASE ResetClear(s)
    BY <2>3 DEF ResetClear
  <2>4. CASE ResetSignal(s)
    BY <2>4 DEF ResetSignal
  <2>5. QED
    BY <1>10, <2>1, <2>2, <2>3, <2>4 DEF Reset
<1>11. CASE Override
  <2>1. hal \in [at : {"override", "set"}, of : Sessions, id : Requests, word : Words]
    BY <1>11 DEF Override, Idle
  <2>2. QED
    BY <1>11, <2>1 DEF Override, Answers, Sessions
<1>12. CASE SetResponse
  <2>1. hal \in [at : {"override", "set"}, of : Sessions, id : Requests, word : Words]
    BY <1>12 DEF SetResponse, Idle
  <2>2. QED
    BY <1>12, <2>1 DEF SetResponse, Answers
<1>13. CASE UNCHANGED vars
  BY <1>13 DEF vars
<1>14. QED
  BY <1>1, <1>2, <1>3, <1>4, <1>5, <1>6, <1>7, <1>8, <1>9, <1>10, <1>11, <1>12, <1>13
     DEF Next, Runs

\* Every variable has its type (TypeOK), whatever the threads of loc_eng_ni.cpp do, and
\* no message to the modem carries IGNORE (ni_thread_proc frees the request instead).
THEOREM TypeCorrect == Spec => []TypeOK
BY TypeInit, TypeStep, PTL DEF Spec

-----------------------------------------------------------------------------
(* Where a request is                                                      *)

InSession(r) == rawRequest[sessionOf(r)] = r
Holders(r)   == {t \in Requests : held[t] # None /\ held[t].request = r}
LettersIn(q, r) == {i \in 1..Len(q) : q[i].request = r}
Letters(r)   == LettersIn(queue, r)
Given(r)     == {m \in sent : m.request = r}

AtMostOne(S) == \A x, y \in S : x = y

\* A request is in one place at most, and there once; one that has not come yet, or was
\* refused, is nowhere.
PlaceInv ==
  \A r \in Requests :
    /\ AtMostOne(Holders(r)) /\ AtMostOne(Letters(r)) /\ AtMostOne(Given(r))
    /\ InSession(r) => Holders(r) = {} /\ Letters(r) = {} /\ Given(r) = {}
    /\ Holders(r) # {} => Letters(r) = {} /\ Given(r) = {}
    /\ Letters(r) # {} => Given(r) = {}
    /\ thread[r] \in {"none", "refused"} =>
         ~InSession(r) /\ Holders(r) = {} /\ Letters(r) = {} /\ Given(r) = {}

\* A request is kept in its own session.
SessionInv == \A s \in Sessions : rawRequest[s] # None => sessionOf(rawRequest[s]) = s

\* A thread holds a request only between taking and sending it.
HeldInv == \A t \in Requests : held[t] # None => thread[t] = "cleared"

SharedInv == TypeOK /\ SessionInv /\ HeldInv /\ PlaceInv

LEMMA LettersStep ==
  ASSUME NEW q \in Seq(Messages), NEW r
  PROVE  /\ \A m \in Messages : LettersIn(Append(q, m), r) =
              LettersIn(q, r) \cup IF m.request = r THEN {Len(q) + 1} ELSE {}
         /\ q # <<>> =>
              /\ Head(q).request = r => 1 \in LettersIn(q, r)
              /\ \A i \in LettersIn(Tail(q), r) : i \in Nat \ {0} /\ i + 1 \in LettersIn(q, r)
              /\ LettersIn(q, r) # {} /\ Head(q).request # r => LettersIn(Tail(q), r) # {}
<1> USE DEF LettersIn
<1>1. ASSUME NEW m \in Messages
      PROVE  LettersIn(Append(q, m), r) =
               LettersIn(q, r) \cup IF m.request = r THEN {Len(q) + 1} ELSE {}
  OBVIOUS
<1>2. ASSUME q # <<>>
      PROVE  /\ Head(q).request = r => 1 \in LettersIn(q, r)
             /\ \A i \in LettersIn(Tail(q), r) : i \in Nat \ {0} /\ i + 1 \in LettersIn(q, r)
  BY <1>2
<1>3. ASSUME q # <<>>, Head(q).request # r, NEW i \in LettersIn(q, r)
      PROVE  i - 1 \in LettersIn(Tail(q), r)
  BY <1>3
<1>4. QED
  BY <1>1, <1>2, <1>3

LEMMA SharedInit == Init => SharedInv
BY TypeInit, RequestsAssumption
   DEF Init, SharedInv, PlaceInv, SessionInv, HeldInv, InSession, Holders, Letters, LettersIn,
        Given,
       AtMostOne, Sessions, sessionOf

LEMMA SessionTypes ==
  /\ \A r : sessionOf(r) \in Sessions
  /\ "es" \in Sessions /\ "ni" \in Sessions
BY DEF sessionOf, Sessions

LEMMA HeldStep == TypeOK /\ HeldInv /\ [Next]_vars => HeldInv'
<1> SUFFICES ASSUME TypeOK, HeldInv, [Next]_vars, NEW t \in Requests, held'[t] # None
             PROVE  thread'[t] = "cleared"
  BY DEF HeldInv
<1> USE DEF TypeOK, HeldInv, session, ghosts, Becomes
<1>1. CASE \E r \in Requests : RequestIgnored(r) \/ RequestAccepted(r)
  BY <1>1 DEF RequestIgnored, RequestAccepted, Asks
<1>2. ASSUME NEW r \in Requests, Start(r) \/ Wake(r) \/ Timeout(r) \/ Check(r)
      PROVE  thread'[t] = "cleared"
  BY <1>2 DEF Start, Wake, Timeout, Check
<1>3. ASSUME NEW r \in Requests, Take(r) \/ Finish(r)
      PROVE  thread'[t] = "cleared"
  BY <1>3 DEF Take, Finish
<1>4. CASE UNCHANGED <<held, thread>>
  BY <1>4
<1>5. QED
  BY <1>1, <1>2, <1>3, <1>4
     DEF Next, Runs, Respond, Inform, EngineDown, Reset, ResetCheck, ResetFree, ResetClear,
         ResetSignal, Override, SetResponse, vars

LEMMA SessionStep == TypeOK /\ SessionInv /\ [Next]_vars => SessionInv'
<1> SUFFICES ASSUME TypeOK, SessionInv, [Next]_vars
             PROVE  SessionInv'
  OBVIOUS
<1> USE RequestsAssumption, SessionTypes DEF SessionInv
<1>1. ASSUME NEW r \in Requests, RequestAccepted(r)
      PROVE  SessionInv'
  BY <1>1 DEF RequestAccepted, TypeOK
<1>2. ASSUME NEW r \in Requests, Take(r)
      PROVE  SessionInv'
  BY <1>2 DEF Take, TypeOK
<1>3. ASSUME NEW s \in Sessions, ResetClear(s)
      PROVE  SessionInv'
  BY <1>3 DEF ResetClear, TypeOK
<1>4. CASE UNCHANGED rawRequest
  BY <1>4
<1>5. QED
  BY <1>1, <1>2, <1>3, <1>4
     DEF Next, Runs, RequestIgnored, Start, Wake, Timeout, Check, Finish, Respond, Inform,
         EngineDown, Reset, ResetCheck, ResetFree, ResetSignal, Override, SetResponse,
         vars, session

\* Take moves the request of the session, whosever it is, to thread t, or frees it.
LEMMA TakeMoves ==
  ASSUME TypeOK, SessionInv, HeldInv, NEW t \in Requests, Take(t)
  PROVE  LET s == sessionOf(t)
             taken(r) == rawRequest[s] = r
             ignored == resp[s].word = "IGNORE"
         IN  /\ thread[t] = "checked" /\ thread' = [thread EXCEPT ![t] = "cleared"]
             /\ rawRequest' = [rawRequest EXCEPT ![s] = None]
             /\ UNCHANGED <<queue, sent, mt, restarts>>
             /\ \A r \in Requests :
                  /\ taken(r) => InSession(r)
                  /\ InSession(r)' <=> InSession(r) /\ ~taken(r)
                  /\ Holders(r)' = Holders(r) \cup IF taken(r) /\ ~ignored THEN {t} ELSE {}
                  /\ freed'[r] = IF taken(r) /\ ignored THEN freed[r] + 1 ELSE freed[r]
<1> USE RequestsAssumption, NoneAssumption
<1> DEFINE s == sessionOf(t)
           taken(r) == rawRequest[s] = r
           ignored == resp[s].word = "IGNORE"
           m == [request |-> rawRequest[s], word |-> resp[s].word, id |-> resp[s].id]
<1>1. /\ rawRequest \in [Sessions -> Requests \cup {None}]
      /\ held \in [Requests -> Messages \cup {None}]
      /\ freed \in [Requests -> Nat]
      /\ resp[s] \in Answers
  BY SessionTypes DEF TypeOK
<1>2. /\ thread[t] = "checked" /\ thread' = [thread EXCEPT ![t] = "cleared"]
      /\ rawRequest' = [rawRequest EXCEPT ![s] = None]
      /\ held' = [held EXCEPT ![t] = IF ignored THEN None ELSE m]
      /\ UNCHANGED <<queue, sent, mt, restarts>>
      /\ Free(IF ignored THEN rawRequest[s] ELSE None)
  BY DEF Take, Becomes
<1>3. held[t] = None
  BY <1>2 DEF HeldInv
<1>4. ~ignored => m \in Messages /\ m # None
  BY <1>1, SessionTypes DEF Answers, Messages
<1>5. ASSUME NEW r \in Requests
      PROVE  freed'[r] = IF taken(r) /\ ignored THEN freed[r] + 1 ELSE freed[r]
  BY <1>1, <1>2, SessionTypes DEF Free
<1>6. ASSUME NEW r \in Requests
      PROVE  (taken(r) => InSession(r)) /\ (InSession(r)' <=> InSession(r) /\ ~taken(r))
  BY <1>1, <1>2, SessionTypes DEF SessionInv, InSession
<1>7. ASSUME NEW r \in Requests
      PROVE  Holders(r)' = Holders(r) \cup IF taken(r) /\ ~ignored THEN {t} ELSE {}
  BY <1>1, <1>2, <1>3, <1>4 DEF Holders
<1>8. QED
  BY <1>2, <1>5, <1>6, <1>7

\* Finish moves what thread t holds into the queue.
LEMMA FinishMoves ==
  ASSUME TypeOK, NEW t \in Requests, Finish(t)
  PROVE  /\ thread[t] = "cleared" /\ thread' = [thread EXCEPT ![t] = "done"]
         /\ UNCHANGED <<rawRequest, sent, freed, mt, restarts>>
         /\ \A r \in Requests :
              /\ Holders(r)' = Holders(r) \ {t}
              /\ t \in Holders(r) => Letters(r)' = Letters(r) \cup {Len(queue) + 1}
              /\ t \notin Holders(r) => Letters(r)' = Letters(r)
<1>1. /\ thread[t] = "cleared" /\ thread' = [thread EXCEPT ![t] = "done"]
      /\ held' = [held EXCEPT ![t] = None]
      /\ queue' = IF held[t] = None THEN queue ELSE Append(queue, held[t])
      /\ UNCHANGED <<rawRequest, sent, freed, mt, restarts>>
  BY DEF Finish, Becomes, ghosts
<1>2. /\ held \in [Requests -> Messages \cup {None}]
      /\ queue \in Seq(Messages)
  BY DEF TypeOK
<1>3. ASSUME NEW r \in Requests
      PROVE  Holders(r)' = Holders(r) \ {t}
  BY <1>1, <1>2 DEF Holders
<1>4. ASSUME NEW r \in Requests
      PROVE  /\ t \in Holders(r) => Letters(r)' = Letters(r) \cup {Len(queue) + 1}
             /\ t \notin Holders(r) => Letters(r)' = Letters(r)
  <2>1. CASE held[t] = None
    BY <1>1, <2>1 DEF Letters, Holders
  <2>2. CASE held[t] # None
    <3>1. queue' = Append(queue, held[t]) /\ held[t] \in Messages
      BY <1>1, <1>2, <2>2
    <3>2. Letters(r)' = Letters(r) \cup IF held[t].request = r THEN {Len(queue) + 1} ELSE {}
      BY <1>2, <3>1, LettersStep DEF Letters
    <3>3. t \in Holders(r) <=> held[t].request = r
      BY <2>2 DEF Holders
    <3>4. QED
      BY <3>2, <3>3
  <2>3. QED
    BY <2>1, <2>2
<1>5. QED
  BY <1>1, <1>3, <1>4

\* Inform moves the first letter to the modem, and frees its request.
LEMMA InformMoves ==
  ASSUME TypeOK, PlaceInv, Inform
  PROVE  LET told(r) == Head(queue).request = r IN
         /\ UNCHANGED <<rawRequest, held, thread, mt, restarts>>
         /\ \A r \in Requests :
              /\ told(r) => Letters(r) # {}
              /\ Letters(r)' # {} <=> Letters(r) # {} /\ ~told(r)
              /\ AtMostOne(Letters(r)')
              /\ told(r) => Given(r)' = Given(r) \cup {Head(queue)}
              /\ ~told(r) => Given(r)' = Given(r)
              /\ freed'[r] = IF told(r) THEN freed[r] + 1 ELSE freed[r]
<1> USE RequestsAssumption
<1> DEFINE m == Head(queue)
<1>1. /\ queue # <<>> /\ queue' = Tail(queue)
      /\ sent' = sent \cup {m}
      /\ Free(m.request)
      /\ UNCHANGED <<rawRequest, held, thread, mt, restarts>>
  BY DEF Inform, session
<1>2. queue \in Seq(Messages) /\ Len(queue) \in Nat /\ freed \in [Requests -> Nat]
  BY DEF TypeOK
<1>3. ASSUME NEW r \in Requests
      PROVE  /\ m.request = r => 1 \in Letters(r)
             /\ \A i \in Letters(r)' : i \in Nat \ {0} /\ i + 1 \in Letters(r)
             /\ Letters(r) # {} /\ m.request # r => Letters(r)' # {}
  BY <1>1, <1>2, LettersStep DEF Letters
<1>4. ASSUME NEW r \in Requests
      PROVE  /\ AtMostOne(Letters(r)')
             /\ Letters(r)' # {} => Letters(r) # {}
             /\ m.request = r => Letters(r)' = {}
  BY <1>3 DEF PlaceInv, AtMostOne
<1>5. ASSUME NEW r \in Requests
      PROVE  /\ m.request = r => Given(r)' = Given(r) \cup {m}
             /\ m.request # r => Given(r)' = Given(r)
  BY <1>1 DEF Given
<1>6. ASSUME NEW r \in Requests
      PROVE  freed'[r] = IF m.request = r THEN freed[r] + 1 ELSE freed[r]
  BY <1>1, <1>2 DEF Free
<1>7. QED
  BY <1>1, <1>3, <1>4, <1>5, <1>6

\* A request that is accepted is in its session, where there was none.
LEMMA AcceptMoves ==
  ASSUME TypeOK, NEW r \in Requests, RequestAccepted(r)
  PROVE  /\ thread[r] = "none"
         /\ \E stage \in {"start", "missing"} : thread' = [thread EXCEPT ![r] = stage]
         /\ mt = Idle
         /\ UNCHANGED <<held, queue, sent, freed, mt, restarts>>
         /\ rawRequest[sessionOf(r)] = None
         /\ rawRequest' = [rawRequest EXCEPT ![sessionOf(r)] = r]
         /\ \A t \in Requests : InSession(t)' <=> InSession(t) \/ t = r
<1> USE RequestsAssumption, SessionTypes
<1>1. /\ thread[r] = "none"
      /\ \E stage \in {"start", "missing"} : thread' = [thread EXCEPT ![r] = stage]
      /\ mt = Idle /\ ~Busy(r)
      /\ UNCHANGED <<held, queue, sent, freed, mt, restarts>>
      /\ rawRequest' = [rawRequest EXCEPT ![sessionOf(r)] = r]
  BY DEF RequestAccepted, Asks, ghosts
<1>2. rawRequest[sessionOf(r)] = None
  BY <1>1 DEF Busy, sessionOf
<1>3. rawRequest \in [Sessions -> Requests \cup {None}]
  BY DEF TypeOK
<1>4. QED
  BY <1>1, <1>2, <1>3 DEF InSession

\* A thread goes on, and moves nothing.
LEMMA RunsMoves ==
  ASSUME TypeOK, NEW r \in Requests, Start(r) \/ Wake(r) \/ Timeout(r) \/ Check(r)
  PROVE  /\ UNCHANGED <<rawRequest, held, queue, sent, freed, mt, restarts>>
         /\ \/ /\ thread[r] \in {"start", "waiting"}
               /\ \E stage \in {"waiting", "woken"} : thread' = [thread EXCEPT ![r] = stage]
            \/ /\ thread[r] = "woken"
               /\ thread' = [thread EXCEPT ![r] = IF rawRequest[sessionOf(r)] # None
                                                 THEN "checked" ELSE "cleared"]
BY DEF Start, Wake, Timeout, Check, Becomes, session, ghosts

\* A request that is refused is freed.
LEMMA IgnoredMoves ==
  ASSUME TypeOK, NEW r \in Requests, RequestIgnored(r)
  PROVE  /\ UNCHANGED <<rawRequest, held, queue, sent, mt, restarts>>
         /\ thread[r] = "none" /\ thread' = [thread EXCEPT ![r] = "refused"]
         /\ freed' = [freed EXCEPT ![r] = @ + 1]
BY RequestsAssumption DEF RequestIgnored, Asks, Free, session

LEMMA PlaceStep == SharedInv /\ [Next]_vars => PlaceInv'
<1> SUFFICES ASSUME SharedInv, [Next]_vars
             PROVE  PlaceInv'
  OBVIOUS
<1> USE DEF SharedInv, PlaceInv, AtMostOne
<1> DEFINE Out == {"none", "refused"}
<1>0. DOMAIN thread = Requests
  BY DEF TypeOK
<1>1. ASSUME UNCHANGED <<rawRequest, held, queue, sent>>,
             \A r \in Requests : thread'[r] \in Out => thread[r] \in Out
      PROVE  PlaceInv'
  BY <1>1 DEF InSession, Holders, Letters, Given
<1>2. ASSUME NEW r \in Requests, RequestIgnored(r)
      PROVE  PlaceInv'
  <2>1. \A t \in Requests : thread'[t] \in Out => thread[t] \in Out
    BY <1>0, <1>2, IgnoredMoves
  <2>2. QED
    BY <1>1, <1>2, <2>1, IgnoredMoves
<1>3. ASSUME NEW r \in Requests, RequestAccepted(r)
      PROVE  PlaceInv'
  <2>1. \A t \in Requests : t # r => thread'[t] = thread[t]
    BY <1>0, <1>3, AcceptMoves
  <2>2. \A t \in Requests :
          Holders(t)' = Holders(t) /\ Letters(t)' = Letters(t) /\ Given(t)' = Given(t)
    BY <1>3, AcceptMoves DEF Holders, Letters, Given
  <2>3. thread'[r] \notin Out
    BY <1>0, <1>3, AcceptMoves
  <2>4. QED
    BY <1>3, <2>1, <2>2, <2>3, AcceptMoves
<1>4. ASSUME NEW r \in Requests, Start(r) \/ Wake(r) \/ Timeout(r) \/ Check(r)
      PROVE  PlaceInv'
  <2>1. \A t \in Requests : thread'[t] \in Out => thread[t] \in Out
    BY <1>0, <1>4, RunsMoves
  <2>2. QED
    BY <1>1, <1>4, <2>1, RunsMoves
<1>5. ASSUME NEW t \in Requests, Take(t)
      PROVE  PlaceInv'
  <2>1. \A r \in Requests : thread'[r] \in Out => thread[r] \in Out
    BY <1>0, <1>5, TakeMoves
  <2>2. \A r \in Requests : Letters(r)' = Letters(r) /\ Given(r)' = Given(r)
    BY <1>5, TakeMoves DEF Letters, Given
  <2>3. ASSUME NEW r \in Requests
        PROVE  \/ (InSession(r)' <=> InSession(r)) /\ Holders(r)' = Holders(r)
               \/ InSession(r) /\ ~InSession(r)' /\ Holders(r)' \subseteq {t}
    BY <1>5, TakeMoves
  <2>4. QED
    BY <2>1, <2>2, <2>3
<1>6. ASSUME NEW t \in Requests, Finish(t)
      PROVE  PlaceInv'
  <2>1. \A r \in Requests : thread'[r] \in Out => thread[r] \in Out
    BY <1>0, <1>6, FinishMoves
  <2>2. \A r \in Requests : (InSession(r)' <=> InSession(r)) /\ Given(r)' = Given(r)
    BY <1>6, FinishMoves DEF InSession, Given
  <2>3. ASSUME NEW r \in Requests
        PROVE  \/ Holders(r)' = Holders(r) /\ Letters(r)' = Letters(r)
               \/ /\ Holders(r) # {} /\ Letters(r) = {}
                  /\ Holders(r)' = {} /\ Letters(r)' = {Len(queue) + 1}
    <3>1. CASE t \in Holders(r)
      BY <1>6, <3>1, FinishMoves
    <3>2. CASE t \notin Holders(r)
      <4>1. Holders(r) \ {t} = Holders(r)
        BY <3>2
      <4>2. QED
        BY <1>6, <3>2, <4>1, FinishMoves
    <3>3. QED
      BY <3>1, <3>2
  <2>4. QED
    BY <2>1, <2>2, <2>3
<1>7. ASSUME NEW r \in Requests, NEW word \in Words, Respond(r, word)
      PROVE  PlaceInv'
  BY <1>1, <1>7 DEF Respond, session
<1>8. CASE Inform
  <2>1. \A r \in Requests : (InSession(r)' <=> InSession(r)) /\ Holders(r)' = Holders(r)
    BY <1>8, InformMoves DEF InSession, Holders
  <2>2. thread' = thread
    BY <1>8, InformMoves
  <2>3. ASSUME NEW r \in Requests
        PROVE  /\ AtMostOne(Letters(r)')
               /\ \/ (Letters(r)' = {} <=> Letters(r) = {}) /\ Given(r)' = Given(r)
                  \/ Letters(r)' = {} /\ Letters(r) # {} /\ AtMostOne(Given(r)')
    <3>1. CASE Head(queue).request = r
      BY <1>8, <3>1, InformMoves
    <3>2. CASE Head(queue).request # r
      BY <1>8, <3>2, InformMoves
    <3>3. QED
      BY <3>1, <3>2
  <2>4. QED
    BY <2>1, <2>2, <2>3
<1>9. ASSUME NEW s \in Sessions, ResetClear(s)
      PROVE  PlaceInv'
  <2>1. /\ rawRequest' = [rawRequest EXCEPT ![s] = None]
        /\ UNCHANGED <<held, queue, sent, thread>>
    BY <1>9 DEF ResetClear, ghosts
  <2>2. \A r \in Requests : InSession(r)' => InSession(r)
    BY <2>1, RequestsAssumption, SessionTypes DEF TypeOK, InSession
  <2>3. \A r \in Requests :
          Holders(r)' = Holders(r) /\ Letters(r)' = Letters(r) /\ Given(r)' = Given(r)
    BY <2>1 DEF Holders, Letters, Given
  <2>4. QED
    BY <2>1, <2>2, <2>3
<1>10. QED
  BY <1>1, <1>2, <1>3, <1>4, <1>5, <1>6, <1>7, <1>8, <1>9
     DEF Next, Runs, EngineDown, Reset, ResetCheck, ResetFree,
         ResetSignal, Override, SetResponse, vars, session, ghosts

LEMMA SharedStep == SharedInv /\ [Next]_vars => SharedInv'
BY TypeStep, SessionStep, HeldStep, PlaceStep DEF SharedInv

-----------------------------------------------------------------------------
(* One answer                                                              *)

LEMMA CountOne ==
  ASSUME NEW S, AtMostOne(S)
  PROVE  Cardinality(S) = IF S = {} THEN 0 ELSE 1
<1>1. S = {} \/ \E x : S = {x}
  BY DEF AtMostOne
<1>2. QED
  BY <1>1, FS_EmptySet, FS_Singleton

LEMMA CarriedCount ==
  ASSUME PlaceInv, NEW r \in Requests
  PROVE  Carried(r) = IF Holders(r) = {} /\ Letters(r) = {} THEN 0 ELSE 1
<1>1. Carried(r) = Cardinality(Holders(r)) + Cardinality(Letters(r))
  BY DEF Carried, Holders, Letters, LettersIn
<1>2. QED
  BY <1>1, CountOne DEF PlaceInv

\* The modem never gets two answers to one request (OneAnswer), even if a restart leaves
\* two threads in a session (ni_thread_proc against loc_eng_ni_reset_on_engine_restart).
THEOREM AtMostOneAnswer == Spec => []OneAnswer
<1>1. ASSUME SharedInv, NEW r \in Requests
      PROVE  Carried(r) + Cardinality({m \in sent : m.request = r}) <= 1
  <2>1. Cardinality(Given(r)) = IF Given(r) = {} THEN 0 ELSE 1
    BY <1>1, CountOne DEF SharedInv, PlaceInv
  <2>2. Carried(r) + Cardinality(Given(r)) <= 1
    BY <1>1, <2>1, CarriedCount DEF SharedInv, PlaceInv
  <2>3. QED
    BY <2>2 DEF Given
<1>2. SharedInv => OneAnswer
  BY <1>1 DEF OneAnswer
<1>3. QED
  BY <1>2, SharedInit, SharedStep, PTL DEF Spec

-----------------------------------------------------------------------------
(* One owner                                                               *)

Somewhere(r) == InSession(r) \/ Holders(r) # {} \/ Letters(r) # {}

\* As long as nothing was reset, a block is freed exactly when it is nowhere any more.
OwnerInv ==
  restarts = 0 =>
    /\ mt = Idle
    /\ \A r \in Requests : freed[r] = IF thread[r] = "none" \/ Somewhere(r) THEN 0 ELSE 1

LEMMA OwnerInit == Init => OwnerInv
BY DEF Init, OwnerInv

LEMMA OwnerStep == SharedInv /\ OwnerInv /\ [Next]_vars => OwnerInv'
<1> SUFFICES ASSUME SharedInv, OwnerInv, [Next]_vars, restarts' = 0
             PROVE  /\ mt' = Idle
                    /\ \A r \in Requests :
                         freed'[r] = IF thread'[r] = "none" \/ Somewhere(r)' THEN 0 ELSE 1
  BY DEF OwnerInv
<1> DEFINE Owned == \A r \in Requests :
                      freed'[r] = IF thread'[r] = "none" \/ Somewhere(r)' THEN 0 ELSE 1
<1> USE DEF SharedInv, OwnerInv
<1>0. DOMAIN thread = Requests /\ DOMAIN freed = Requests /\ restarts \in Nat
  BY RequestsAssumption DEF TypeOK
\* the modem has not gone down, and nothing is being reset
<1>1. restarts = 0
  BY <1>0, RequestsAssumption
     DEF Next, Runs, RequestIgnored, RequestAccepted, Start, Wake, Timeout, Check, Take,
         Finish, Respond, Inform, EngineDown, Reset, ResetCheck, ResetFree, ResetClear,
         ResetSignal, Override, SetResponse, vars, ghosts
<1>2. \A s \in Sessions : ~Reset(s)
  BY <1>1 DEF Reset, ResetCheck, ResetFree, ResetClear, ResetSignal, At, Idle
<1>3. ASSUME NEW r \in Requests, RequestIgnored(r)
      PROVE  mt' = mt /\ Owned
  <2>1. \A t \in Requests : Somewhere(t)' <=> Somewhere(t)
    BY <1>3, IgnoredMoves DEF Somewhere, InSession, Holders, Letters
  <2>2. ~Somewhere(r)
    BY <1>3, IgnoredMoves DEF Somewhere, PlaceInv
  <2>3. QED
    BY <1>0, <1>1, <1>3, <2>1, <2>2, IgnoredMoves
<1>4. ASSUME NEW r \in Requests, RequestAccepted(r)
      PROVE  mt' = mt /\ Owned
  <2>1. \A t \in Requests : Somewhere(t)' <=> Somewhere(t) \/ t = r
    BY <1>4, AcceptMoves DEF Somewhere, Holders, Letters
  <2>2. QED
    BY <1>0, <1>1, <1>4, <2>1, AcceptMoves
<1>5. ASSUME NEW r \in Requests, Start(r) \/ Wake(r) \/ Timeout(r) \/ Check(r)
      PROVE  mt' = mt /\ Owned
  <2>1. \A t \in Requests : Somewhere(t)' <=> Somewhere(t)
    BY <1>5, RunsMoves DEF Somewhere, InSession, Holders, Letters
  <2>2. \A t \in Requests : thread'[t] = "none" <=> thread[t] = "none"
    BY <1>0, <1>5, RunsMoves
  <2>3. QED
    BY <1>1, <1>5, <2>1, <2>2, RunsMoves
<1>6. ASSUME NEW t \in Requests, Take(t)
      PROVE  mt' = mt /\ Owned
  <2> DEFINE taken(r) == rawRequest[sessionOf(t)] = r
             ignored == resp[sessionOf(t)].word = "IGNORE"
  <2>1. \A r \in Requests : thread'[r] = "none" <=> thread[r] = "none"
    BY <1>0, <1>6, TakeMoves
  <2>2. \A r \in Requests : Letters(r)' = Letters(r)
    BY <1>6, TakeMoves DEF Letters
  <2>3. ASSUME NEW r \in Requests
        PROVE  /\ taken(r) /\ ignored => Somewhere(r) /\ ~Somewhere(r)' /\ freed'[r] = freed[r] + 1
               /\ ~(taken(r) /\ ignored) => (Somewhere(r)' <=> Somewhere(r)) /\ freed'[r] = freed[r]
    BY <1>6, <2>2, TakeMoves DEF Somewhere, PlaceInv
  <2>4. \A r \in Requests : Somewhere(r) => thread[r] # "none"
    BY DEF PlaceInv, Somewhere
  <2>5. QED
    BY <1>1, <1>6, <2>1, <2>3, <2>4, TakeMoves
<1>7. ASSUME NEW t \in Requests, Finish(t)
      PROVE  mt' = mt /\ Owned
  <2>1. \A r \in Requests : thread'[r] = "none" <=> thread[r] = "none"
    BY <1>0, <1>7, FinishMoves
  <2>2. \A r \in Requests : InSession(r)' <=> InSession(r)
    BY <1>7, FinishMoves DEF InSession
  <2>3. ASSUME NEW r \in Requests
        PROVE  Somewhere(r)' <=> Somewhere(r)
    BY <1>7, <2>2, FinishMoves DEF Somewhere
  <2>4. QED
    BY <1>1, <1>7, <2>1, <2>3, FinishMoves
<1>8. ASSUME Inform
      PROVE  mt' = mt /\ Owned
  <2> DEFINE told(r) == Head(queue).request = r
  <2>1. \A r \in Requests : (InSession(r)' <=> InSession(r)) /\ Holders(r)' = Holders(r)
    BY <1>8, InformMoves DEF InSession, Holders
  <2>2. ASSUME NEW r \in Requests
        PROVE  /\ told(r) => Somewhere(r) /\ ~Somewhere(r)' /\ freed'[r] = freed[r] + 1
               /\ ~told(r) => (Somewhere(r)' <=> Somewhere(r)) /\ freed'[r] = freed[r]
    BY <1>8, <2>1, InformMoves DEF Somewhere, PlaceInv
  <2>3. \A r \in Requests : Somewhere(r) => thread[r] # "none"
    BY DEF PlaceInv, Somewhere
  <2>4. QED
    BY <1>1, <1>8, <2>2, <2>3, InformMoves
<1>9. ASSUME UNCHANGED <<rawRequest, held, queue, thread, freed, mt>>
      PROVE  mt' = mt /\ Owned
  BY <1>1, <1>9 DEF Somewhere, InSession, Holders, Letters
<1>10. mt' = mt /\ Owned
  BY <1>0, <1>1, <1>2, <1>3, <1>4, <1>5, <1>6, <1>7, <1>8, <1>9
     DEF Next, Runs, Respond, EngineDown, Override, SetResponse, vars, session, ghosts
<1>11. QED
  BY <1>1, <1>10

\* While the modem has not gone down, the block of a request has one owner and is freed
\* once (OneOwner): by its answer, an overriding emergency, or at once.
THEOREM AlwaysOneOwner == Spec => []OneOwner
<1>1. SharedInv /\ OwnerInv => OneOwner
  <2> SUFFICES ASSUME SharedInv, OwnerInv, restarts = 0, NEW r \in Requests, thread[r] # "none"
               PROVE  Kept(r) + Carried(r) + freed[r] = 1
    BY DEF OneOwner
  <2>1. /\ Kept(r) = IF InSession(r) THEN 1 ELSE 0
        /\ Carried(r) = IF Holders(r) = {} /\ Letters(r) = {} THEN 0 ELSE 1
        /\ freed[r] = IF Somewhere(r) THEN 0 ELSE 1
    BY CarriedCount DEF Kept, InSession, SharedInv, OwnerInv
  <2>2. QED
    BY <2>1 DEF Somewhere, SharedInv, PlaceInv
<1>2. QED
  BY <1>1, SharedInit, SharedStep, OwnerInit, OwnerStep, PTL DEF Spec

-----------------------------------------------------------------------------
(* One waiting thread                                                      *)

Waiting == {"missing", "start", "waiting", "woken", "checked"}

WaiterInv == OneWaiter /\ (restarts = 0 => mt = Idle)

LEMMA WaiterInit == Init => WaiterInv
<1> SUFFICES ASSUME Init, NEW s \in Sessions
             PROVE  {rawRequest[s]} \ {None} = {} /\ mt = Idle
  BY DEF WaiterInv, OneWaiter, Init
<1>1. QED
  BY DEF Init

LEMMA WaiterStep == SharedInv /\ WaiterInv /\ [Next]_vars => WaiterInv'
<1> SUFFICES ASSUME SharedInv, WaiterInv, [Next]_vars, restarts' = 0
             PROVE  OneWaiter' /\ mt' = Idle
  BY DEF WaiterInv, OneWaiter
<1> USE RequestsAssumption, SessionTypes
<1> USE DEF SharedInv, WaiterInv, Waiting
<1> DEFINE Waits(s) == {r \in Requests : sessionOf(r) = s /\ thread[r] \in Waiting}
<1>0. /\ DOMAIN thread = Requests /\ restarts \in Nat
      /\ rawRequest \in [Sessions -> Requests \cup {None}]
  BY DEF TypeOK
<1>1. restarts = 0
  BY <1>0
     DEF Next, Runs, RequestIgnored, RequestAccepted, Start, Wake, Timeout, Check, Take,
         Finish, Respond, Inform, EngineDown, Reset, ResetCheck, ResetFree, ResetClear,
         ResetSignal, Override, SetResponse, vars, ghosts
<1>2. \A s \in Sessions : ~Reset(s)
  BY <1>1 DEF Reset, ResetCheck, ResetFree, ResetClear, ResetSignal, At, Idle
<1>3. \A s \in Sessions : Waits(s) = {rawRequest[s]} \ {None}
  BY <1>1 DEF OneWaiter
<1> HIDE DEF WaiterInv
<1> SUFFICES /\ mt' = mt
             /\ \A s \in Sessions : Waits(s)' = {rawRequest'[s]} \ {None}
  BY <1>1 DEF WaiterInv, OneWaiter
<1> DEFINE Same == /\ mt' = mt
                   /\ \A s \in Sessions : Waits(s)' = {rawRequest'[s]} \ {None}
<1>4. ASSUME UNCHANGED <<rawRequest, mt>>,
             \A r \in Requests : thread'[r] \in Waiting <=> thread[r] \in Waiting
      PROVE  Same
  BY <1>3, <1>4
<1>5. ASSUME NEW r \in Requests, RequestIgnored(r)
      PROVE  Same
  <2>1. \A t \in Requests : thread'[t] \in Waiting <=> thread[t] \in Waiting
    BY <1>0, <1>5, IgnoredMoves
  <2>2. QED
    BY <1>4, <1>5, <2>1, IgnoredMoves
\* a session without a request has no waiting thread, so the new one is the only one
<1>6. ASSUME NEW r \in Requests, RequestAccepted(r)
      PROVE  Same
  <2>1. /\ thread'[r] \in Waiting
        /\ \A t \in Requests : t # r => thread'[t] = thread[t]
        /\ rawRequest' = [rawRequest EXCEPT ![sessionOf(r)] = r]
        /\ rawRequest[sessionOf(r)] = None
        /\ mt' = mt
    BY <1>0, <1>6, AcceptMoves
  <2>2. Waits(sessionOf(r))' = {r}
    BY <1>3, <2>1
  <2>3. \A s \in Sessions : s # sessionOf(r) => Waits(s)' = Waits(s)
    BY <2>1
  <2>4. QED
    BY <1>0, <1>3, <2>1, <2>2, <2>3
\* a thread that wakes finds its own request, and never none
<1>7. ASSUME NEW r \in Requests, Start(r) \/ Wake(r) \/ Timeout(r) \/ Check(r)
      PROVE  Same
  <2>1. thread[r] \in Waiting => rawRequest[sessionOf(r)] # None
    BY <1>3
  <2>2. \A t \in Requests : thread'[t] \in Waiting <=> thread[t] \in Waiting
    BY <1>0, <1>7, <2>1, RunsMoves
  <2>3. QED
    BY <1>4, <1>7, <2>2, RunsMoves
<1>8. ASSUME NEW t \in Requests, Take(t)
      PROVE  Same
  <2> DEFINE s == sessionOf(t)
  <2>1. /\ thread[t] \in Waiting /\ thread'[t] \notin Waiting
        /\ \A r \in Requests : r # t => thread'[r] = thread[r]
        /\ rawRequest' = [rawRequest EXCEPT ![s] = None]
        /\ mt' = mt
    BY <1>0, <1>8, TakeMoves
  <2>2. Waits(s) = {t}
    BY <1>3, <2>1
  <2>3. Waits(s)' = {}
    BY <2>1, <2>2
  <2>4. \A u \in Sessions : u # s => Waits(u)' = Waits(u)
    BY <2>1
  <2>5. QED
    BY <1>0, <1>3, <2>1, <2>3, <2>4
<1>9. ASSUME NEW t \in Requests, Finish(t)
      PROVE  Same
  <2>1. \A r \in Requests : thread'[r] \in Waiting <=> thread[r] \in Waiting
    BY <1>0, <1>9, FinishMoves
  <2>2. QED
    BY <1>4, <1>9, <2>1, FinishMoves
<1>10. ASSUME UNCHANGED <<rawRequest, thread, mt>>
       PROVE  Same
  BY <1>4, <1>10
<1>11. QED
  BY <1>0, <1>1, <1>2, <1>5, <1>6, <1>7, <1>8, <1>9, <1>10
     DEF Next, Runs, Respond, Inform, EngineDown, Override, SetResponse, vars, session, ghosts

\* While the modem has not gone down, a session with a request has one thread that has
\* yet to look at it, its own (OneWaiter): loc_eng_ni_request_handler never meets the
\* thread of an earlier request still waiting.
THEOREM AlwaysOneWaiter == Spec => []OneWaiter
<1>1. WaiterInv => OneWaiter
  BY DEF WaiterInv
<1>2. QED
  BY <1>1, SharedInit, SharedStep, WaiterInit, WaiterStep, PTL DEF Spec

-----------------------------------------------------------------------------
(* Nothing leaks                                                           *)

\* A request that came is somewhere or was freed; one in its session has its thread still
\* to come; and the reset forgets a request only when it has freed it, whatever the
\* threads have done to the session since it looked.
LeakInv ==
  /\ \A r \in Requests : thread[r] = "none" \/ freed[r] > 0 \/ Somewhere(r)
  /\ \A r \in Requests : InSession(r) => thread[r] \in Waiting
  /\ \A s \in Sessions :
       At(s, "clear") => rawRequest[s] = None \/ freed[rawRequest[s]] > 0

LEMMA LeakInit == Init => LeakInv
BY RequestsAssumption, SessionTypes DEF Init, LeakInv, InSession, At, Idle

LEMMA LeakStep == SharedInv /\ LeakInv /\ [Next]_vars => LeakInv'
<1> SUFFICES ASSUME SharedInv, LeakInv, [Next]_vars
             PROVE  LeakInv'
  OBVIOUS
<1> USE RequestsAssumption, SessionTypes
<1> USE DEF SharedInv, LeakInv, Waiting
<1>0. /\ DOMAIN thread = Requests /\ freed \in [Requests -> Nat]
      /\ rawRequest \in [Sessions -> Requests \cup {None}]
  BY DEF TypeOK
<1> DEFINE Out == \A r \in Requests : thread'[r] = "none" \/ freed'[r] > 0 \/ Somewhere(r)'
           In == \A r \in Requests : InSession(r)' => thread'[r] \in Waiting
           Cleared == \A s \in Sessions :
                        At(s, "clear")' => rawRequest'[s] = None \/ freed'[rawRequest'[s]] > 0
<1>1. ASSUME UNCHANGED <<rawRequest, held, queue>>,
             \A r \in Requests : freed'[r] \in Nat /\ freed'[r] >= freed[r],
             \A r \in Requests : thread'[r] = thread[r]
      PROVE  Out /\ In
  BY <1>0, <1>1 DEF Somewhere, InSession, Holders, Letters
<1>2. ASSUME mt' = mt, \A r \in Requests : freed'[r] \in Nat /\ freed'[r] >= freed[r],
             \A s \in Sessions : rawRequest'[s] \in {rawRequest[s], None}
      PROVE  Cleared
  BY <1>0, <1>2 DEF At
<1>3. ASSUME NEW r \in Requests, RequestIgnored(r)
      PROVE  Out /\ In /\ Cleared
  <2>1. \A t \in Requests : (Somewhere(t)' <=> Somewhere(t)) /\ (InSession(t)' <=> InSession(t))
    BY <1>3, IgnoredMoves DEF Somewhere, InSession, Holders, Letters
  <2>2. /\ \A t \in Requests : freed'[t] \in Nat /\ freed'[t] >= freed[t]
        /\ \A t \in Requests : t # r => thread'[t] = thread[t]
        /\ freed'[r] > 0 /\ thread[r] \notin Waiting
    BY <1>0, <1>3, IgnoredMoves
  <2>3. Out /\ In
    BY <2>1, <2>2, <1>0
  <2>4. Cleared
    BY <1>2, <1>3, <2>2, IgnoredMoves
  <2>5. QED
    BY <2>3, <2>4
<1>4. ASSUME NEW r \in Requests, RequestAccepted(r)
      PROVE  Out /\ In /\ Cleared
  <2>1. \A t \in Requests : Somewhere(t)' <=> Somewhere(t) \/ t = r
    BY <1>4, AcceptMoves DEF Somewhere, Holders, Letters
  <2>2. /\ \A t \in Requests : t # r => thread'[t] = thread[t]
        /\ thread'[r] \in Waiting
    BY <1>0, <1>4, AcceptMoves
  <2>3. Out /\ In
    BY <1>4, <2>1, <2>2, AcceptMoves
  <2>4. Cleared
    BY <1>4, AcceptMoves DEF At, Idle
  <2>5. QED
    BY <2>3, <2>4
<1>5. ASSUME NEW r \in Requests, Start(r) \/ Wake(r) \/ Timeout(r) \/ Check(r)
      PROVE  Out /\ In /\ Cleared
  <2>1. \A t \in Requests : (Somewhere(t)' <=> Somewhere(t)) /\ (InSession(t)' <=> InSession(t))
    BY <1>5, RunsMoves DEF Somewhere, InSession, Holders, Letters
  <2>2. \A t \in Requests : thread'[t] = "none" <=> thread[t] = "none"
    BY <1>0, <1>5, RunsMoves
  <2>3. \A t \in Requests : InSession(t) /\ thread[t] \in Waiting => thread'[t] \in Waiting
    BY <1>0, <1>5, RunsMoves DEF InSession
  <2>4. Out /\ In
    BY <1>5, <2>1, <2>2, <2>3, RunsMoves
  <2>5. Cleared
    BY <1>0, <1>2, <1>5, RunsMoves
  <2>6. QED
    BY <2>4, <2>5
\* a thread that takes a request may leave another's session empty, never full
<1>6. ASSUME NEW t \in Requests, Take(t)
      PROVE  Out /\ In /\ Cleared
  <2> DEFINE taken(r) == rawRequest[sessionOf(t)] = r
             ignored == resp[sessionOf(t)].word = "IGNORE"
  <2>1. /\ \A r \in Requests : thread'[r] = "none" <=> thread[r] = "none"
        /\ \A r \in Requests : r # t => thread'[r] = thread[r]
    BY <1>0, <1>6, TakeMoves
  <2>2. \A r \in Requests : Letters(r)' = Letters(r)
    BY <1>6, TakeMoves DEF Letters
  <2>3. ASSUME NEW r \in Requests
        PROVE  /\ taken(r) /\ ignored => freed'[r] = freed[r] + 1
               /\ ~(taken(r) /\ ignored) => (Somewhere(r) => Somewhere(r)') /\ freed'[r] = freed[r]
               /\ InSession(r)' => InSession(r)
    BY <1>6, <2>2, TakeMoves DEF Somewhere
  <2>4. ~InSession(t)'
    BY <1>0, <1>6, TakeMoves DEF InSession
  <2>5. Out /\ In
    BY <1>0, <2>1, <2>3, <2>4
  <2>6. Cleared
    <3>1. \A r \in Requests : freed'[r] \in Nat /\ freed'[r] >= freed[r]
      BY <1>0, <2>3
    <3>2. \A s \in Sessions : rawRequest'[s] \in {rawRequest[s], None}
      BY <1>0, <1>6, TakeMoves
    <3>3. QED
      BY <1>2, <1>6, <3>1, <3>2, TakeMoves
  <2>7. QED
    BY <2>5, <2>6
<1>7. ASSUME NEW t \in Requests, Finish(t)
      PROVE  Out /\ In /\ Cleared
  <2>1. /\ \A r \in Requests : thread'[r] = "none" <=> thread[r] = "none"
        /\ \A r \in Requests : thread'[r] \in Waiting <=> thread[r] \in Waiting
    BY <1>0, <1>7, FinishMoves
  <2>2. \A r \in Requests : InSession(r)' <=> InSession(r)
    BY <1>7, FinishMoves DEF InSession
  <2>3. ASSUME NEW r \in Requests
        PROVE  Somewhere(r)' <=> Somewhere(r)
    BY <1>7, <2>2, FinishMoves DEF Somewhere
  <2>4. Out /\ In
    BY <1>7, <2>1, <2>2, <2>3, FinishMoves
  <2>5. Cleared
    BY <1>0, <1>2, <1>7, FinishMoves
  <2>6. QED
    BY <2>4, <2>5
<1>8. CASE Inform
  <2> DEFINE told(r) == Head(queue).request = r
  <2>1. \A r \in Requests : (InSession(r)' <=> InSession(r)) /\ Holders(r)' = Holders(r)
    BY <1>8, InformMoves DEF InSession, Holders
  <2>2. ASSUME NEW r \in Requests
        PROVE  /\ told(r) => freed'[r] = freed[r] + 1
               /\ ~told(r) => (Somewhere(r)' <=> Somewhere(r)) /\ freed'[r] = freed[r]
    BY <1>8, <2>1, InformMoves DEF Somewhere
  <2>3. Out /\ In
    BY <1>0, <1>8, <2>1, <2>2, InformMoves
  <2>4. Cleared
    <3>1. \A r \in Requests : freed'[r] \in Nat /\ freed'[r] >= freed[r]
      BY <1>0, <2>2
    <3>2. QED
      BY <1>0, <1>2, <1>8, <3>1, InformMoves
  <2>5. QED
    BY <2>3, <2>4
\* the reset looks, frees what it finds then, and forgets what it finds after that
<1>9. ASSUME NEW s \in Sessions, ResetCheck(s) \/ ResetSignal(s)
      PROVE  Out /\ In /\ Cleared
  <2>1. UNCHANGED <<rawRequest, held, queue, thread, freed>>
    BY <1>9 DEF ResetCheck, ResetSignal, session, ghosts
  <2>2. \A u \in Sessions : ~At(u, "clear")'
    BY <1>9 DEF ResetCheck, ResetSignal, GoTo, GoOn, At, Idle
  <2>3. QED
    BY <1>0, <1>1, <2>1, <2>2
<1>10. ASSUME NEW s \in Sessions, ResetFree(s)
       PROVE  Out /\ In /\ Cleared
  <2>1. /\ UNCHANGED <<rawRequest, held, queue, thread>>
        /\ Free(rawRequest[s])
        /\ mt' = [at |-> "clear", of |-> s]
    BY <1>10 DEF ResetFree, GoTo, session
  <2>2. /\ \A r \in Requests : freed'[r] \in Nat /\ freed'[r] >= freed[r]
        /\ rawRequest[s] # None => freed'[rawRequest[s]] > 0
    BY <1>0, <2>1 DEF Free
  <2>3. \A u \in Sessions : At(u, "clear")' => u = s
    BY <2>1 DEF At
  <2>4. QED
    BY <1>0, <1>1, <2>1, <2>2, <2>3
<1>11. ASSUME NEW s \in Sessions, ResetClear(s)
       PROVE  Out /\ In /\ Cleared
  <2>1. /\ rawRequest' = [rawRequest EXCEPT ![s] = None]
        /\ UNCHANGED <<held, queue, thread, freed>>
        /\ At(s, "clear")
        /\ mt' = [at |-> "signal", of |-> s]
    BY <1>11 DEF ResetClear, GoTo, ghosts
  <2>2. \A r \in Requests : InSession(r)' => InSession(r)
    BY <1>0, <2>1 DEF InSession
  <2>3. \A r \in Requests : InSession(r) /\ ~InSession(r)' => freed[r] > 0
    BY <1>0, <2>1 DEF InSession
  <2>4. \A r \in Requests : Holders(r)' = Holders(r) /\ Letters(r)' = Letters(r)
    BY <2>1 DEF Holders, Letters
  <2>5. Out /\ In
    BY <2>1, <2>2, <2>3, <2>4 DEF Somewhere
  <2>6. Cleared
    BY <2>1 DEF At
  <2>7. QED
    BY <2>5, <2>6
<1>12. CASE EngineDown
  <2>1. UNCHANGED <<rawRequest, held, queue, thread, freed>>
    BY <1>12 DEF EngineDown, session
  <2>2. \A u \in Sessions : ~At(u, "clear")'
    BY <1>12 DEF EngineDown, GoTo, At
  <2>3. QED
    BY <1>0, <1>1, <2>1, <2>2
<1>13. ASSUME UNCHANGED <<rawRequest, held, queue, thread, freed, mt>>
       PROVE  Out /\ In /\ Cleared
  BY <1>0, <1>1, <1>2, <1>13
<1>14. Out /\ In /\ Cleared
  BY <1>3, <1>4, <1>5, <1>6, <1>7, <1>8, <1>9, <1>10, <1>11, <1>12, <1>13
     DEF Next, Runs, Reset, Respond, Override, SetResponse, vars, session, ghosts
<1>15. QED
  BY <1>14

\* When all threads have come to rest, the block of every request that came was freed,
\* unless its session keeps it for want of a thread (NothingLeaks); so it is when a
\* restart takes it away from the thread that is about to send it.
THEOREM NothingEverLeaks == Spec => []NothingLeaks
<1>1. SharedInv /\ LeakInv => NothingLeaks
  <2> SUFFICES ASSUME SharedInv, LeakInv, AtRest, NEW r \in Requests,
                      thread[r] # "none", freed[r] <= 0
               PROVE  thread[r] = "missing" /\ Kept(r) = 1
    BY DEF NothingLeaks, SharedInv, TypeOK
  <2>1. Holders(r) = {}
    BY DEF SharedInv, HeldInv, AtRest, Holders
  <2>2. Letters(r) = {}
    BY DEF AtRest, Letters, LettersIn
  <2>3. InSession(r)
    BY <2>1, <2>2 DEF LeakInv, Somewhere, SharedInv, TypeOK
  <2>4. QED
    BY <2>3 DEF LeakInv, AtRest, Kept, InSession, Waiting
<1>2. QED
  BY <1>1, SharedInit, SharedStep, LeakInit, LeakStep, PTL DEF Spec
=============================================================================
