------------------------- MODULE RilRequestsProofs -------------------------
(***************************************************************************)
(* For any number of vendor threads, requests and lives of the telephony   *)
(* process: the variables have their types, a live process that has        *)
(* registered keeps its callbacks, and no request is answered twice.       *)
(*                                                                         *)
(* A thread that is about to reset the callbacks may have noted its        *)
(* counter long ago; what makes it safe is that a counter that is still    *)
(* the same means callbacks that are still the ones that failed.           *)
(* A request has one answer because the thread that has an answer under    *)
(* way took the request off the list, or was the one to refuse it.         *)
(* The rwlock counts its readers rightly until an error answer, and until  *)
(* then no callback is reset under a thread that has tested it.            *)
(***************************************************************************)
EXTENDS RilRequests, FiniteSetTheorems, TLAPS

\* What a thread knows that waits to reset the callbacks.
ResetInv ==
  \A t \in Threads : at[t] = "reset" =>
    /\ seen[t] <= counter
    /\ seen[t] = counter => callback = 0 \/ ~(alive /\ callback = client)

KeptInv == TypeOK /\ ResetInv /\ LiveClientIsKept

\* Thread t has the answer to r under way.
Pending(t, r) ==
  /\ at[t] \in {"lock", "test", "call"}
  /\ job[t] = [kind |-> "answer", request |-> r]

\* The answer under way is the first, and the only one.
PendingInv ==
  /\ \A t \in Threads, r \in Requests : Pending(t, r) =>
       /\ answers[r] = 0
       /\ IF t = Binder THEN r \in refused ELSE r \in given \ list
  /\ \A t, u \in Threads, r \in Requests : Pending(t, r) /\ Pending(u, r) => t = u

\* A request that can still get an answer has none.
OpenInv ==
  /\ given \cap refused = {}
  /\ \A r \in Requests : r \notin given \ list /\ r \notin refused => answers[r] = 0

AnswerInv == TypeOK /\ PendingInv /\ OpenInv /\ OneAnswer

-----------------------------------------------------------------------------
(* Types                                                                   *)

LEMMA TypeInit == Init => TypeOK
<1> SUFFICES ASSUME Init
             PROVE  TypeOK
  OBVIOUS
<1>1. client \in 0..MaxClients /\ registered \in 0..client /\ counter \in Nat /\ readers \in Nat
  BY PartiesAssumption DEF Init
<1>2. answers \in [Requests -> Nat] /\ seen \in [Threads -> Nat] /\ at \in [Threads -> Stages]
  BY DEF Init, Stages
<1>3. job \in [Threads -> [kind : Kinds, request : Requests \cup {None}]]
  BY DEF Init, Kinds, Idle
<1>4. QED
  BY <1>1, <1>2, <1>3 DEF Init, TypeOK

LEMMA TypeStep == TypeOK /\ [Next]_vars => TypeOK'
<1> SUFFICES ASSUME TypeOK, [Next]_vars
             PROVE  TypeOK'
  OBVIOUS
<1> USE PartiesAssumption
<1> USE DEF TypeOK, Threads, Stages, Kinds, Idle, Connected, Goes, clients, lists
<1>1. CASE ClientStarts
  BY <1>1 DEF ClientStarts
<1>2. CASE ClientDies
  BY <1>2 DEF ClientDies
<1>3. CASE SetResponseFunctions
  BY <1>3 DEF SetResponseFunctions
<1>4. ASSUME NEW r \in Requests, Dispatch(r)
      PROVE  TypeOK'
  BY <1>4 DEF Dispatch, Asks
<1>5. ASSUME NEW r \in Requests, Refuse(r)
      PROVE  TypeOK'
  BY <1>5 DEF Refuse, Asks
<1>6. ASSUME NEW t \in Vendors, Indicate(t)
      PROVE  TypeOK'
  BY <1>6 DEF Indicate
<1>7. ASSUME NEW t \in Vendors, NEW r \in Requests, Ack(t, r)
      PROVE  TypeOK'
  BY <1>7 DEF Ack, MayCall
<1>8. ASSUME NEW t \in Vendors, NEW r \in Requests, Complete(t, r)
      PROVE  TypeOK'
  BY <1>8 DEF Complete, MayCall
<1>9. CASE UNCHANGED vars
  BY <1>9 DEF vars
<1>10. ASSUME NEW t \in Threads, Lock(t)
       PROVE  TypeOK'
  BY <1>10 DEF Lock
<1>11. ASSUME NEW t \in Threads, Test(t)
       PROVE  TypeOK'
  BY <1>11 DEF Test, Return
<1>12. ASSUME NEW t \in Threads, CallUp(t)
       PROVE  TypeOK'
  BY <1>12 DEF CallUp, Return, Unlocked
<1>13. ASSUME NEW t \in Threads, Reset(t)
       PROVE  TypeOK'
  BY <1>13 DEF Reset
<1>14. ASSUME NEW t \in Threads, Relock(t)
       PROVE  TypeOK'
  BY <1>14 DEF Relock, Return
<1>15. ASSUME NEW t \in Threads, Unlock(t)
       PROVE  TypeOK'
  BY <1>15 DEF Unlock, Unlocked
<1>16. ASSUME NEW t \in Threads, UnlockConnected(t)
       PROVE  TypeOK'
  BY <1>16 DEF UnlockConnected, Unlocked
<1>17. QED
  BY <1>1, <1>2, <1>3, <1>4, <1>5, <1>6, <1>7, <1>8, <1>9, <1>10, <1>11,
     <1>12, <1>13, <1>14, <1>15, <1>16 DEF Next, CallsUp, CompleteInvalid

\* Every variable has its type (TypeOK), at every point of ril.cpp's and
\* ril_service.cpp's threads.
THEOREM TypeCorrect == Spec => []TypeOK
BY TypeInit, TypeStep, PTL DEF Spec

-----------------------------------------------------------------------------
(* A process that lives keeps its callbacks                                *)

LEMMA KeptInit == Init => KeptInv
BY TypeInit DEF Init, KeptInv, ResetInv, LiveClientIsKept

LEMMA KeptStep == KeptInv /\ [Next]_vars => KeptInv'
<1> SUFFICES ASSUME KeptInv, [Next]_vars
             PROVE  ResetInv' /\ LiveClientIsKept'
  BY TypeStep DEF KeptInv
<1> USE PartiesAssumption
<1> USE DEF KeptInv, TypeOK, ResetInv, LiveClientIsKept, Goes, clients, lists
<1> DEFINE Kept == ResetInv' /\ LiveClientIsKept'
\* callbacks that failed are not those of a process that has yet to register
<1>1. CASE ClientStarts
  BY <1>1 DEF ClientStarts
<1>2. CASE ClientDies
  BY <1>2 DEF ClientDies
\* a registration moves the counter on
<1>3. CASE SetResponseFunctions
  BY <1>3 DEF SetResponseFunctions
<1>4. ASSUME NEW r \in Requests, Dispatch(r) \/ Refuse(r)
      PROVE  Kept
  BY <1>4 DEF Dispatch, Refuse, Asks, Threads
<1>5. ASSUME NEW t \in Vendors, Indicate(t)
      PROVE  Kept
  BY <1>5 DEF Indicate, Threads
<1>6. ASSUME NEW t \in Vendors, NEW r \in Requests, Ack(t, r) \/ Complete(t, r)
      PROVE  Kept
  BY <1>6 DEF Ack, Complete, MayCall, Threads
<1>7. CASE UNCHANGED vars
  BY <1>7 DEF vars
<1>8. ASSUME NEW t \in Threads, Lock(t) \/ Test(t) \/ Relock(t) \/ UnlockConnected(t) \/ Unlock(t)
      PROVE  Kept
  BY <1>8 DEF Lock, Test, Relock, UnlockConnected, Unlock, Return
\* the counter is noted under the lock under which the call failed
<1>9. ASSUME NEW t \in Threads, CallUp(t)
      PROVE  Kept
  BY <1>9 DEF CallUp, Return
<1>10. ASSUME NEW t \in Threads, Reset(t)
       PROVE  Kept
  <2>1. CASE counter = seen[t]
    BY <1>10, <2>1 DEF Reset
  <2>2. CASE counter # seen[t]
    BY <1>10, <2>2 DEF Reset
  <2>3. QED
    BY <2>1, <2>2
<1>11. QED
  BY <1>1, <1>2, <1>3, <1>4, <1>5, <1>6, <1>7, <1>8, <1>9, <1>10
     DEF Next, CallsUp, CompleteInvalid

\* checkReturnStatus never resets the callbacks of a process that lives and has
\* registered (LiveClientIsKept), however late the failed call is.
THEOREM LiveClientAlwaysKept == Spec => []LiveClientIsKept
<1>1. KeptInv => LiveClientIsKept
  BY DEF KeptInv
<1>2. QED
  BY <1>1, KeptInit, KeptStep, PTL DEF Spec

-----------------------------------------------------------------------------
(* A request is answered once                                              *)

LEMMA AnswerInit == Init => AnswerInv
BY TypeInit DEF Init, AnswerInv, PendingInv, Pending, OpenInv, OneAnswer

LEMMA AnswerStep == AnswerInv /\ [Next]_vars => AnswerInv'
<1> SUFFICES ASSUME AnswerInv, [Next]_vars
             PROVE  PendingInv' /\ OpenInv' /\ OneAnswer'
  BY TypeStep DEF AnswerInv
<1> USE PartiesAssumption
<1> USE DEF AnswerInv, TypeOK, PendingInv, Pending, OpenInv, OneAnswer, Goes,
            clients, lists, Threads, Idle, Connected
<1> DEFINE Once == PendingInv' /\ OpenInv' /\ OneAnswer'
<1>1. CASE ClientStarts \/ ClientDies
  BY <1>1 DEF ClientStarts, ClientDies
<1>2. CASE SetResponseFunctions
  BY <1>2 DEF SetResponseFunctions
\* a request that goes down has no answer, and none under way
<1>3. ASSUME NEW r \in Requests, Dispatch(r)
      PROVE  Once
  BY <1>3 DEF Dispatch, Asks
<1>4. ASSUME NEW r \in Requests, Refuse(r)
      PROVE  Once
  BY <1>4 DEF Refuse, Asks
<1>5. ASSUME NEW t \in Vendors, Indicate(t)
      PROVE  Once
  BY <1>5 DEF Indicate
<1>6. ASSUME NEW t \in Vendors, NEW r \in Requests, Ack(t, r)
      PROVE  Once
  BY <1>6 DEF Ack, MayCall
\* whoever takes the request off the list is the first and the last to do so
<1>7. ASSUME NEW t \in Vendors, NEW r \in Requests, Complete(t, r)
      PROVE  Once
  BY <1>7 DEF Complete, MayCall
<1>8. CASE UNCHANGED vars
  BY <1>8 DEF vars
<1>9. ASSUME NEW t \in Threads,
             \/ Lock(t) \/ Test(t) \/ Reset(t) \/ Relock(t)
             \/ UnlockConnected(t) \/ Unlock(t)
      PROVE  Once
  BY <1>9 DEF Lock, Test, Reset, Relock, UnlockConnected, Unlock, Return
<1>10. ASSUME NEW t \in Threads, CallUp(t)
       PROVE  Once
  BY <1>10 DEF CallUp, Return
<1>11. QED
  BY <1>1, <1>2, <1>3, <1>4, <1>5, <1>6, <1>7, <1>8, <1>9, <1>10
     DEF Next, CallsUp, CompleteInvalid

\* No request is answered twice (OneAnswer), however often the vendor library
\* completes it, because checkAndDequeueRequestInfoIfAck finds it once.
THEOREM AtMostOneAnswer == Spec => []OneAnswer
<1>1. AnswerInv => OneAnswer
  BY DEF AnswerInv
<1>2. QED
  BY <1>1, AnswerInit, AnswerStep, PTL DEF Spec

-----------------------------------------------------------------------------
(* The callbacks hold while they are called                                *)

Counted == IsFiniteSet(Holding) /\ readers = Cardinality(Holding)

\* Until the first error answer the readers are counted, and who has tested a callback finds
\* it when it calls.
SafeInv ==
  refused = {} =>
    /\ Counted /\ ~Crashed
    /\ \A t \in Threads : at[t] = "call" => callback # 0
    /\ job[Binder].kind # "answer"

\* A thread that goes on from stage at[t] to stage s enters, leaves or stays.
LEMMA HoldingMoves ==
  ASSUME TypeOK, NEW t \in Threads, NEW s, Goes(t, s)
  PROVE  /\ s \in {"test", "call", "unlock"} => Holding' = Holding \cup {t}
         /\ s \notin {"test", "call", "unlock"} => Holding' = Holding \ {t}
BY DEF TypeOK, Goes, Holding

LEMMA Stays ==
  ASSUME Counted, Holding' = Holding, UNCHANGED readers
  PROVE  Counted'
BY DEF Counted

LEMMA Enters ==
  ASSUME Counted, NEW t \in Threads, t \notin Holding, Holding' = Holding \cup {t},
         readers' = readers + 1
  PROVE  Counted'
BY FS_AddElement DEF Counted

LEMMA Leaves ==
  ASSUME Counted, NEW t \in Holding, Holding' = Holding \ {t}, readers' = Unlocked
  PROVE  Counted'
<1>1. Cardinality(Holding) \in Nat /\ Cardinality(Holding) # 0
  BY FS_CardinalityType, FS_EmptySet DEF Counted
<1>2. readers' = readers - 1
  BY <1>1 DEF Counted, Unlocked
<1>3. QED
  BY <1>2, FS_RemoveElement DEF Counted

LEMMA SafeInit == Init => SafeInv
<1> SUFFICES ASSUME Init
             PROVE  SafeInv
  OBVIOUS
<1>1. Holding = {} /\ readers = 0 /\ ~Crashed
  BY DEF Init, Holding, Crashed
<1>2. Counted
  BY <1>1, FS_EmptySet DEF Counted
<1>3. job[Binder].kind # "answer" /\ \A t \in Threads : at[t] # "call"
  BY DEF Init, Threads, Idle
<1>4. QED
  BY <1>1, <1>2, <1>3 DEF SafeInv

LEMMA SafeStep == TypeOK /\ SafeInv /\ [Next]_vars => SafeInv'
<1> SUFFICES ASSUME TypeOK, SafeInv, [Next]_vars, refused' = {}
             PROVE  SafeInv'
  BY DEF SafeInv
<1> USE PartiesAssumption
<1> DEFINE Tested == \A t \in Threads : at[t] = "call" => callback # 0
<1>1. refused \subseteq refused'
  BY DEF Next, vars, clients, lists, CallsUp, ClientStarts, ClientDies, SetResponseFunctions,
         Dispatch, Refuse, Indicate, Ack, Complete, CompleteInvalid, Lock, Test, CallUp, Reset,
         Relock, UnlockConnected, Unlock
<1>2. Counted /\ ~Crashed /\ Tested /\ job[Binder].kind # "answer"
  BY <1>1 DEF SafeInv
<1>3. at \in [Threads -> Stages] /\ Binder \in Threads /\ Vendors \subseteq Threads
  BY DEF TypeOK, Threads
<1>4. ASSUME NEW t \in Threads
      PROVE  Return(t) = "unlock" /\ (at[t] \in {"test", "call", "unlock"} <=> t \in Holding)
  BY <1>2 DEF Return, Holding
\* What remains to be said of a thread that goes to a stage other than call.
<1>5. ASSUME NEW t \in Threads, NEW s, Goes(t, s), s \notin {"call", "dead"},
             UNCHANGED job \/ (\E j \in {Idle, Connected} : job' = [job EXCEPT ![t] = j])
               \/ \E v \in Vendors : \E j : job' = [job EXCEPT ![v] = j],
             callback # 0 => callback' # 0 \/ Holding = {}, Counted'
      PROVE  SafeInv'
  <2>1. ~Crashed'
    BY <1>2, <1>3, <1>5 DEF Crashed, Goes
  <2>2. Tested'
    BY <1>2, <1>3, <1>4, <1>5 DEF Goes
  <2>3. (job[Binder].kind # "answer")'
    BY <1>2, <1>5 DEF TypeOK, Idle, Connected, Threads
  <2>4. QED
    BY <1>5, <2>1, <2>2, <2>3 DEF SafeInv
<1>6. CASE UNCHANGED <<at, job, callback, readers>>
  BY <1>2, <1>6 DEF SafeInv, Counted, Crashed, Holding
<1>7. CASE SetResponseFunctions
  <2>1. /\ Goes(Binder, "lock") /\ at[Binder] = "idle" /\ UNCHANGED readers
        /\ job' = [job EXCEPT ![Binder] = Connected] /\ callback' # 0
    BY <1>7 DEF SetResponseFunctions, TypeOK
  <2>2. Holding' = Holding
    BY <1>3, <1>4, <2>1, HoldingMoves
  <2>3. QED
    BY <1>2, <1>3, <1>5, <2>1, <2>2, Stays
<1>8. ASSUME NEW t \in Vendors, NEW j, at[t] = "idle", Goes(t, "lock"),
             job' = [job EXCEPT ![t] = j], UNCHANGED <<callback, readers>>
      PROVE  SafeInv'
  <2>1. Holding' = Holding
    BY <1>3, <1>4, <1>8, HoldingMoves
  <2>2. QED
    BY <1>2, <1>3, <1>5, <1>8, <2>1, Stays
<1>9. ASSUME NEW t \in Vendors, Indicate(t) \/ \E r \in Requests : Ack(t, r) \/ Complete(t, r)
      PROVE  SafeInv'
  <2>1. CASE Indicate(t)
    BY <1>8, <2>1 DEF Indicate
  <2>2. ASSUME NEW r \in Requests, Ack(t, r)
        PROVE  SafeInv'
    BY <1>8, <2>2 DEF Ack, MayCall
  <2>3. ASSUME NEW r \in Requests, Complete(t, r)
        PROVE  SafeInv'
    BY <1>8, <2>3 DEF Complete, MayCall
  <2>4. QED
    BY <1>9, <2>1, <2>2, <2>3
<1>10. ASSUME NEW t \in Threads, Lock(t)
       PROVE  SafeInv'
  <2>1. /\ Goes(t, "test") /\ at[t] = "lock" /\ readers' = readers + 1
        /\ UNCHANGED <<job, callback>>
    BY <1>10 DEF Lock
  <2>2. Counted'
    BY <1>2, <1>4, <2>1, HoldingMoves, Enters
  <2>3. QED
    BY <1>5, <2>1, <2>2
<1>11. ASSUME NEW t \in Threads, Test(t)
       PROVE  SafeInv'
  <2>1. at[t] = "test" /\ UNCHANGED <<job, callback, readers>>
    BY <1>11 DEF Test
  <2>2. CASE callback = 0
    <3>1. Goes(t, "unlock")
      BY <1>4, <1>11, <2>2 DEF Test
    <3>2. Holding' = Holding
      BY <1>4, <2>1, <3>1, HoldingMoves
    <3>3. QED
      BY <1>2, <1>5, <2>1, <3>1, <3>2, Stays
  <2>3. CASE callback # 0
    <3>1. Goes(t, "call")
      BY <1>11, <2>3 DEF Test
    <3>2. Holding' = Holding
      BY <1>4, <2>1, <3>1, HoldingMoves
    <3>3. Counted' /\ ~Crashed'
      BY <1>2, <1>3, <2>1, <3>1, <3>2, Stays DEF Crashed, Goes
    <3>4. QED
      BY <1>2, <2>1, <2>3, <3>3 DEF SafeInv
  <2>4. QED
    BY <2>2, <2>3
<1>12. ASSUME NEW t \in Threads, CallUp(t)
       PROVE  SafeInv'
  <2>1. at[t] = "call" /\ callback # 0 /\ UNCHANGED <<job, callback>>
    BY <1>2, <1>12 DEF CallUp
  <2>2. CASE Goes(t, "unlock") /\ UNCHANGED readers
    <3>1. Holding' = Holding
      BY <1>4, <2>1, <2>2, HoldingMoves
    <3>2. QED
      BY <1>2, <1>5, <2>1, <2>2, <3>1, Stays
  <2>3. CASE Goes(t, "reset") /\ readers' = Unlocked
    <3>1. Counted'
      BY <1>2, <1>4, <2>1, <2>3, HoldingMoves, Leaves
    <3>2. QED
      BY <1>5, <2>1, <2>3, <3>1
  <2>4. QED
    BY <1>4, <1>12, <2>1, <2>2, <2>3 DEF CallUp
<1>13. ASSUME NEW t \in Threads, Reset(t)
       PROVE  SafeInv'
  <2>1. Goes(t, "relock") /\ at[t] = "reset" /\ UNCHANGED <<job, readers>> /\ readers = 0
    BY <1>13 DEF Reset
  <2>2. Holding = {}
    BY <1>2, <2>1, FS_EmptySet DEF Counted
  <2>3. Holding' = Holding
    BY <1>4, <2>1, HoldingMoves
  <2>4. QED
    BY <1>2, <1>5, <2>1, <2>2, <2>3, Stays
<1>14. ASSUME NEW t \in Threads, Relock(t)
       PROVE  SafeInv'
  <2>1. /\ Goes(t, "unlock") /\ at[t] = "relock" /\ readers' = readers + 1
        /\ UNCHANGED <<job, callback>>
    BY <1>4, <1>14 DEF Relock
  <2>2. Counted'
    BY <1>2, <1>4, <2>1, HoldingMoves, Enters
  <2>3. QED
    BY <1>5, <2>1, <2>2
<1>15. ASSUME NEW t \in Threads, Unlock(t)
       PROVE  SafeInv'
  <2>1. /\ Goes(t, "idle") /\ at[t] = "unlock" /\ readers' = Unlocked
        /\ UNCHANGED <<job, callback>>
    BY <1>15 DEF Unlock
  <2>2. Counted'
    BY <1>2, <1>4, <2>1, HoldingMoves, Leaves
  <2>3. QED
    BY <1>5, <2>1, <2>2
<1>16. ASSUME NEW t \in Threads, UnlockConnected(t)
       PROVE  SafeInv'
  <2>1. /\ Goes(t, "lock") /\ at[t] = "unlock" /\ readers' = Unlocked
        /\ job' = [job EXCEPT ![t] = Idle] /\ UNCHANGED callback
    BY <1>16 DEF UnlockConnected
  <2>2. Counted'
    BY <1>2, <1>4, <2>1, HoldingMoves, Leaves
  <2>3. QED
    BY <1>5, <2>1, <2>2
<1>17. ASSUME NEW r \in Requests, Refuse(r)
       PROVE  FALSE
  BY <1>17 DEF Refuse
<1>18. ASSUME ClientStarts \/ ClientDies \/ (\E r \in Requests : Dispatch(r)) \/ UNCHANGED vars
       PROVE  SafeInv'
  BY <1>6, <1>18 DEF ClientStarts, ClientDies, Dispatch, vars
<1>19. QED
  BY <1>7, <1>9, <1>10, <1>11, <1>12, <1>13, <1>14, <1>15, <1>16, <1>17, <1>18
     DEF Next, CallsUp, CompleteInvalid

\* As long as no error answer was sent, the readers of radioServiceRwlock are the threads
\* between their lock and their unlock, and no callback that was tested is reset before it
\* is called (CallsAreSafe).
THEOREM CallsAlwaysSafe == Spec => []CallsAreSafe
<1>1. SafeInv => CallsAreSafe
  BY DEF SafeInv, CallsAreSafe, Counted
<1>2. QED
  BY <1>1, TypeInit, TypeStep, SafeInit, SafeStep, PTL DEF Spec
=============================================================================
