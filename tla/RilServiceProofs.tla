--------------------------- MODULE RilServiceProofs --------------------------
(***************************************************************************)
(* For every set of versions of the vendor library and any number of NITZ  *)
(* messages: a request is answered once, and truly; its buffers are freed  *)
(* and nothing is called through NULL; what is converted is heard as it    *)
(* was given; and a NITZ message is told once. The facts about the tables  *)
(* are proved table by table, those about the plans from how a plan is     *)
(* built.                                                                  *)
(***************************************************************************)
EXTENDS RilService, SequenceTheorems, TLAPS

-----------------------------------------------------------------------------
(* A request is answered once                                              *)

RequestFields == {"method", "plan", "step", "held", "stage", "answers", "completed"}

\* A request has its answer when it is refused or completed, and not before.
Answered(r) ==
  /\ DOMAIN r = RequestFields
  /\ r.stage \in {"steps", "refused", "called", "returned"}
  /\ r.stage = "steps" => r.answers = 0 /\ r.completed = FALSE
  /\ r.stage = "refused" => r.answers = 1
  /\ r.stage \in {"called", "returned"} => r.answers = IF r.completed THEN 1 ELSE 0

AnswerInv == request = NoRequest \/ Answered(request)

LEMMA AnswerStep == AnswerInv /\ [Next]_vars => AnswerInv'
<1> SUFFICES ASSUME AnswerInv, [Next]_vars
             PROVE  AnswerInv'
  OBVIOUS
<1>1. ASSUME UNCHANGED request \/ request' = NoRequest
      PROVE  AnswerInv'
  BY <1>1 DEF AnswerInv
<1>2. ASSUME NEW m \in Methods, Ask(m)
      PROVE  AnswerInv'
  <2>1. PICK plan : request' = [method |-> m, plan |-> plan, step |-> 1, held |-> {},
                                stage |-> "steps", answers |-> 0, completed |-> FALSE]
    BY <1>2 DEF Ask
  <2>2. Answered(request')
    BY <2>1 DEF Answered, RequestFields
  <2>3. QED
    BY <2>2 DEF AnswerInv
<1>3. CASE StepPasses
  BY <1>3 DEF StepPasses, InSteps, AnswerInv, Answered, RequestFields
<1>4. CASE StepFails
  BY <1>4 DEF StepFails, InSteps, AnswerInv, Answered, RequestFields
<1>5. CASE CallOnRequest
  BY <1>5 DEF CallOnRequest, InSteps, AnswerInv, Answered, RequestFields
<1>6. CASE Return
  BY <1>6 DEF Return, AnswerInv, Answered, RequestFields
<1>7. CASE Complete
  BY <1>7 DEF Complete, AnswerInv, Answered, RequestFields
<1>8. CASE Forget \/ Restart
  BY <1>1, <1>8 DEF Forget, Restart
<1>9. CASE \/ \E m \in Methods : AskWithoutMemory(m)
           \/ SetResponseFunctions \/ SetOemResponseFunctions
           \/ \E u \in DOMAIN UnsolResponses : Indicate(u)
           \/ AnswerOfNoIntegers \/ IndicateKeepalive
           \/ NitzReceived \/ KeepFrees \/ KeepCopies \/ Look
           \/ ResendTells \/ ResendFrees \/ UNCHANGED vars
  <2>1. UNCHANGED request
    BY <1>9 DEF AskWithoutMemory, SetResponseFunctions, SetOemResponseFunctions, Indicate,
         AnswerOfNoIntegers, IndicateKeepalive, NitzReceived, KeepFrees,
         KeepCopies, Look, ResendTells, ResendFrees, vars
  <2>2. QED
    BY <1>1, <2>1
<1>10. QED
  BY <1>2, <1>3, <1>4, <1>5, <1>6, <1>7, <1>8, <1>9 DEF Next

\* A request is answered once, whether it is refused at one of its steps (sendErrorResponse)
\* or completed by the vendor (RIL_onRequestComplete): OneAnswer.
THEOREM AtMostOneAnswer == Spec => []OneAnswer
<1>1. Init => AnswerInv
  BY DEF Init, AnswerInv
<1>2. AnswerInv => OneAnswer
  BY DEF AnswerInv, Answered, OneAnswer, NoRequest, Over
<1>3. QED
  BY <1>1, <1>2, AnswerStep, PTL DEF Spec

-----------------------------------------------------------------------------
(* NITZ                                                                    *)

\* The messages that were told, the one that is kept for the next client and the one that is
\* about to be kept are different messages, all received; but what is kept has been told
\* when it is about to be freed.
NitzInv ==
  /\ time \in Nat /\ kept \in 0..time /\ keeping \in 0..time
  /\ nitzTold \in Seq(Nat \X Nat)
  /\ \A i \in DOMAIN nitzTold :
       /\ nitzTold[i][1] \in 1..time /\ nitzTold[i][1] # keeping
       /\ nitzTold[i][1] = kept => connecting \in {"free", "failed"}
  /\ keeping # 0 => keeping # kept
  /\ \A i, j \in DOMAIN nitzTold : nitzTold[i][1] = nitzTold[j][1] => i = j

\* A message is told that was not told before.
LEMMA ToldOnce ==
  ASSUME NitzInv, NEW n \in Nat, NEW at \in Nat, \A i \in DOMAIN nitzTold : nitzTold[i][1] # n,
         nitzTold' = Append(nitzTold, <<n, at>>)
  PROVE  /\ nitzTold' \in Seq(Nat \X Nat)
         /\ \A i \in DOMAIN nitzTold' :
              nitzTold'[i][1] = n \/ \E j \in DOMAIN nitzTold : nitzTold'[i][1] = nitzTold[j][1]
         /\ \A i, j \in DOMAIN nitzTold' : nitzTold'[i][1] = nitzTold'[j][1] => i = j
<1>1. /\ nitzTold \in Seq(Nat \X Nat) /\ Len(nitzTold) \in Nat
      /\ DOMAIN nitzTold = 1..Len(nitzTold)
  BY DEF NitzInv
<1>2. /\ nitzTold' \in Seq(Nat \X Nat) /\ DOMAIN nitzTold' = 1..(Len(nitzTold) + 1)
      /\ \A i \in DOMAIN nitzTold : nitzTold'[i] = nitzTold[i]
      /\ nitzTold'[Len(nitzTold) + 1] = <<n, at>>
  BY <1>1
<1>3. \A i \in DOMAIN nitzTold' : i = Len(nitzTold) + 1 \/ i \in DOMAIN nitzTold
  BY <1>1, <1>2
<1>4. nitzTold'[Len(nitzTold) + 1][1] = n
  BY <1>2
<1>5. ASSUME NEW i \in DOMAIN nitzTold
      PROVE  nitzTold'[i][1] = nitzTold[i][1] /\ nitzTold'[i][1] # n
  BY <1>2
<1>6. \A i \in DOMAIN nitzTold' :
        nitzTold'[i][1] = n \/ \E j \in DOMAIN nitzTold : nitzTold'[i][1] = nitzTold[j][1]
  BY <1>3, <1>4, <1>5
<1>7. ASSUME NEW i \in DOMAIN nitzTold', NEW j \in DOMAIN nitzTold',
             nitzTold'[i][1] = nitzTold'[j][1]
      PROVE  i = j
  <2>1. CASE i \in DOMAIN nitzTold /\ j \in DOMAIN nitzTold
    <3>1. nitzTold[i][1] = nitzTold[j][1]
      BY <1>5, <1>7, <2>1
    <3>2. QED
      BY <2>1, <3>1 DEF NitzInv
  <2>2. CASE i = Len(nitzTold) + 1 /\ j \in DOMAIN nitzTold
    BY <1>4, <1>5, <1>7, <2>2
  <2>3. CASE i \in DOMAIN nitzTold /\ j = Len(nitzTold) + 1
    BY <1>4, <1>5, <1>7, <2>3
  <2>4. QED
    BY <1>3, <2>1, <2>2, <2>3
<1>8. QED
  BY <1>2, <1>6, <1>7

LEMMA NitzStep == NitzInv /\ [Next]_vars => NitzInv'
<1> SUFFICES ASSUME NitzInv, [Next]_vars
             PROVE  NitzInv'
  OBVIOUS
<1>1. ASSUME UNCHANGED nitz
      PROVE  NitzInv'
  BY <1>1 DEF NitzInv, nitz
<1>2. CASE NitzReceived
  <2>1. time' = time + 1 /\ keeping = 0 /\ UNCHANGED <<kept, connecting>>
    BY <1>2 DEF NitzReceived
  <2>2. CASE nitzTold' = Append(nitzTold, <<time', time'>>) /\ UNCHANGED keeping
    <3>1. time' \in Nat /\ \A i \in DOMAIN nitzTold : nitzTold[i][1] # time'
      BY <2>1 DEF NitzInv
    <3>2. /\ nitzTold' \in Seq(Nat \X Nat)
          /\ \A i \in DOMAIN nitzTold' :
               \/ nitzTold'[i][1] = time'
               \/ \E j \in DOMAIN nitzTold : nitzTold'[i][1] = nitzTold[j][1]
          /\ \A i, j \in DOMAIN nitzTold' : nitzTold'[i][1] = nitzTold'[j][1] => i = j
      BY <2>2, <3>1, ToldOnce
    <3>3. time' \in Nat /\ kept' \in 0..time' /\ kept' # time' /\ keeping' = 0
      BY <2>1, <2>2 DEF NitzInv
    <3>4. ASSUME NEW i \in DOMAIN nitzTold'
          PROVE  /\ nitzTold'[i][1] \in 1..time' /\ nitzTold'[i][1] # keeping'
                 /\ nitzTold'[i][1] = kept' => connecting' \in {"free", "failed"}
      <4>1. CASE nitzTold'[i][1] = time'
        BY <2>1, <3>3, <4>1 DEF NitzInv
      <4>2. CASE \E j \in DOMAIN nitzTold : nitzTold'[i][1] = nitzTold[j][1]
        BY <2>1, <3>3, <4>2 DEF NitzInv
      <4>3. QED
        BY <3>2, <4>1, <4>2
    <3>5. QED
      BY <3>2, <3>3, <3>4 DEF NitzInv
  <2>3. CASE UNCHANGED nitzTold /\ keeping' \in {keeping, time'}
    BY <2>1, <2>3 DEF NitzInv
  <2>4. QED
    BY <1>2, <2>2, <2>3 DEF NitzReceived, TellNitz
<1>3. CASE KeepFrees \/ KeepCopies
  BY <1>3 DEF KeepFrees, KeepCopies, NitzInv
<1>4. CASE Look \/ ResendFrees
  BY <1>4 DEF Look, ResendFrees, NitzInv
<1>5. CASE ResendTells
  <2>1. connecting = "resend" /\ UNCHANGED <<time, kept, keeping>>
    BY <1>5 DEF ResendTells
  <2>2. CASE /\ kept # 0 /\ nitzTold' = Append(nitzTold, <<kept, time'>>)
             /\ connecting' \in {"free", "failed"}
    <3>1. /\ kept \in Nat /\ time' \in Nat /\ keeping' \in 0..time'
          /\ \A i \in DOMAIN nitzTold : nitzTold[i][1] # kept
      BY <2>1 DEF NitzInv
    <3>2. /\ nitzTold' \in Seq(Nat \X Nat)
          /\ \A i \in DOMAIN nitzTold' :
               nitzTold'[i][1] = kept \/ \E j \in DOMAIN nitzTold : nitzTold'[i][1] = nitzTold[j][1]
          /\ \A i, j \in DOMAIN nitzTold' : nitzTold'[i][1] = nitzTold'[j][1] => i = j
      BY <2>2, <3>1, ToldOnce
    <3>3. kept \in 1..time' /\ keeping' # kept
      BY <2>1, <2>2 DEF NitzInv
    <3>4. ASSUME NEW i \in DOMAIN nitzTold'
          PROVE  nitzTold'[i][1] \in 1..time' /\ nitzTold'[i][1] # keeping'
      <4>1. CASE nitzTold'[i][1] = kept
        BY <3>3, <4>1
      <4>2. CASE \E j \in DOMAIN nitzTold : nitzTold'[i][1] = nitzTold[j][1]
        BY <2>1, <4>2 DEF NitzInv
      <4>3. QED
        BY <3>2, <4>1, <4>2
    <3>5. kept' \in 0..time' /\ (keeping' # 0 => keeping' # kept')
      BY <2>1 DEF NitzInv
    <3>6. QED
      BY <2>2, <3>1, <3>2, <3>4, <3>5 DEF NitzInv
  <2>3. CASE UNCHANGED nitzTold
    BY <2>1, <2>3 DEF NitzInv
  <2>4. QED
    BY <1>5, <2>2, <2>3 DEF ResendTells, TellNitz
<1>6. CASE Restart \/ SetResponseFunctions
  <2>1. /\ kept' \in {0, kept} /\ keeping' \in {0, keeping} /\ UNCHANGED <<time, nitzTold>>
        /\ kept' # 0 => connecting = "no"
    BY <1>6 DEF Restart, SetResponseFunctions
  <2>2. kept' \in 0..time' /\ keeping' \in 0..time' /\ (keeping' # 0 => keeping' # kept')
    BY <2>1 DEF NitzInv
  <2>3. ASSUME NEW i \in DOMAIN nitzTold
        PROVE  /\ nitzTold[i][1] \in 1..time' /\ nitzTold[i][1] # keeping'
               /\ nitzTold[i][1] # kept'
    <3>1. nitzTold[i][1] \in 1..time /\ nitzTold[i][1] # keeping /\ nitzTold[i][1] # 0
      BY DEF NitzInv
    <3>2. kept' # 0 => nitzTold[i][1] # kept
      BY <2>1 DEF NitzInv
    <3>3. QED
      BY <2>1, <3>1, <3>2
  <2>4. QED
    BY <2>1, <2>2, <2>3 DEF NitzInv
<1>7. CASE \/ \E m \in Methods : Ask(m) \/ AskWithoutMemory(m)
           \/ StepPasses \/ StepFails \/ CallOnRequest \/ Return \/ Complete \/ Forget
           \/ SetOemResponseFunctions
           \/ \E u \in DOMAIN UnsolResponses : Indicate(u)
           \/ AnswerOfNoIntegers \/ IndicateKeepalive \/ UNCHANGED vars
  <2>1. UNCHANGED nitz
    BY <1>7 DEF Ask, AskWithoutMemory, StepPasses, StepFails, CallOnRequest, Return, Complete,
         Forget, SetOemResponseFunctions, Indicate, AnswerOfNoIntegers, IndicateKeepalive, vars
  <2>2. QED
    BY <1>1, <2>1
<1>8. QED
  BY <1>2, <1>3, <1>4, <1>5, <1>6, <1>7 DEF Next

\* No NITZ message is told twice, and none that never came (NitzOnce): what is kept in
\* s_lastNITZTimeData was not told, and it is freed when it is sent.
THEOREM NitzToldOnce == Spec => []NitzOnce
<1>1. Init => NitzInv
  BY DEF Init, NitzInv
<1>2. NitzInv => NitzOnce
  BY DEF NitzInv, NitzOnce
<1>3. QED
  BY <1>1, <1>2, NitzStep, PTL DEF Spec

-----------------------------------------------------------------------------
(* The plans                                                               *)

\* The buffers a request has when it comes to a step.
Made(plan, step) == {i \in 1 .. step - 1 : plan.steps[i].makes}

\* Whatever step fails frees the buffers there are, and so does the end, but for the leaked.
Frees(plan, leaked) ==
  /\ Len(plan.steps) \in Nat
  /\ \A i \in 1 .. Len(plan.steps) :
       plan.steps[i].errors = {} \/ Made(plan, i) \subseteq plan.steps[i].frees \cup leaked
  /\ Made(plan, Len(plan.steps) + 1) \subseteq plan.after \cup leaked

Sound(plan) == plan.guarded /\ plan.code \in DOMAIN Commands /\ Frees(plan, {})

AllSound(plans) == \A plan \in plans : Sound(plan)

Carrier == "setCarrierInfoForImsiEncryption"

\* Every row of a table of requests is sound, but for the one that leaks.
TableSound(t) == \A m \in DOMAIN t : m # Carrier => AllSound(t[m])

\* The steps of a plan, given one by one.
LEMMA LenOfSteps ==
  ASSUME NEW n \in Nat, NEW S, NEW s \in [1 .. n -> S]
  PROVE  s \in Seq(S) /\ Len(s) = n
<1>1. s \in Seq(S)
  BY SeqDef
<1>2. Len(s) \in Nat /\ 1 .. Len(s) = 1 .. n
  BY <1>1, LenProperties
<1>3. QED
  BY <1>1, <1>2

\* A plan is sound when each step and the end free what the steps before it make.
LEMMA SoundPlan ==
  ASSUME NEW code \in DOMAIN Commands, NEW steps, NEW after, NEW n \in Nat, Len(steps) = n,
         \A i \in 1 .. n : \A j \in 1 .. i - 1 : steps[j].makes => j \in steps[i].frees,
         \A j \in 1 .. n : steps[j].makes => j \in after
  PROVE  Sound(Plan(code, steps, after))
<1> DEFINE plan == Plan(code, steps, after)
<1>1. plan.steps = steps /\ plan.after = after /\ plan.guarded /\ plan.code = code
  BY DEF Plan
<1>2. \A i \in 1 .. n : Made(plan, i) \subseteq steps[i].frees
  BY <1>1 DEF Made
<1>3. Made(plan, n + 1) \subseteq after
  BY <1>1 DEF Made
<1> HIDE DEF plan
<1>4. Sound(plan)
  BY <1>1, <1>2, <1>3 DEF Sound, Frees
<1>5. QED
  BY <1>4 DEF plan

\* dispatchVoid, dispatchString and dispatchInts.
LEMMA SmallPlans ==
  ASSUME NEW code \in DOMAIN Commands
  PROVE  AllSound(Void(code)) /\ AllSound(String(code)) /\ AllSound(Ints(code))
  BY DEF AllSound, Void, String, Ints, Sound, Frees, Made, Plan, Copy, Alloc, Step

\* dispatchStrings, however many strings there are.
LEMMA StringsPlans ==
  ASSUME NEW code \in DOMAIN Commands, NEW n \in Nat
  PROVE  AllSound(Strings(code, n))
<1> DEFINE steps == [i \in 1 .. n + 1 |-> IF i = 1 THEN Alloc({}) ELSE Copy(1 .. i - 1)]
<1>1. Len(steps) = n + 1
  <2>1. steps \in [1 .. n + 1 -> {steps[i] : i \in 1 .. n + 1}]
    OBVIOUS
  <2>2. QED
    BY <2>1, LenOfSteps
<1>2. \A i \in 1 .. n + 1 : \A j \in 1 .. i - 1 : j \in steps[i].frees
  BY DEF Copy, Alloc, Step
<1>3. Sound(Plan(code, steps, 1 .. n + 1))
  <2> HIDE DEF steps
  <2>1. QED
    BY <1>1, <1>2, SoundPlan
<1>4. QED
  BY <1>3 DEF AllSound, Strings

\* The methods that dispatch by hand.
LEMMA OwnPlans ==
  /\ AllSound(SimRequests["dial"])
  /\ AllSound(DataRequests["iccIOForApp"])
  /\ AllSound(NetworkRequests["startNetworkScan"])
  /\ AllSound(StkRequests["writeSmsToSim"])
  /\ AllSound(BroadcastRequests["setGsmBroadcastConfig"])
  /\ AllSound(BroadcastRequests["setCdmaBroadcastConfig"])
  /\ AllSound(UiccRequests["requestIccSimAuthentication"])
  /\ AllSound(CarrierRequests["setAllowedCarriers"])
  /\ AllSound(KeepaliveRequests["startKeepalive"])
<1> USE DEF AllSound, Sound, Frees, Made, Plan, Copy, Alloc, Check, Step, Commands
<1>1. AllSound(SimRequests["dial"])
  BY DEF SimRequests
<1>2. AllSound(DataRequests["iccIOForApp"])
  BY DEF DataRequests
<1>3. AllSound(NetworkRequests["startNetworkScan"])
  BY DEF NetworkRequests
<1>4. AllSound(StkRequests["writeSmsToSim"])
  BY DEF StkRequests
<1>5. AllSound(BroadcastRequests["setGsmBroadcastConfig"])
  BY DEF BroadcastRequests
<1>6. AllSound(BroadcastRequests["setCdmaBroadcastConfig"])
  BY DEF BroadcastRequests
<1>7. AllSound(UiccRequests["requestIccSimAuthentication"])
  BY DEF UiccRequests
<1>8. AllSound(CarrierRequests["setAllowedCarriers"])
  BY DEF CarrierRequests
<1>9. AllSound(KeepaliveRequests["startKeepalive"])
  BY DEF KeepaliveRequests
<1> HIDE DEF AllSound, Commands
<1>10. QED
  BY <1>1, <1>2, <1>3, <1>4, <1>5, <1>6, <1>7, <1>8, <1>9

LEMMA SendImsSmsIsSound == AllSound(SendImsSms)
<1> USE DEF Commands
<1>1. Sound(Plan("IMS_SEND_SMS", <<Check({}), Alloc({}), Copy({2}), Copy({2, 3})>>, 2 .. 4))
  BY DEF Sound, Frees, Made, Plan, Copy, Alloc, Check, Step
<1>2. Sound(Plan("IMS_SEND_SMS", <<Check({})>>, {}))
  BY DEF Sound, Frees, Made, Plan, Check, Step
<1>3. Sound(Refusal("IMS_SEND_SMS", "INVALID_ARGUMENTS", TRUE))
  BY DEF Sound, Frees, Made, Refusal, Step
<1>4. QED
  BY <1>1, <1>2, <1>3 DEF AllSound, SendImsSms

LEMMA RequestsAreSound == TableSound(Requests)
<1> DEFINE tables == {SimRequests, CallRequests, DataRequests, FacilityRequests, NetworkRequests,
                      StkRequests, CdmaRequests, BroadcastRequests, SmscRequests, ImsRequests,
                      NvRequests, UiccRequests, CarrierRequests, KeepaliveRequests, OemRequests}
<1> USE SmallPlans, StringsPlans DEF TableSound, Commands
<1>1. /\ TableSound(CallRequests) /\ TableSound(FacilityRequests) /\ TableSound(CdmaRequests)
      /\ TableSound(SmscRequests) /\ TableSound(ImsRequests) /\ TableSound(OemRequests)
  BY DEF CallRequests, FacilityRequests, CdmaRequests, SmscRequests, ImsRequests, OemRequests
<1>2. TableSound(SimRequests)
  <2>1. ASSUME NEW m \in DOMAIN SimRequests \ {"dial"}
        PROVE  AllSound(SimRequests[m])
    BY DEF SimRequests
  <2>2. QED
    BY <2>1, OwnPlans
<1>3. TableSound(DataRequests)
  <2>1. ASSUME NEW m \in DOMAIN DataRequests \ {"iccIOForApp"}
        PROVE  AllSound(DataRequests[m])
    BY DEF DataRequests
  <2>2. QED
    BY <2>1, OwnPlans
<1>4. TableSound(NetworkRequests)
  <2>1. ASSUME NEW m \in DOMAIN NetworkRequests \ {"startNetworkScan"}
        PROVE  AllSound(NetworkRequests[m])
    BY DEF NetworkRequests
  <2>2. QED
    BY <2>1, OwnPlans
<1>5. TableSound(StkRequests)
  <2>1. ASSUME NEW m \in DOMAIN StkRequests \ {"writeSmsToSim"}
        PROVE  AllSound(StkRequests[m])
    BY DEF StkRequests
  <2>2. QED
    BY <2>1, OwnPlans
<1>6. TableSound(BroadcastRequests)
  <2>1. ASSUME NEW m \in DOMAIN BroadcastRequests
                       \ {"setGsmBroadcastConfig", "setCdmaBroadcastConfig"}
        PROVE  AllSound(BroadcastRequests[m])
    BY DEF BroadcastRequests
  <2>2. QED
    BY <2>1, OwnPlans
<1>7. TableSound(UiccRequests)
  <2>1. ASSUME NEW m \in DOMAIN UiccRequests \ {"requestIccSimAuthentication"}
        PROVE  AllSound(UiccRequests[m])
    BY DEF UiccRequests
  <2>2. QED
    BY <2>1, OwnPlans
<1>8. TableSound(CarrierRequests)
  <2>1. ASSUME NEW m \in DOMAIN CarrierRequests \ {"setAllowedCarriers"}
        PROVE  AllSound(CarrierRequests[m])
    BY DEF CarrierRequests
  <2>2. QED
    BY <2>1, OwnPlans
<1>9. TableSound(KeepaliveRequests)
  <2>1. ASSUME NEW m \in DOMAIN KeepaliveRequests \ {"startKeepalive", Carrier}
        PROVE  AllSound(KeepaliveRequests[m])
    BY DEF KeepaliveRequests, Carrier
  <2>2. QED
    BY <2>1, OwnPlans
<1>10. TableSound(NvRequests)
  BY SendImsSmsIsSound DEF NvRequests
<1>11. ASSUME \A t \in tables : TableSound(t)
      PROVE  TableSound(Joined(tables))
  BY <1>11 DEF Joined
<1> HIDE DEF TableSound, Commands
<1>12. QED
  BY <1>1, <1>2, <1>3, <1>4, <1>5, <1>6, <1>7, <1>8, <1>9, <1>10, <1>11 DEF Requests

\* Before version 15 the two methods that do not look at what addRequestToList returns.
Unguarded(m, v) == m \in {"sendDeviceState", "setIndicationFilter"} /\ v < 15

\* What a method's requests may never free.
Leaked(m) == IF m = Carrier THEN {1, 2, 3} ELSE {}

LEMMA RefusalsFree ==
  ASSUME NEW code \in DOMAIN Commands, NEW error, NEW guarded
  PROVE  /\ Frees(Refusal(code, error, guarded), {})
         /\ Refusal(code, error, guarded).code \in DOMAIN Commands
         /\ Refusal(code, error, TRUE).guarded
  BY DEF Frees, Made, Refusal, Step

LEMMA SetupDataCallIsSound == \A v \in Versions : AllSound(SetupDataCall[v])
<1>0. "SETUP_DATA_CALL" \in DOMAIN Commands
  BY DEF Commands
<1>1. \A error : Sound(Refusal("SETUP_DATA_CALL", error, TRUE))
  BY <1>0, RefusalsFree DEF Sound
<1>2. QED
  BY <1>0, <1>1, StringsPlans DEF SetupDataCall, AllSound

LEMMA SetInitialAttachApnIsSound == \A v \in Versions : AllSound(SetInitialAttachApn[v])
<1> DEFINE four == [i \in 1 .. 4 |-> Copy(1 .. i - 1)]
           five == [i \in 1 .. 5 |-> Copy(1 .. i - 1)]
           two == <<Check(1 .. 5), Copy(1 .. 5)>>
           seven == five \o two
<1>0. "SET_INITIAL_ATTACH_APN" \in DOMAIN Commands
  BY DEF Commands
<1>1. Len(four) = 4 /\ \A i \in 1 .. 4 : four[i].frees = 1 .. i - 1
  <2>1. four \in [1 .. 4 -> {four[i] : i \in 1 .. 4}]
    OBVIOUS
  <2>2. QED
    BY <2>1, LenOfSteps DEF Copy, Step
<1>2. /\ Len(seven) = 7 /\ seven[6] = two[1] /\ seven[7] = two[2]
      /\ \A i \in 1 .. 5 : seven[i] = five[i]
  <2> DEFINE S == {five[i] : i \in 1 .. 5} \cup {two[1], two[2]}
  <2>1. five \in Seq(S) /\ Len(five) = 5
    <3>1. five \in [1 .. 5 -> S]
      OBVIOUS
    <3>2. QED
      BY <3>1, LenOfSteps
  <2>2. two \in Seq(S) /\ Len(two) = 2
    OBVIOUS
  <2>3. QED
    BY <2>1, <2>2, ConcatProperties
<1>3. Sound(Plan("SET_INITIAL_ATTACH_APN", four, 1 .. 4))
  <2> HIDE DEF four
  <2>1. QED
    BY <1>0, <1>1, SoundPlan
<1>4. \A i \in 1 .. 7 : \A j \in 1 .. i - 1 : seven[j].makes => j \in seven[i].frees
  <2> HIDE DEF seven
  <2>1. /\ \A i \in 1 .. 5 : seven[i].frees = 1 .. i - 1
        /\ seven[6].frees = 1 .. 5 /\ ~seven[6].makes /\ seven[7].frees = 1 .. 5
    BY <1>2 DEF Copy, Check, Step
  <2>2. QED
    BY <2>1
<1>5. Sound(Plan("SET_INITIAL_ATTACH_APN", seven, (1 .. 5) \cup {7}))
  <2> HIDE DEF seven
  <2>1. ~seven[6].makes
    BY <1>2 DEF Check, Step
  <2>2. \A j \in 1 .. 7 : seven[j].makes => j \in (1 .. 5) \cup {7}
    BY <2>1
  <2>3. QED
    BY <1>0, <1>2, <1>4, <2>2, SoundPlan
<1>6. QED
  BY <1>3, <1>5 DEF SetInitialAttachApn, AllSound

LEMMA SetDataProfileIsSound == \A v \in Versions : AllSound(SetDataProfile[v])
<1> SUFFICES ASSUME NEW v \in Versions
             PROVE  AllSound(SetDataProfile[v])
  OBVIOUS
<1> DEFINE copies == IF v <= 14 THEN 4 ELSE 6
           makes == [i \in 1 .. copies + 2 |->
                       IF i <= 2 THEN Alloc(1 .. i - 1) ELSE Copy(1 .. i - 1)]
           last == Check(1 .. copies + 2)
           more == Append(makes, last)
<1>0. "SET_DATA_PROFILE" \in DOMAIN Commands
  BY DEF Commands
<1>1. copies \in Nat
  OBVIOUS
<1> HIDE DEF copies
<1>2. Len(makes) = copies + 2 /\ \A i \in 1 .. copies + 2 : makes[i].frees = 1 .. i - 1
  <2>1. makes \in [1 .. copies + 2 -> {makes[i] : i \in 1 .. copies + 2}]
    OBVIOUS
  <2>2. Len(makes) = copies + 2
    BY <1>1, <2>1, LenOfSteps
  <2>3. QED
    BY <2>2 DEF Copy, Alloc, Step
<1>3. /\ Len(more) = copies + 3 /\ more[copies + 3] = last
      /\ \A i \in 1 .. copies + 2 : more[i] = makes[i]
  <2> DEFINE S == {makes[i] : i \in 1 .. copies + 2} \cup {last}
  <2>1. makes \in [1 .. copies + 2 -> S]
    OBVIOUS
  <2>2. makes \in Seq(S)
    BY <1>1, <2>1, LenOfSteps
  <2>3. last \in S
    OBVIOUS
  <2> HIDE DEF makes, last, S
  <2>4. QED
    BY <1>1, <1>2, <2>2, <2>3, AppendProperties
<1> HIDE DEF makes, more
<1>4. Sound(Plan("SET_DATA_PROFILE", makes, 1 .. copies + 2))
  BY <1>0, <1>1, <1>2, SoundPlan
<1>5. last.frees = 1 .. copies + 2 /\ ~last.makes
  BY DEF Check, Step
<1> HIDE DEF last
<1>6. \A i \in 1 .. copies + 3 : \A j \in 1 .. i - 1 : j \in more[i].frees
  BY <1>1, <1>2, <1>3, <1>5
<1>7. \A j \in 1 .. copies + 3 : more[j].makes => j \in 1 .. copies + 2
  BY <1>1, <1>3, <1>5
<1>8. Sound(Plan("SET_DATA_PROFILE", more, 1 .. copies + 2))
  BY <1>0, <1>1, <1>3, <1>6, <1>7, SoundPlan
<1>9. SetDataProfile[v] =
        {Plan("SET_DATA_PROFILE", IF v <= 14 THEN makes ELSE more, 1 .. copies + 2)}
  BY DEF SetDataProfile, copies, makes, more, last
<1>10. QED
  BY <1>4, <1>8, <1>9 DEF AllSound

\* The method that leaks: its vendor's structure is freed and the strings are not.
LEMMA CarrierPlans ==
  \A plan \in Requests[Carrier] :
    plan.guarded /\ plan.code \in DOMAIN Commands /\ Frees(plan, Leaked(Carrier))
<1>1. Requests[Carrier] = KeepaliveRequests[Carrier]
  <2> DEFINE others == {SimRequests, CallRequests, DataRequests, FacilityRequests,
                        NetworkRequests, StkRequests, CdmaRequests, BroadcastRequests,
                        SmscRequests, ImsRequests, NvRequests, UiccRequests, CarrierRequests,
                        OemRequests}
  <2>1. \A t \in others : Carrier \notin DOMAIN t
    BY DEF Carrier, SimRequests, CallRequests, DataRequests, FacilityRequests, NetworkRequests,
       StkRequests, CdmaRequests, BroadcastRequests, SmscRequests, ImsRequests, NvRequests,
       UiccRequests, CarrierRequests, OemRequests
  <2>2. Carrier \in DOMAIN KeepaliveRequests
    BY DEF Carrier, KeepaliveRequests
  <2>3. Requests = Joined(others \cup {KeepaliveRequests})
    <3>1. others \cup {KeepaliveRequests} =
            {SimRequests, CallRequests, DataRequests, FacilityRequests, NetworkRequests,
             StkRequests, CdmaRequests, BroadcastRequests, SmscRequests, ImsRequests,
             NvRequests, UiccRequests, CarrierRequests, KeepaliveRequests, OemRequests}
      OBVIOUS
    <3> HIDE DEF others
    <3>2. QED
      BY <3>1 DEF Requests
  <2> HIDE DEF others
  <2>4. QED
    BY <2>1, <2>2, <2>3 DEF Joined
<1>2. \A plan \in KeepaliveRequests[Carrier] :
        plan.guarded /\ plan.code \in DOMAIN Commands /\ Frees(plan, Leaked(Carrier))
  BY DEF KeepaliveRequests, Carrier, Commands, Leaked, Frees, Made, Plan, Copy, New, Step
<1>3. QED
  BY <1>1, <1>2

\* Every plan of every method, for every version of the vendor library.
LEMMA PlansAreSound ==
  ASSUME version \in Versions, NEW m \in Methods, NEW plan \in PlansOf(m)
  PROVE  /\ Frees(plan, Leaked(m)) /\ plan.code \in DOMAIN Commands
         /\ plan.guarded \/ Unguarded(m, version)
<1>1. Frees(plan, {}) => Frees(plan, Leaked(m))
  BY DEF Frees
<1>2. CASE m \in DOMAIN Requests /\ m # Carrier
  BY <1>1, <1>2, RequestsAreSound DEF TableSound, AllSound, Sound, PlansOf
<1>3. CASE m \in DOMAIN Requests /\ m = Carrier
  BY <1>3, CarrierPlans DEF PlansOf
<1>4. CASE m \notin DOMAIN Requests
  <2>1. m \in DOMAIN VersionedRequests /\ plan \in VersionedRequests[m][version]
    BY <1>4 DEF Methods, PlansOf
  <2>2. CASE m \in {"setupDataCall", "setInitialAttachApn", "setDataProfile"}
    BY <1>1, <2>1, <2>2, SetupDataCallIsSound, SetInitialAttachApnIsSound, SetDataProfileIsSound
       DEF VersionedRequests, AllSound, Sound
  <2>3. CASE m \in {"sendDeviceState", "setIndicationFilter"}
    <3>1. /\ "SCREEN_STATE" \in DOMAIN Commands /\ "SEND_DEVICE_STATE" \in DOMAIN Commands
          /\ "SET_UNSOLICITED_RESPONSE_FILTER" \in DOMAIN Commands
      BY DEF Commands
    <3>2. plan \in SendDeviceState[version] \cup SetIndicationFilter[version]
      BY <2>1, <2>3 DEF VersionedRequests
    <3>3. CASE version < 15
      <4>1. \/ plan \in Ints("SCREEN_STATE")
            \/ \E code \in DOMAIN Commands : plan = Refusal(code, "REQUEST_NOT_SUPPORTED", FALSE)
        BY <3>1, <3>2, <3>3 DEF SendDeviceState, SetIndicationFilter
      <4>2. CASE plan \in Ints("SCREEN_STATE")
        BY <1>1, <3>1, <4>2, SmallPlans DEF AllSound, Sound
      <4>3. CASE \E code \in DOMAIN Commands : plan = Refusal(code, "REQUEST_NOT_SUPPORTED", FALSE)
        BY <1>1, <2>3, <3>3, <4>3, RefusalsFree DEF Unguarded
      <4>4. QED
        BY <4>1, <4>2, <4>3
    <3>4. CASE ~(version < 15)
      <4>1. \E code \in DOMAIN Commands : plan \in Ints(code)
        BY <3>1, <3>2, <3>4 DEF SendDeviceState, SetIndicationFilter
      <4>2. QED
        BY <1>1, <4>1, SmallPlans DEF AllSound, Sound
    <3>5. QED
      BY <3>3, <3>4
  <2>4. QED
    BY <2>1, <2>2, <2>3 DEF VersionedRequests
<1>5. QED
  BY <1>2, <1>3, <1>4

-----------------------------------------------------------------------------
(* Buffers and calls through NULL                                          *)

\* A request holds no more than its steps so far have made, and when it is over no more
\* than what its method leaks.
Holds(r) ==
  /\ DOMAIN r = RequestFields
  /\ r.stage \in {"steps", "refused", "called", "returned"}
  /\ Frees(r.plan, Leaked(r.method)) /\ r.plan.code \in DOMAIN Commands
  /\ r.stage = "steps" =>
       r.step \in 1 .. Len(r.plan.steps) + 1 /\ r.held \subseteq Made(r.plan, r.step)
  /\ r.stage = "called" => r.held \subseteq Made(r.plan, Len(r.plan.steps) + 1)
  /\ r.stage \in {"refused", "returned"} => r.held \subseteq Leaked(r.method)

RequestInv == request = NoRequest \/ Holds(request)

CrashInv ==
  \/ crashed \in {"no", "keepaliveStatusInd", "iccOpenLogicalChannelResponse"}
  \/ Unguarded(crashed, version)

BufferInv == version \in Versions /\ CrashInv /\ RequestInv

LEMMA AskHolds ==
  ASSUME BufferInv, NEW m \in Methods, Ask(m)
  PROVE  Holds(request')
<1>1. PICK plan \in PlansOf(m) :
        request' = [method |-> m, plan |-> plan, step |-> 1, held |-> {},
                    stage |-> "steps", answers |-> 0, completed |-> FALSE]
  BY DEF Ask
<1>2. Frees(plan, Leaked(m)) /\ plan.code \in DOMAIN Commands
  BY PlansAreSound DEF BufferInv
<1>3. Len(plan.steps) \in Nat
  BY <1>2 DEF Frees
<1>4. QED
  BY <1>1, <1>2, <1>3 DEF Holds, RequestFields

LEMMA StepPassesHolds ==
  ASSUME BufferInv, StepPasses
  PROVE  Holds(request')
<1>1. /\ DOMAIN request = RequestFields /\ request.stage = "steps" /\ Holds(request)
      /\ request.step \in 1 .. Len(request.plan.steps) /\ Len(request.plan.steps) \in Nat
      /\ request.held \subseteq Made(request.plan, request.step)
  BY DEF BufferInv, RequestInv, Holds, StepPasses, InSteps, Frees
<1>2. /\ DOMAIN request' = RequestFields /\ request'.stage = "steps"
      /\ request'.plan = request.plan /\ request'.method = request.method
      /\ request'.step = request.step + 1
      /\ request'.held \subseteq request.held \cup
           IF request.plan.steps[request.step].makes THEN {request.step} ELSE {}
  BY <1>1 DEF StepPasses, StepOf, RequestFields
<1>3. Frees(request.plan, Leaked(request.method)) /\ request.plan.code \in DOMAIN Commands
  BY <1>1 DEF Holds
<1>4. request'.held \subseteq Made(request.plan, request.step + 1)
  BY <1>1, <1>2 DEF Made
<1>5. QED
  BY <1>1, <1>2, <1>3, <1>4 DEF Holds

LEMMA StepFailsHolds ==
  ASSUME BufferInv, StepFails
  PROVE  Holds(request')
<1>1. /\ DOMAIN request = RequestFields /\ request.stage = "steps"
      /\ Frees(request.plan, Leaked(request.method)) /\ request.plan.code \in DOMAIN Commands
      /\ request.step \in 1 .. Len(request.plan.steps)
      /\ request.held \subseteq Made(request.plan, request.step)
  BY DEF BufferInv, RequestInv, Holds, StepFails, InSteps, Frees
<1>2. /\ DOMAIN request' = RequestFields /\ request'.stage = "refused"
      /\ request'.plan = request.plan /\ request'.method = request.method
      /\ request'.held = request.held \ request.plan.steps[request.step].frees
      /\ request.plan.steps[request.step].errors # {}
  BY <1>1 DEF StepFails, StepOf, RequestFields
<1>3. request'.held \subseteq Leaked(request.method)
  BY <1>1, <1>2 DEF Frees
<1>4. QED
  BY <1>1, <1>2, <1>3 DEF Holds

LEMMA ReturnHolds ==
  ASSUME BufferInv, Return
  PROVE  Holds(request')
<1>1. /\ DOMAIN request = RequestFields
      /\ Frees(request.plan, Leaked(request.method)) /\ request.plan.code \in DOMAIN Commands
      /\ request.held \subseteq Made(request.plan, Len(request.plan.steps) + 1)
  BY DEF BufferInv, RequestInv, Holds, Return
<1>2. /\ DOMAIN request' = RequestFields /\ request'.stage = "returned"
      /\ request'.plan = request.plan /\ request'.method = request.method
      /\ request'.held = request.held \ request.plan.after
  BY <1>1 DEF Return, RequestFields
<1>3. request'.held \subseteq Leaked(request.method)
  BY <1>1, <1>2 DEF Frees
<1>4. QED
  BY <1>1, <1>2, <1>3 DEF Holds

LEMMA CallOnRequestHolds ==
  ASSUME BufferInv, CallOnRequest
  PROVE  Holds(request')
<1>1. /\ DOMAIN request = RequestFields
      /\ Frees(request.plan, Leaked(request.method)) /\ request.plan.code \in DOMAIN Commands
      /\ Len(request.plan.steps) \in Nat
      /\ request.step = Len(request.plan.steps) + 1
      /\ request.held \subseteq Made(request.plan, request.step)
  BY DEF BufferInv, RequestInv, Holds, CallOnRequest, InSteps, Frees
<1>2. /\ DOMAIN request' = RequestFields /\ request'.stage = "called"
      /\ request'.plan = request.plan /\ request'.method = request.method
      /\ request'.held = request.held
  BY <1>1 DEF CallOnRequest, RequestFields
<1>3. QED
  BY <1>1, <1>2 DEF Holds

LEMMA CompleteHolds ==
  ASSUME BufferInv, Complete
  PROVE  Holds(request')
<1>1. /\ DOMAIN request = RequestFields /\ request.stage \in {"called", "returned"}
      /\ Holds(request)
  BY DEF BufferInv, RequestInv, Holds, Complete
<1>2. /\ DOMAIN request' = RequestFields /\ request'.stage = request.stage
      /\ request'.plan = request.plan /\ request'.method = request.method
      /\ request'.held = request.held
  BY <1>1 DEF Complete, RequestFields
<1>3. QED
  BY <1>1, <1>2 DEF Holds

LEMMA BufferStep == BufferInv /\ [Next]_vars => BufferInv'
<1> SUFFICES ASSUME BufferInv, [Next]_vars
             PROVE  BufferInv'
  OBVIOUS
<1>1. version' = version
  BY DEF Next, vars, Ask, AskWithoutMemory, StepPasses, StepFails, CallOnRequest, Return,
     Complete, Forget, SetResponseFunctions, SetOemResponseFunctions, Indicate,
     AnswerOfNoIntegers, IndicateKeepalive, Restart, NitzReceived, KeepFrees,
     KeepCopies, Look, ResendTells, ResendFrees
<1>2. RequestInv'
  <2>1. CASE \E m \in Methods : Ask(m)
    BY <2>1, AskHolds DEF RequestInv
  <2>2. CASE StepPasses \/ StepFails \/ CallOnRequest \/ Return \/ Complete
    BY <2>2, StepPassesHolds, StepFailsHolds, CallOnRequestHolds, ReturnHolds, CompleteHolds
       DEF RequestInv
  <2>3. CASE UNCHANGED request \/ request' = NoRequest
    BY <2>3 DEF BufferInv, RequestInv
  <2>4. QED
    BY <2>1, <2>2, <2>3
       DEF Next, vars, AskWithoutMemory, Forget, SetResponseFunctions, SetOemResponseFunctions,
           Indicate, AnswerOfNoIntegers, IndicateKeepalive, Restart, NitzReceived, KeepFrees,
           KeepCopies, Look, ResendTells, ResendFrees
<1>3. CrashInv'
  <2>1. ASSUME NEW m \in Methods, AskWithoutMemory(m)
        PROVE  Unguarded(crashed', version)
    <3>1. PICK plan \in PlansOf(m) : ~plan.guarded
      BY <2>1 DEF AskWithoutMemory
    <3>2. Unguarded(m, version)
      BY <3>1, PlansAreSound DEF BufferInv
    <3>3. QED
      BY <2>1, <3>2 DEF AskWithoutMemory
  <2>2. CASE crashed' \in {crashed, "no", "keepaliveStatusInd", "iccOpenLogicalChannelResponse"}
    BY <1>1, <2>2 DEF BufferInv, CrashInv, Unguarded
  <2>3. QED
    BY <1>1, <2>1, <2>2
       DEF Next, vars, Ask, StepPasses, StepFails, CallOnRequest, Return, Complete, Forget,
           SetResponseFunctions, SetOemResponseFunctions, Indicate, AnswerOfNoIntegers,
           IndicateKeepalive, Restart,
           NitzReceived, KeepFrees,
           KeepCopies, Look, ResendTells, ResendFrees, CrashInv
<1>4. QED
  BY <1>1, <1>2, <1>3 DEF BufferInv

LEMMA BufferAlways == Spec => []BufferInv
<1>1. Init => BufferInv
  BY DEF Init, BufferInv, CrashInv, RequestInv
<1>2. QED
  BY <1>1, BufferStep, PTL DEF Spec

\* Whichever step of whichever method fails, and after the vendor has had the request, every
\* buffer made for it is freed, but for the strings of one method: BuffersFreed.
THEOREM BuffersAlwaysFreed == Spec => []BuffersFreed
<1>1. BufferInv => BuffersFreed
  BY DEF BufferInv, RequestInv, Holds, Leaked, Carrier, BuffersFreed, Over
<1>2. QED
  BY <1>1, BufferAlways, PTL

\* Nothing is called through NULL but by two methods with an old vendor library, which do not
\* look at what addRequestToList returns, and by keepaliveStatusInd: CallsAreGuarded.
THEOREM CallsAlwaysGuarded == Spec => []CallsAreGuarded
<1>1. BufferInv => CallsAreGuarded
  BY DEF BufferInv, CrashInv, Unguarded, CallsAreGuarded
<1>2. QED
  BY <1>1, BufferAlways, PTL

-----------------------------------------------------------------------------
(* What the client hears of an answer                                      *)

\* Full data that can come is valid for f, and valid data that can come is enough.
FormTrue(f, form) ==
  LET valid == form.whole \cup form.empty
  IN  ("full" \in form.sent => "full" \in valid) /\ \A shape \in valid : Enough(f, shape)

TableTrue(t) == \A f \in DOMAIN t : FormTrue(f, t[f])

\* Each form is true of the functions that are named for it.
LEMMA FormsAreTrue ==
  ASSUME NEW f
  PROVE  /\ \A form \in {Nothing, SomeText, Struct, Several, CardStatus, InfoRecs, SmsResult,
                          IccIo, Capability, LceStatus, Pdu} : FormTrue(f, form)
         /\ \A form \in {Bytes, ListOf, Networks, Ring} : f \in Lists => FormTrue(f, form)
         /\ f \in EmptyStrings => FormTrue(f, Text)
         /\ f \in OtherDefaults => FormTrue(f, StructOrNone) /\ FormTrue(f, Channel)
         /\ f \in ReadWithoutLength => FormTrue(f, OneInt)
         /\ f \in RetriesLeft => FormTrue(f, OneIntOrNone)
         /\ f = "setupDataCallResponse" => FormTrue(f, DataCall)
         /\ f \in ReadTorn => FormTrue(f, Cause) /\ FormTrue(f, ScanResult)
  BY DEF FormTrue, Form, Enough, Nothing, Text, SomeText, Bytes, Struct, StructOrNone, Several,
     ListOf, OneInt, OneIntOrNone, Networks, CardStatus, InfoRecs, SmsResult, IccIo, Capability,
     LceStatus, Pdu, Ring, DataCall, Channel, Cause, ScanResult, OtherDefaults,
     ReadWithoutLength

LEMMA JoinedIsTrue ==
  ASSUME NEW tables, \A t \in tables : TableTrue(t)
  PROVE  TableTrue(Joined(tables))
  BY DEF Joined, TableTrue

LEMMA ResponsesAreTrue == TableTrue(Responses)
<1>1. ASSUME NEW t \in {PinResponses, PukResponses, CallResponses, SignalResponses,
       RegistrationResponses, SmsResponses, DataResponses, ForwardResponses, FacilityResponses,
       NetworkResponses, DtmfResponses, BandResponses, StkResponses, CellResponses,
       TtyResponses, BroadcastResponses, CdmaResponses, IdentityResponses, IsimResponses,
       ImsResponses, ChannelResponses, UiccResponses, CapabilityResponses, CarrierResponses,
       PowerResponses, KeepaliveResponses}
      PROVE  TableTrue(t)
  BY FormsAreTrue DEF TableTrue, Lists, EmptyStrings, RetriesLeft, OtherDefaults,
     ReadWithoutLength, ReadTorn, PinResponses, PukResponses, CallResponses,
     SignalResponses, RegistrationResponses, SmsResponses, DataResponses, ForwardResponses,
     FacilityResponses, NetworkResponses, DtmfResponses, BandResponses, StkResponses,
     CellResponses, TtyResponses, BroadcastResponses, CdmaResponses, IdentityResponses,
     IsimResponses, ImsResponses, ChannelResponses, UiccResponses, CapabilityResponses,
     CarrierResponses, PowerResponses, KeepaliveResponses
<1>2. QED
  BY <1>1, JoinedIsTrue DEF Responses

LEMMA IndicationsAreTrue == TableTrue(Indications)
<1>1. ASSUME NEW t \in {StateIndications, UssdIndications, SignalIndications, StkIndications,
       SimIndications, CdmaIndications, InfoRecIndications, RadioIndications, CellIndications,
       SsIndications, LceIndications, KeepaliveIndications}
      PROVE  TableTrue(t)
  BY FormsAreTrue DEF TableTrue, Lists, EmptyStrings, RetriesLeft, OtherDefaults,
     ReadWithoutLength, ReadTorn, StateIndications, UssdIndications,
     SignalIndications, StkIndications, SimIndications, CdmaIndications, InfoRecIndications,
     RadioIndications, CellIndications, SsIndications, LceIndications, KeepaliveIndications
<1>2. QED
  BY <1>1, JoinedIsTrue DEF Indications

\* Every row of the command table names a response function there is.
LEMMA CommandsAnswered == \A code \in DOMAIN Commands : Commands[code] \in DOMAIN Responses
  BY DEF Commands, Responses, Joined, PinResponses, PukResponses, CallResponses,
     SignalResponses, RegistrationResponses, SmsResponses, DataResponses, ForwardResponses,
     FacilityResponses, NetworkResponses, DtmfResponses, BandResponses, StkResponses,
     CellResponses, TtyResponses, BroadcastResponses, CdmaResponses, IdentityResponses,
     IsimResponses, ImsResponses, ChannelResponses, UiccResponses, CapabilityResponses,
     CarrierResponses, PowerResponses, KeepaliveResponses

LEMMA CallUpTells ==
  ASSUME NEW f, NEW what, CallUp(f, what)
  PROVE  told' = what \/ told' = told
  BY DEF CallUp

\* The functions that do not call their own callback have no data to give.
LEMMA CallbackKeepsEnough ==
  ASSUME NEW f, NEW c, NEW shape, Enough(f, shape)
  PROVE  Enough(Callback(f, c), shape)
<1>1. CASE f \in {"hangupForegroundResumeBackgroundResponse", "setSimCardPowerResponse"}
  <2>1. shape \in {"void", "full"}
    BY <1>1 DEF Enough, Lists, EmptyStrings, RetriesLeft, OtherDefaults, ReadWithoutLength, ReadTorn
  <2>2. QED
    BY <2>1 DEF Enough
<1>2. CASE f \notin {"hangupForegroundResumeBackgroundResponse", "setSimCardPowerResponse"}
  <2>1. Callback(f, c) = f
    BY <1>2 DEF Callback
  <2>2. QED
    BY <2>1
<1>3. QED
  BY <1>1, <1>2

LEMMA RespondIsTrue ==
  ASSUME AnswerIsTrue, NEW code \in DOMAIN Commands, NEW e, NEW shape, Respond(code, e, shape),
         shape = "none" \/ shape \in Responses[Commands[code]].sent
  PROVE  AnswerIsTrue'
<1> DEFINE f == Commands[code]
           valid == shape \in Responses[f].whole \cup Responses[f].empty
           answer(given) ==
             [by |-> Callback(f, client), of |-> e, shape |-> shape,
              given |-> given, heard |-> Heard(given),
              error |-> IF e = "SUCCESS" /\ ~valid THEN "INVALID_RESPONSE" ELSE e]
<1>1. PICK given : told' = answer(given) \/ told' = told
  BY CallUpTells DEF Respond
<1>2. CASE told' = told
  BY <1>2 DEF AnswerIsTrue
<1>3. CASE told' = answer(given)
  <2>1. FormTrue(f, Responses[f])
    BY ResponsesAreTrue, CommandsAnswered DEF TableTrue
  <2>2. shape = "full" => valid
    BY <2>1 DEF FormTrue
  <2>3. valid => Enough(f, shape)
    BY <2>1 DEF FormTrue
  <2>4. Enough(f, shape) => Enough(Callback(f, client), shape)
    BY CallbackKeepsEnough
  <2> HIDE DEF f, valid
  <2>5. /\ told'.of = e /\ told'.shape = shape /\ told'.by = Callback(f, client)
        /\ told'.error = IF e = "SUCCESS" /\ ~valid THEN "INVALID_RESPONSE" ELSE e
    BY <1>3
  <2>6. QED
    BY <2>2, <2>3, <2>4, <2>5 DEF AnswerIsTrue
<1>4. QED
  BY <1>1, <1>2, <1>3

LEMMA IndicateIsTrue ==
  ASSUME AnswerIsTrue, NEW u \in DOMAIN UnsolResponses, Indicate(u)
  PROVE  AnswerIsTrue'
<1> DEFINE f == UnsolResponses[u]
<1>1. PICK shape \in Indications[f].sent :
        /\ shape \in Indications[f].whole \cup Indications[f].empty
        /\ \E given \in ContentsOf(f, shape) :
             CallUp(f, [by |-> f, error |-> "SUCCESS", of |-> "SUCCESS", shape |-> shape,
                        given |-> given, heard |-> Heard(given)])
  BY DEF Indicate
<1>2. f \in DOMAIN Indications
  BY DEF Indicate
<1>3. Enough(f, shape)
  BY <1>1, <1>2, IndicationsAreTrue DEF TableTrue, FormTrue
<1>4. \/ told' = told
      \/ /\ told'.by = f /\ told'.error = "SUCCESS" /\ told'.of = "SUCCESS"
         /\ told'.shape = shape
  BY <1>1, CallUpTells
<1> HIDE DEF f
<1>5. QED
  BY <1>3, <1>4 DEF AnswerIsTrue

LEMMA TruthStep == BufferInv /\ AnswerIsTrue /\ [Next]_vars => AnswerIsTrue'
<1> SUFFICES ASSUME BufferInv, AnswerIsTrue, [Next]_vars
             PROVE  AnswerIsTrue'
  OBVIOUS
<1>1. CASE told' = told \/ told' = Silence
  BY <1>1 DEF AnswerIsTrue, Silence
<1>2. CASE StepFails
  <2>1. request.plan.code \in DOMAIN Commands
    BY <1>2 DEF StepFails, InSteps, BufferInv, RequestInv, Holds
  <2>2. QED
    BY <1>2, <2>1, RespondIsTrue DEF StepFails
<1>3. CASE Complete
  <2>1. request.plan.code \in DOMAIN Commands
    BY <1>3 DEF Complete, BufferInv, RequestInv, Holds
  <2>2. QED
    BY <1>3, <2>1, RespondIsTrue DEF Complete
<1>4. CASE \E u \in DOMAIN UnsolResponses : Indicate(u)
  BY <1>4, IndicateIsTrue
<1>5. QED
  BY <1>1, <1>2, <1>3, <1>4
     DEF Next, vars, Ask, AskWithoutMemory, StepPasses, CallOnRequest, Return, Forget,
         SetResponseFunctions, SetOemResponseFunctions, AnswerOfNoIntegers,
         IndicateKeepalive, Restart,
         NitzReceived, KeepFrees,
         KeepCopies, Look, ResendTells, ResendFrees

\* A client hears the vendor's errors as they are and full data as a success, and a success
\* without full data only through the functions that are named for it: those that tell NULL
\* as a value of its own, those that read one element from data of length 0, and the two that
\* read what is torn. For every response and indication function: AnswerIsTrue.
THEOREM AnswersAlwaysTrue == Spec => []AnswerIsTrue
<1>1. Init => AnswerIsTrue
  BY DEF Init, AnswerIsTrue, Silence
<1>2. QED
  BY <1>1, TruthStep, BufferAlways, PTL DEF Spec

-----------------------------------------------------------------------------
(* The callback of the method that was called                              *)

SimPower == {"setSimCardPower", "setSimCardPower_1_1"}
Foreground == "hangupForegroundResumeBackground"

\* The function that answers a plan has the name that is declared for its method.
Own(m, plan) ==
  Commands[plan.code] = IF m \in SimPower THEN "setSimCardPowerResponse" ELSE DeclaredResponses[m]

TableOwn(t) == \A m \in DOMAIN t : \A plan \in t[m] : Own(m, plan)

LEMMA CodeOfPlan ==
  /\ \A code : \A plan \in Void(code) : plan.code = code
  /\ \A code : \A plan \in String(code) : plan.code = code
  /\ \A code : \A plan \in Ints(code) : plan.code = code
  /\ \A code, n : \A plan \in Strings(code, n) : plan.code = code
  /\ \A code, steps, after : Plan(code, steps, after).code = code
  /\ \A code, error, guarded : Refusal(code, error, guarded).code = code
  BY DEF Void, String, Ints, Strings, Plan, Refusal

LEMMA CodeOfImsSms == \A plan \in SendImsSms : plan.code = "IMS_SEND_SMS"
<1>1. Refusal("IMS_SEND_SMS", "INVALID_ARGUMENTS", TRUE).code = "IMS_SEND_SMS"
  BY DEF Refusal
<1>2. \A steps, after : Plan("IMS_SEND_SMS", steps, after).code = "IMS_SEND_SMS"
  BY DEF Plan
<1>3. QED
  BY <1>1, <1>2, Zenon DEF SendImsSms

\* The codes of the three methods that refuse what a version cannot do.
LEMMA CodeOfRefusing ==
  ASSUME NEW v \in Versions
  PROVE  /\ \A plan \in SetupDataCall[v] : plan.code = "SETUP_DATA_CALL"
         /\ \A plan \in SendDeviceState[v] : plan.code \in {"SCREEN_STATE", "SEND_DEVICE_STATE"}
         /\ \A plan \in SetIndicationFilter[v] : plan.code = "SET_UNSOLICITED_RESPONSE_FILTER"
<1> USE CodeOfPlan
<1>1. \A plan \in SetupDataCall[v] : plan.code = "SETUP_DATA_CALL"
  <2>1. CASE v < 4
    BY <2>1 DEF SetupDataCall, Refusal
  <2>2. CASE ~(v < 4) /\ v <= 14
    BY <2>2 DEF SetupDataCall, Refusal
  <2>3. CASE ~(v < 4) /\ ~(v <= 14)
    <3>1. SetupDataCall[v] = Strings("SETUP_DATA_CALL", 15)
                               \cup {Refusal("SETUP_DATA_CALL", "INVALID_ARGUMENTS", TRUE)}
      BY <2>3 DEF SetupDataCall
    <3>2. Refusal("SETUP_DATA_CALL", "INVALID_ARGUMENTS", TRUE).code = "SETUP_DATA_CALL"
      BY DEF Refusal
    <3>3. \A plan \in Strings("SETUP_DATA_CALL", 15) : plan.code = "SETUP_DATA_CALL"
      OBVIOUS
    <3> HIDE CodeOfPlan
    <3>4. QED
      BY <3>1, <3>2, <3>3, Zenon
  <2>4. QED
    BY <2>1, <2>2, <2>3
<1>2. \A plan \in SendDeviceState[v] : plan.code \in {"SCREEN_STATE", "SEND_DEVICE_STATE"}
  <2>1. CASE v < 15
    <3>1. SendDeviceState[v]
            = Ints("SCREEN_STATE")
                \cup {Refusal("SEND_DEVICE_STATE", "REQUEST_NOT_SUPPORTED", FALSE)}
      BY <2>1 DEF SendDeviceState
    <3>2. Refusal("SEND_DEVICE_STATE", "REQUEST_NOT_SUPPORTED", FALSE).code = "SEND_DEVICE_STATE"
      BY DEF Refusal
    <3>3. QED
      BY <3>1, <3>2, Zenon
  <2>2. CASE ~(v < 15)
    BY <2>2 DEF SendDeviceState, Refusal
  <2>3. QED
    BY <2>1, <2>2
<1>3. \A plan \in SetIndicationFilter[v] : plan.code = "SET_UNSOLICITED_RESPONSE_FILTER"
  <2>1. CASE v < 15
    BY <2>1 DEF SetIndicationFilter, Refusal
  <2>2. CASE ~(v < 15)
    BY <2>2 DEF SetIndicationFilter, Refusal
  <2>3. QED
    BY <2>1, <2>2
<1>4. QED
  BY <1>1, <1>2, <1>3

LEMMA RequestsAreOwn == TableOwn(Requests)
<1> DEFINE tables == {SimRequests, CallRequests, DataRequests, FacilityRequests, NetworkRequests,
                      StkRequests, CdmaRequests, BroadcastRequests, SmscRequests, ImsRequests,
                      NvRequests, UiccRequests, CarrierRequests, KeepaliveRequests, OemRequests}
<1> USE CodeOfPlan DEF TableOwn, Own, SimPower, Commands, DeclaredResponses
<1>1. TableOwn(SimRequests)
  BY DEF SimRequests
<1>2. TableOwn(CallRequests)
  BY DEF CallRequests
<1>3. TableOwn(DataRequests)
  BY DEF DataRequests
<1>4. TableOwn(FacilityRequests)
  BY DEF FacilityRequests
<1>5. TableOwn(NetworkRequests)
  BY DEF NetworkRequests
<1>6. TableOwn(StkRequests)
  BY DEF StkRequests
<1>7. TableOwn(CdmaRequests)
  BY DEF CdmaRequests
<1>8. TableOwn(BroadcastRequests)
  BY DEF BroadcastRequests
<1>9. TableOwn(SmscRequests) /\ TableOwn(ImsRequests)
  BY DEF SmscRequests, ImsRequests
<1>10. TableOwn(NvRequests)
  BY CodeOfImsSms DEF NvRequests
<1>11. TableOwn(UiccRequests) /\ TableOwn(OemRequests)
  BY DEF UiccRequests, OemRequests
<1>12. TableOwn(CarrierRequests)
  BY DEF CarrierRequests
<1>13. TableOwn(KeepaliveRequests)
  BY DEF KeepaliveRequests
<1> HIDE DEF Commands, DeclaredResponses, Own
<1>14. ASSUME \A t \in tables : TableOwn(t)
       PROVE  TableOwn(Joined(tables))
  BY <1>14 DEF Joined
<1> HIDE DEF TableOwn
<1>15. QED
  BY <1>1, <1>2, <1>3, <1>4, <1>5, <1>6, <1>7, <1>8, <1>9, <1>10, <1>11, <1>12, <1>13, <1>14
     DEF Requests

\* Every plan of the methods whose request depends on the version of the vendor library.
LEMMA VersionedAreOwn ==
  ASSUME NEW m \in DOMAIN VersionedRequests, NEW v \in Versions,
         NEW plan \in VersionedRequests[m][v]
  PROVE  Own(m, plan)
<1>1. CASE m = "setInitialAttachApn"
  <2>1. plan.code = "SET_INITIAL_ATTACH_APN"
    BY <1>1, CodeOfPlan DEF VersionedRequests, SetInitialAttachApn
  <2>2. QED
    BY <1>1, <2>1 DEF Own, SimPower, Commands, DeclaredResponses
<1>2. CASE m = "setupDataCall"
  <2>1. plan.code = "SETUP_DATA_CALL"
    BY <1>2, CodeOfRefusing DEF VersionedRequests
  <2>2. QED
    BY <1>2, <2>1 DEF Own, SimPower, Commands, DeclaredResponses
<1>3. CASE m = "sendDeviceState"
  <2>1. plan.code \in {"SCREEN_STATE", "SEND_DEVICE_STATE"}
    BY <1>3, CodeOfRefusing DEF VersionedRequests
  <2>2. QED
    BY <1>3, <2>1 DEF Own, SimPower, Commands, DeclaredResponses
<1>4. CASE m = "setIndicationFilter"
  <2>1. plan.code = "SET_UNSOLICITED_RESPONSE_FILTER"
    BY <1>4, CodeOfRefusing DEF VersionedRequests
  <2>2. QED
    BY <1>4, <2>1 DEF Own, SimPower, Commands, DeclaredResponses
<1>5. CASE m = "setDataProfile"
  <2>1. plan.code = "SET_DATA_PROFILE"
    BY <1>5, CodeOfPlan DEF VersionedRequests, SetDataProfile
  <2>2. QED
    BY <1>5, <2>1 DEF Own, SimPower, Commands, DeclaredResponses
<1>6. QED
  BY <1>1, <1>2, <1>3, <1>4, <1>5 DEF VersionedRequests

\* No other method's callback is the one that Callback exchanges.
LEMMA DeclaredApart ==
  \A m \in DOMAIN DeclaredResponses :
    DeclaredResponses[m] \notin
      {"setSimCardPowerResponse"} \cup
      IF m = Foreground THEN {} ELSE {"hangupForegroundResumeBackgroundResponse"}
  BY DEF DeclaredResponses, Foreground

LEMMA MethodsDeclared == Methods \subseteq DOMAIN DeclaredResponses \cup SimPower
<1>1. DOMAIN Requests \subseteq DOMAIN DeclaredResponses \cup SimPower
  BY DEF Requests, Joined, SimRequests, CallRequests, DataRequests, FacilityRequests,
     NetworkRequests, StkRequests, CdmaRequests, BroadcastRequests, SmscRequests, ImsRequests,
     NvRequests, UiccRequests, CarrierRequests, KeepaliveRequests, OemRequests,
     DeclaredResponses, SimPower
<1>2. DOMAIN VersionedRequests \subseteq DOMAIN DeclaredResponses
  BY DEF VersionedRequests, DeclaredResponses
<1>3. QED
  BY <1>1, <1>2 DEF Methods

\* Whatever the version of the client, the callback is one that is declared for the method.
LEMMA PlansAreOwn ==
  ASSUME version \in Versions, NEW m \in Methods \ {Foreground}, NEW plan \in PlansOf(m), NEW c
  PROVE  Callback(Commands[plan.code], c) \in ResponsesOf(m)
<1> DEFINE r == Commands[plan.code]
<1>1. Own(m, plan)
  BY RequestsAreOwn, VersionedAreOwn DEF Methods, PlansOf, TableOwn
<1>2. CASE m \in SimPower
  <2>1. r = "setSimCardPowerResponse"
    BY <1>1, <1>2 DEF Own
  <2> HIDE DEF r
  <2>2. Callback(r, c) \in {"setSimCardPowerResponse", "setSimCardPowerResponse_1_1"}
    BY <2>1 DEF Callback
  <2>3. QED
    BY <1>2, <2>2 DEF ResponsesOf, SimPower, r
<1>3. CASE m \notin SimPower
  <2>1. r = DeclaredResponses[m] /\ m \in DOMAIN DeclaredResponses
    BY <1>1, <1>3, MethodsDeclared DEF Own
  <2>2. r \notin {"setSimCardPowerResponse", "hangupForegroundResumeBackgroundResponse"}
    BY <2>1, DeclaredApart
  <2> HIDE DEF r
  <2>3. Callback(r, c) = r
    BY <2>2 DEF Callback
  <2>4. QED
    BY <1>3, <2>1, <2>3 DEF ResponsesOf, SimPower, r
<1>4. QED
  BY <1>2, <1>3

\* A request is made by a plan of its method, and what is told of it comes through a callback
\* for its code.
OwnInv ==
  /\ version \in Versions
  /\ \/ request = NoRequest
     \/ /\ DOMAIN request = RequestFields
        /\ request.method \in Methods /\ request.plan \in PlansOf(request.method)
        /\ told = Silence \/ \E c : told.by = Callback(Commands[request.plan.code], c)

LEMMA RespondTells ==
  ASSUME NEW code, NEW e, NEW shape, Respond(code, e, shape)
  PROVE  told' = told \/ \E c : told'.by = Callback(Commands[code], c)
<1> DEFINE f == Commands[code]
           valid == shape \in Responses[f].whole \cup Responses[f].empty
           answer(given) ==
             [by |-> Callback(f, client), of |-> e, shape |-> shape,
              given |-> given, heard |-> Heard(given),
              error |-> IF e = "SUCCESS" /\ ~valid THEN "INVALID_RESPONSE" ELSE e]
<1>1. PICK given : told' = answer(given) \/ told' = told
  BY CallUpTells DEF Respond
<1>2. CASE told' = answer(given)
  <2>1. told'.by = Callback(f, client)
    BY <1>2
  <2>2. QED
    BY <2>1
<1>3. QED
  BY <1>1, <1>2

LEMMA OwnStep == OwnInv /\ [Next]_vars => OwnInv'
<1> SUFFICES ASSUME OwnInv, [Next]_vars
             PROVE  OwnInv'
  OBVIOUS
<1>1. version' = version
  BY DEF Next, vars, Ask, AskWithoutMemory, StepPasses, StepFails, CallOnRequest, Return,
     Complete, Forget, SetResponseFunctions, SetOemResponseFunctions, Indicate,
     AnswerOfNoIntegers, IndicateKeepalive, Restart, NitzReceived, KeepFrees,
     KeepCopies, Look, ResendTells, ResendFrees
<1>2. \A m : PlansOf(m)' = PlansOf(m)
  BY <1>1 DEF PlansOf
<1>3. CASE request' = NoRequest
  BY <1>1, <1>3 DEF OwnInv
<1>4. CASE \E m \in Methods : Ask(m)
  <2>1. PICK m \in Methods : Ask(m)
    BY <1>4
  <2>2. PICK plan \in PlansOf(m) :
          request' = [method |-> m, plan |-> plan, step |-> 1, held |-> {},
                      stage |-> "steps", answers |-> 0, completed |-> FALSE]
    BY <2>1 DEF Ask
  <2>3. told' = Silence
    BY <2>1 DEF Ask, Idle
  <2>4. QED
    BY <1>1, <1>2, <2>2, <2>3 DEF OwnInv, RequestFields
<1>5. ASSUME request # NoRequest, DOMAIN request' = DOMAIN request,
             request'.method = request.method, request'.plan = request.plan,
             told' = told \/ \E c : told'.by = Callback(Commands[request.plan.code], c)
      PROVE  OwnInv'
  BY <1>1, <1>2, <1>5 DEF OwnInv
<1>6. CASE StepPasses \/ CallOnRequest \/ Return
  BY <1>5, <1>6 DEF StepPasses, CallOnRequest, Return, InSteps, OwnInv, RequestFields
<1>7. CASE StepFails \/ Complete
  <2>1. told' = told \/ \E c : told'.by = Callback(Commands[request.plan.code], c)
    BY <1>7, RespondTells DEF StepFails, Complete
  <2>2. /\ request # NoRequest /\ DOMAIN request' = DOMAIN request
        /\ request'.method = request.method /\ request'.plan = request.plan
    BY <1>7 DEF StepFails, Complete, InSteps, OwnInv, RequestFields
  <2>3. QED
    BY <1>5, <2>1, <2>2
<1>8. CASE UNCHANGED <<request, told>>
  BY <1>1, <1>2, <1>8 DEF OwnInv
<1>9. QED
  BY <1>3, <1>4, <1>6, <1>7, <1>8
     DEF Next, vars, AskWithoutMemory, Forget, Idle, SetResponseFunctions,
         SetOemResponseFunctions, Indicate, AnswerOfNoIntegers, IndicateKeepalive,
         Restart, NitzReceived, KeepFrees,
         KeepCopies, Look, ResendTells, ResendFrees

\* What a client hears about its request comes through the callback of the method it called,
\* but for the one whose response function calls another's (ril_service.cpp:3391):
\* OwnMethodButOne.
THEOREM AnswersThroughOwnMethod == Spec => []OwnMethodButOne
<1>1. Init => OwnInv
  BY DEF Init, OwnInv
<1>2. OwnInv => OwnMethodButOne
  BY PlansAreOwn DEF OwnInv, OwnMethodButOne, OwnMethod, Foreground
<1>3. QED
  BY <1>1, <1>2, OwnStep, PTL DEF Spec

-----------------------------------------------------------------------------
(* The conversions                                                         *)

AllAsGiven(contents) == \A given \in contents : AsGiven(given, Heard(given))

LEMMA HeardByKind ==
  ASSUME NEW given
  PROVE  /\ given.kind = "plain" => Heard(given) = Plain
         /\ given.kind = "signal" => Heard(given) = HalSignal(given.layout, given.value)
         /\ given.kind = "cell" => Heard(given) = HalCell(given.type, given.mcc)
         /\ given.kind = "identity" => Heard(given) = HalIdentity(given.type, given.mcc)
         /\ given.kind \in {"voice", "data"} =>
              Heard(given) = HalRegistration(given.kind, given.rat, given.strings)
         /\ given.kind = "calls" =>
              Heard(given) = HalCalls(given.layout, given.number, given.word)
<1>1. given.kind = "plain" => Heard(given) = Plain
  BY Zenon DEF Heard
<1>2. given.kind = "signal" => Heard(given) = HalSignal(given.layout, given.value)
  BY Zenon DEF Heard
<1>3. given.kind = "cell" => Heard(given) = HalCell(given.type, given.mcc)
  BY Zenon DEF Heard
<1>4. given.kind = "identity" => Heard(given) = HalIdentity(given.type, given.mcc)
  BY Zenon DEF Heard
<1>5. given.kind \in {"voice", "data"} =>
              Heard(given) = HalRegistration(given.kind, given.rat, given.strings)
  BY Zenon DEF Heard
<1>6. given.kind = "calls" =>
              Heard(given) = HalCalls(given.layout, given.number, given.word)
  BY Zenon DEF Heard
<1>7. QED
  BY <1>1, <1>2, <1>3, <1>4, <1>5, <1>6

LEMMA SignalsAsGiven == AllAsGiven(Signals)
  BY HeardByKind DEF AllAsGiven, AsGiven, Signals, HalSignal, Unknown, INT_MAX

\* A type the code knows fills its vector.
LEMMA OneVector ==
  ASSUME NEW type \in CellTypes \cup {"NONE"}
  PROVE  {type} \cap CellTypes = {type} \ {"NONE"}
<1>1. "NONE" \notin CellTypes
  BY SMT DEF CellTypes
<1>2. CASE type = "NONE"
  BY <1>1, <1>2, SMT
<1>3. CASE type \in CellTypes
  BY <1>1, <1>3, SMT
<1>4. QED
  BY <1>2, <1>3, SMT

LEMMA CellsAsGiven == AllAsGiven(Cells) /\ AllAsGiven(Identities)
<1>1. ASSUME NEW kind \in {"cell", "identity"}, NEW given \in Given(kind)
      PROVE  AsGiven(given, Heard(given))
  <2>1. given.kind = kind /\ given.type \in CellTypes \cup {"NONE"}
    BY SMT DEF Given
  <2>2. CASE kind = "cell"
    <3>1. Heard(given) = HalCell(given.type, given.mcc)
      BY <2>1, <2>2, HeardByKind, SMT
    <3>2. Heard(given).vectors = {given.type} \ {"NONE"}
      BY <2>1, <3>1, OneVector, SMT DEF HalCell
    <3>3. /\ given.type \in {"NONE", "CDMA"} => Heard(given).mcc = {}
          /\ given.type \notin {"NONE", "CDMA"} => Heard(given).mcc = {given.mcc}
      BY <2>1, <3>1, SMT DEF HalCell, CellTypes
    <3>4. QED
      BY <2>1, <2>2, <3>2, <3>3, SMT DEF AsGiven
  <2>3. CASE kind = "identity"
    <3>1. Heard(given) = HalIdentity(given.type, given.mcc)
      BY <2>1, <2>3, HeardByKind, SMT
    <3>2. Heard(given).vectors = {given.type} \ {"NONE"}
      BY <2>1, <3>1, OneVector, SMT DEF HalIdentity
    <3>3. /\ given.type \in {"NONE", "CDMA"} => Heard(given).mcc = {}
          /\ given.type \notin {"NONE", "CDMA"} => Heard(given).mcc = {given.mcc} \ {-1}
      BY <2>1, <3>1, SMT DEF HalIdentity, CellTypes
    <3>4. QED
      BY <2>1, <2>3, <3>2, <3>3, SMT DEF AsGiven
  <2>4. QED
    BY <2>2, <2>3
<1>2. QED
  BY <1>1, Zenon DEF AllAsGiven, Cells, Identities

\* The last string with a field is the thirteenth.
LEMMA DataFieldsEnd ==
  ASSUME NEW rat \in DOMAIN CellTypeOf, NEW f \in DOMAIN Fields("data", rat)
  PROVE  Fields("data", rat)[f] \in 0 .. 12
<1>1. CellTypeOf[rat] \in CellTypes \cup {"NONE"}
  BY SMT DEF CellTypeOf, CellTypes
<1>2. ASSUME NEW type \in CellTypes \cup {"NONE"}, NEW g \in DOMAIN DataFields[type]
      PROVE  DataFields[type][g] \in 0 .. 12
  <2>1. CASE type \in {"CDMA", "NONE"}
    BY <1>2, <2>1, SMT DEF DataFields
  <2>2. CASE type = "LTE"
    <3>1. DataFields["LTE"] = [tac |-> 6, pci |-> 7, ci |-> 8, mcc |-> 11, mnc |-> 12]
      BY SMT DEF DataFields
    <3>2. QED
      BY <1>2, <2>2, <3>1, SMT
  <2>3. CASE type \in {"GSM", "WCDMA", "TD_SCDMA"}
    <3>1. DataFields[type] = [lac |-> 1, cid |-> 2, mcc |-> 11, mnc |-> 12]
      BY <2>3, SMT DEF DataFields
    <3>2. QED
      BY <1>2, <3>1, SMT
  <2>4. QED
    BY <2>1, <2>2, <2>3, SMT DEF CellTypes
<1>3. Fields("data", rat) = DataFields[CellTypeOf[rat]]
  BY SMT DEF Fields
<1>4. QED
  BY <1>1, <1>2, <1>3, Zenon

LEMMA RegistrationsAsGiven == AllAsGiven(VoiceRegistrations) /\ AllAsGiven(DataRegistrations)
<1>1. ASSUME NEW rat \in DOMAIN CellTypeOf
      PROVE  {CellTypeOf[rat]} \cap CellTypes = {CellTypeOf[rat]} \ {"NONE"}
  <2>1. CellTypeOf[rat] \in CellTypes \cup {"NONE"}
    BY SMT DEF CellTypeOf, CellTypes
  <2>2. QED
    BY <2>1, OneVector
<1>2. ASSUME NEW given \in VoiceRegistrations
      PROVE  AsGiven(given, Heard(given))
  <2>1. given.kind = "voice" /\ given.rat \in DOMAIN CellTypeOf /\ given.strings = 15
    BY SMT DEF VoiceRegistrations
  <2>2. Heard(given) = HalRegistration(given.kind, given.rat, given.strings)
    BY <2>1, HeardByKind, SMT
  <2>3. Passed(given.kind, given.strings) = given.strings
    BY <2>1, SMT DEF Passed
  <2>4. QED
    <3>1. Heard(given).vectors = {CellTypeOf[given.rat]} \ {"NONE"}
      BY <1>1, <2>1, <2>2, SMT DEF HalRegistration
    <3>2. Heard(given).fields = {f \in DOMAIN Fields(given.kind, given.rat) :
            Fields(given.kind, given.rat)[f] < Passed(given.kind, given.strings)}
      BY <2>2, SMT DEF HalRegistration
    <3>3. QED
      BY <2>1, <2>3, <3>1, <3>2, SMT DEF AsGiven
<1>3. ASSUME NEW given \in DataRegistrations
      PROVE  AsGiven(given, Heard(given))
  <2>1. given.kind = "data" /\ given.rat \in DOMAIN CellTypeOf /\ given.strings \in 6 .. 14
    BY SMT DEF DataRegistrations
  <2>2. Heard(given) = HalRegistration(given.kind, given.rat, given.strings)
    BY <2>1, HeardByKind, SMT
  <2>3. given.strings \notin 7 .. 12 =>
          \A f \in DOMAIN Fields(given.kind, given.rat) :
            Fields(given.kind, given.rat)[f] < Passed(given.kind, given.strings)
              <=> Fields(given.kind, given.rat)[f] < given.strings
    BY <2>1, DataFieldsEnd, SMT DEF Passed
  <2>4. QED
    <3>1. Heard(given).vectors = {CellTypeOf[given.rat]} \ {"NONE"}
      BY <1>1, <2>1, <2>2, SMT DEF HalRegistration
    <3>2. Heard(given).fields = {f \in DOMAIN Fields(given.kind, given.rat) :
            Fields(given.kind, given.rat)[f] < Passed(given.kind, given.strings)}
      BY <2>2, SMT DEF HalRegistration
    <3>3. QED
      BY <2>1, <2>3, <3>1, <3>2, SMT DEF AsGiven
<1>4. QED
  BY <1>2, <1>3, Zenon DEF AllAsGiven

LEMMA SizesOfLayouts ==
  ASSUME NEW word
  PROVE  /\ Size(6, word) = 16 + 5 * word
         /\ Size(9, word) = 16 + 6 * word
         /\ Size(11, word) = 16 + 7 * word
<1>1. 6 # 9 /\ 6 # 11 /\ 9 # 6 /\ 9 # 11 /\ 11 # 6 /\ 11 # 9
  OBVIOUS
<1>2. QED
  BY <1>1, Zenon DEF Size

\* Up to 7 data calls are of one layout only.
LEMMA LayoutIsTold ==
  ASSUME NEW layout \in Layouts, NEW number \in 1 .. 7, NEW word \in {4, 8}
  PROVE  HalCalls(layout, number, word) = [layout |-> layout, number |-> number]
<1> DEFINE length == number * Size(layout, word)
           Newest(l) ==
             /\ length % Size(l, word) = 0
             /\ \A k \in Layouts : k > l => length % Size(k, word) # 0
<1>1. \/ word = 4 /\ Size(6, word) = 36 /\ Size(9, word) = 40 /\ Size(11, word) = 44
      \/ word = 8 /\ Size(6, word) = 56 /\ Size(9, word) = 64 /\ Size(11, word) = 72
  BY SizesOfLayouts, SMT
<1>2. /\ length % Size(layout, word) = 0 /\ length \div Size(layout, word) = number
      /\ \A k \in Layouts : k > layout => length % Size(k, word) # 0
  BY <1>1, SMT DEF Layouts
<1>3. \A l \in Layouts : Newest(l) <=> l = layout
  BY <1>2, SMT DEF Layouts
<1>4. (CHOOSE l \in Layouts : Newest(l)) = layout
  <2> HIDE DEF Newest
  <2>1. QED
    BY <1>3, Zenon
<1>5. HalCalls(layout, number, word) =
        [layout |-> CHOOSE l \in Layouts : Newest(l),
         number |-> length \div Size(CHOOSE l \in Layouts : Newest(l), word)]
  BY DEF HalCalls
<1> DEFINE newest == CHOOSE l \in Layouts : Newest(l)
<1>6. newest = layout
  BY <1>4
<1>7. HalCalls(layout, number, word) =
        [layout |-> newest, number |-> length \div Size(newest, word)]
  BY <1>5
<1>8. length \div Size(layout, word) = number
  BY <1>2
<1> HIDE DEF newest, length
<1>9. QED
  BY <1>6, <1>7, <1>8

LEMMA CallsAsGiven == AllAsGiven(CallLists) /\ AllAsGiven(OneCall)
<1>1. ASSUME NEW given \in CallLists \cup OneCall
      PROVE  AsGiven(given, Heard(given))
  <2>1. /\ given.kind = "calls" /\ given.layout \in Layouts /\ given.number \in 1 .. 12
        /\ given.word \in {4, 8}
    BY SMT DEF CallLists, OneCall, MaxCalls
  <2>2. Heard(given) = HalCalls(given.layout, given.number, given.word)
    BY <2>1, HeardByKind, SMT
  <2>3. given.number <= 7 =>
          HalCalls(given.layout, given.number, given.word)
            = [layout |-> given.layout, number |-> given.number]
    <3>1. ASSUME given.number <= 7
          PROVE  given.number \in 1 .. 7
      BY <2>1, <3>1, SMT
    <3>2. QED
      BY <2>1, <3>1, LayoutIsTold, Zenon
  <2>4. QED
    BY <2>1, <2>2, <2>3, SMT DEF AsGiven
<1>2. QED
  BY <1>1, SMT DEF AllAsGiven

LEMMA ContentsAsGiven ==
  ASSUME NEW f, NEW shape, NEW given \in ContentsOf(f, shape)
  PROVE  AsGiven(given, Heard(given))
<1>1. AsGiven(Plain, Heard(Plain))
  BY HeardByKind, SMT DEF AsGiven, Plain
<1>2. \/ given = Plain
      \/ given \in Signals \/ given \in Cells \/ given \in Identities
      \/ given \in VoiceRegistrations \/ given \in DataRegistrations
      \/ given \in CallLists \/ given \in OneCall
  BY SMT DEF ContentsOf, Contents
<1>3. QED
  BY <1>1, <1>2, SignalsAsGiven, CellsAsGiven, RegistrationsAsGiven, CallsAsGiven, Zenon
     DEF AllAsGiven

LEMMA ConversionStep == HeardAsGiven /\ [Next]_vars => HeardAsGiven'
<1> SUFFICES ASSUME HeardAsGiven, [Next]_vars
             PROVE  HeardAsGiven'
  OBVIOUS
<1>1. CASE told' = told
  BY <1>1 DEF HeardAsGiven
<1>2. CASE told' = Silence
  <2>1. told'.given = Plain /\ told'.heard = Plain
    BY <1>2 DEF Silence
  <2>2. QED
    BY <2>1, SMT DEF HeardAsGiven, AsGiven, Plain
<1>3. ASSUME NEW f, NEW shape, NEW given \in ContentsOf(f, shape),
             told'.given = given, told'.heard = Heard(given)
      PROVE  HeardAsGiven'
  BY <1>3, ContentsAsGiven DEF HeardAsGiven
<1>4. ASSUME NEW code, NEW e, NEW shape, Respond(code, e, shape)
      PROVE  HeardAsGiven'
  <2>1. PICK given \in ContentsOf(Commands[code], shape) :
          \/ told' = told
          \/ told'.given = given /\ told'.heard = Heard(given)
    BY <1>4, CallUpTells DEF Respond
  <2>2. QED
    BY <1>1, <1>3, <2>1
<1>5. ASSUME NEW u \in DOMAIN UnsolResponses, Indicate(u)
      PROVE  HeardAsGiven'
  <2>1. PICK shape : \E given \in ContentsOf(UnsolResponses[u], shape) :
          \/ told' = told
          \/ told'.given = given /\ told'.heard = Heard(given)
    BY <1>5, CallUpTells DEF Indicate
  <2>2. QED
    BY <1>1, <1>3, <2>1
<1>6. CASE StepFails \/ Complete
  BY <1>4, <1>6 DEF StepFails, Complete
<1>7. QED
  BY <1>1, <1>2, <1>5, <1>6
     DEF Next, vars, Ask, AskWithoutMemory, StepPasses, CallOnRequest, Return, Forget,
         SetResponseFunctions, SetOemResponseFunctions, AnswerOfNoIntegers,
         IndicateKeepalive, Restart,
         NitzReceived, KeepFrees,
         KeepCopies, Look, ResendTells, ResendFrees

\* A client hears the signal, cell, registration or list of calls that was given, but for what
\* the property names (HeardAsGiven): through whichever response or indication function the
\* data goes, and whichever layout, technology and length it has.
THEOREM AlwaysHeardAsGiven == Spec => []HeardAsGiven
<1>1. Init => HeardAsGiven
  BY SMT DEF Init, HeardAsGiven, AsGiven, Silence, Plain
<1>2. QED
  BY <1>1, ConversionStep, PTL DEF Spec
=============================================================================
