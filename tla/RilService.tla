---------------------------- MODULE RilService ----------------------------
(***************************************************************************)
(* libril's radio service between the telephony process and the vendor     *)
(* library. A method of IRadio makes a request in steps that can fail,     *)
(* hands it to the vendor or refuses it; the vendor's answer goes through  *)
(* the function of its request code to a callback of the client; an        *)
(* unsolicited message goes to an indication. RilServiceTables says which. *)
(*                                                                         *)
(* The network's time (NITZ) that no client has heard is kept for the next *)
(* one: the vendor's thread keeps it after it has given up the lock, and   *)
(* the binder thread that registers a client sends it with the time of     *)
(* receipt, which is one variable for all.                                 *)
(*                                                                         *)
(* RilRequests has the list of requests, the locks and the counter of the  *)
(* callbacks; here one request is under way at a time, and clients come    *)
(* and NITZ moves while none is: those steps touch none of its state.      *)
(***************************************************************************)
EXTENDS RilServiceTables

CONSTANTS MaxTime    \* bounds how many NITZ messages come

VARIABLES
  version,      \* of the vendor library
  client,       \* "none", or the version of the callbacks that are registered
  oem,          \* whether the OEM hook has callbacks
  request,      \* the request under way, or NoRequest
  told,         \* what a client was told of it, or of the last indication
  crashed,      \* "no", or the function that ended the process
  time,         \* nitzTimeReceived; stands for the message received then as well
  kept,         \* s_lastNITZTimeData: the message kept for the next client, or 0
  keeping,      \* the message the vendor's thread is about to keep, or 0
  connecting,   \* where onNewCommandConnect is: "no", "look", "resend", or about to free what
                \* it has sent, "free" with the lock held and "failed" after a failed call
  nitzTold      \* the NITZ messages clients were told, each with its time of receipt

nitz == <<time, kept, keeping, connecting, nitzTold>>
vars == <<version, client, oem, request, told, crashed, nitz>>

Errors == {"SUCCESS", "GENERIC_FAILURE"}    \* what the vendor library answers

Methods == DOMAIN Requests \cup DOMAIN VersionedRequests

PlansOf(m) == IF m \in DOMAIN Requests THEN Requests[m] ELSE VersionedRequests[m][version]

NoRequest == [method |-> "none", stage |-> "over", answers |-> 0]

Silence == [by |-> "nobody", error |-> "SUCCESS", of |-> "SUCCESS", shape |-> "none",
            given |-> Plain, heard |-> Plain]

Idle == crashed = "no" /\ request = NoRequest /\ told = Silence

Init ==
  /\ version \in Versions
  /\ client = "none" /\ oem = FALSE
  /\ request = NoRequest /\ told = Silence /\ crashed = "no"
  /\ time = 0 /\ kept = 0 /\ keeping = 0 /\ connecting = "no" /\ nitzTold = <<>>

-----------------------------------------------------------------------------
(* Calls to the client.                                                    *)

\* Whether function f has callbacks to call.
HasClient(f) ==
  IF f \in ForOem THEN oem ELSE IF f \in Needs11 THEN client = "1.1" ELSE client # "none"

\* A call to the client: it is told, or the call fails and checkReturnStatus resets
\* the callbacks.
CallUp(f, what) ==
  IF ~HasClient(f) THEN UNCHANGED <<told, client, oem>>
  ELSE \/ told' = what /\ UNCHANGED <<client, oem>>
       \/ /\ told' = told
          /\ IF f \in ForOem THEN oem' = FALSE /\ UNCHANGED client
             ELSE client' = "none" /\ UNCHANGED oem

\* What data of a shape may hold for function f.
ContentsOf(f, shape) == IF shape = "full" THEN Contents(f, version) ELSE {Plain}

\* The response function of a code, given error e and data of some shape: an error of
\* the vendor's is passed on; a success needs data the form takes. Data it takes is
\* converted whatever the error.
Respond(code, e, shape) ==
  LET f == Commands[code]
      form == Responses[f]
      valid == shape \in form.whole \cup form.empty
  IN  \E given \in ContentsOf(f, shape) :
        CallUp(f, [by |-> Callback(f, client), of |-> e, shape |-> shape,
                   given |-> given, heard |-> Heard(given),
                   error |-> IF e = "SUCCESS" /\ ~valid THEN "INVALID_RESPONSE" ELSE e])

-----------------------------------------------------------------------------
(* Requests. A guarded request that cannot be put on the list just ends;   *)
(* every step below is of a request that was.                              *)

\* A bound: requests come before the first NITZ message. Neither touches what the other
\* reads, beside the callbacks, which an indication may have reset at any time.
BeforeNitz == time = 0

Ask(m) ==
  /\ Idle /\ BeforeNitz
  /\ \E plan \in PlansOf(m) :
       request' = [method |-> m, plan |-> plan, step |-> 1, held |-> {}, stage |-> "steps",
                   answers |-> 0, completed |-> FALSE]
  /\ UNCHANGED <<version, client, oem, told, crashed, nitz>>

\* addRequestToList finds no memory, and the method does not look.
AskWithoutMemory(m) ==
  /\ Idle /\ BeforeNitz
  /\ \E plan \in PlansOf(m) : ~plan.guarded
  /\ crashed' = m
  /\ UNCHANGED <<version, client, oem, request, told, nitz>>

StepOf(r) == r.plan.steps[r.step]

InSteps == crashed = "no" /\ request # NoRequest /\ request.stage = "steps"

StepPasses ==
  /\ InSteps
  /\ request.step <= Len(request.plan.steps)
  /\ StepOf(request).passes
  /\ request' = [request EXCEPT !.step = @ + 1,
                   !.held = IF StepOf(request).makes THEN @ \cup {request.step} ELSE @]
  /\ UNCHANGED <<version, client, oem, told, crashed, nitz>>

\* A mutant of StepFails: the method goes on after it has refused the request.
StepFailsAndGoesOn ==
  /\ InSteps
  /\ request.step <= Len(request.plan.steps)
  /\ \E e \in StepOf(request).errors : Respond(request.plan.code, e, "none")
  /\ request' = [request EXCEPT !.step = @ + 1, !.answers = @ + 1]
  /\ UNCHANGED <<version, crashed, nitz>>

\* sendErrorResponse, with no data; then the buffers so far are freed.
StepFails ==
  /\ InSteps
  /\ request.step <= Len(request.plan.steps)
  /\ \E e \in StepOf(request).errors : Respond(request.plan.code, e, "none")
  /\ request' = [request EXCEPT !.stage = "refused", !.answers = @ + 1,
                   !.held = @ \ StepOf(request).frees]
  /\ UNCHANGED <<version, crashed, nitz>>

\* CALL_ONREQUEST.
CallOnRequest ==
  /\ InSteps
  /\ request.step > Len(request.plan.steps)
  /\ request' = [request EXCEPT !.stage = "called"]
  /\ UNCHANGED <<version, client, oem, told, crashed, nitz>>

\* The vendor's onRequest returns, and the buffers are freed.
Return ==
  /\ crashed = "no" /\ request # NoRequest /\ request.stage = "called"
  /\ request' = [request EXCEPT !.stage = "returned", !.held = @ \ request.plan.after]
  /\ UNCHANGED <<version, client, oem, told, crashed, nitz>>

\* RIL_onRequestComplete, from within onRequest or later, with no data beside an error.
Complete ==
  /\ crashed = "no" /\ request # NoRequest
  /\ request.stage \in {"called", "returned"} /\ ~request.completed
  /\ \E e \in Errors, shape \in Responses[Commands[request.plan.code]].sent :
       /\ e # "SUCCESS" => shape \in {"void", "none", "full"}
       /\ Respond(request.plan.code, e, shape)
  /\ request' = [request EXCEPT !.answers = @ + 1, !.completed = TRUE]
  /\ UNCHANGED <<version, crashed, nitz>>

\* iccOpenLogicalChannelResponse makes room for one integer less than came, which for a
\* length of 0 is more than there can be: the process ends.
AnswerOfNoIntegers ==
  /\ crashed = "no" /\ request # NoRequest
  /\ request.stage \in {"called", "returned"} /\ ~request.completed
  /\ Commands[request.plan.code] = "iccOpenLogicalChannelResponse" /\ client # "none"
  /\ crashed' = "iccOpenLogicalChannelResponse"
  /\ UNCHANGED <<version, client, oem, request, told, nitz>>

Over == request.stage = "refused" \/ (request.stage = "returned" /\ request.completed)

\* The request is over: the next may come.
Forget ==
  /\ crashed = "no" /\ ~Idle
  /\ request # NoRequest => Over
  /\ request' = NoRequest /\ told' = Silence
  /\ UNCHANGED <<version, client, oem, crashed, nitz>>

-----------------------------------------------------------------------------
(* Clients and indications.                                                *)

\* RadioImpl::setResponseFunctions, until it calls onNewCommandConnect.
SetResponseFunctions ==
  /\ Idle /\ connecting = "no"
  /\ client' \in {"1.0", "1.1"}
  /\ connecting' = "look"
  /\ UNCHANGED <<version, oem, request, told, crashed, time, kept, keeping, nitzTold>>

SetOemResponseFunctions ==
  /\ Idle /\ ~oem
  /\ oem' = TRUE
  /\ UNCHANGED <<version, client, request, told, crashed, nitz>>

\* RIL_onUnsolicitedResponse for a code other than NITZ. onNewCommandConnect sends the
\* client RIL_CONNECTED and RADIO_STATE_CHANGED this way.
Indicate(u) ==
  /\ Idle
  /\ UnsolResponses[u] \in DOMAIN Indications
  /\ LET f == UnsolResponses[u] IN
       \E shape \in Indications[f].sent : \E given \in ContentsOf(f, shape) :
         /\ shape \in Indications[f].whole \cup Indications[f].empty
         /\ ~(f = "keepaliveStatusInd" /\ client = "1.0")
         /\ CallUp(f, [by |-> f, error |-> "SUCCESS", of |-> "SUCCESS", shape |-> shape,
                      given |-> given, heard |-> Heard(given)])
  /\ UNCHANGED <<version, request, crashed, nitz>>

\* keepaliveStatusInd takes a client for one of version 1.1 when the cast gives no error;
\* for one of 1.0 it gives NULL.
IndicateKeepalive ==
  /\ Idle /\ client = "1.0"
  /\ crashed' = "keepaliveStatusInd"
  /\ UNCHANGED <<version, client, oem, request, told, nitz>>

\* init starts the daemon again.
Restart ==
  /\ crashed # "no"
  /\ client' = "none" /\ oem' = FALSE
  /\ request' = NoRequest /\ told' = Silence /\ crashed' = "no"
  /\ kept' = 0 /\ keeping' = 0 /\ connecting' = "no"
  /\ UNCHANGED <<version, time, nitzTold>>

-----------------------------------------------------------------------------
(* NITZ.                                                                   *)

\* radio::nitzTimeReceivedInd for message n: the client is told with the time of receipt
\* as it stands, or the call fails and the callbacks are reset; both count as sent.
TellNitz(n) ==
  \/ nitzTold' = Append(nitzTold, <<n, time'>>) /\ UNCHANGED client
  \/ client' = "none" /\ UNCHANGED nitzTold

\* RIL_onUnsolicitedResponse under the write lock, which resendLastNITZTimeData keeps away
\* while it sends and frees; not when its call has failed, since checkReturnStatus gives
\* the read lock up for a while.
NitzReceived ==
  /\ Idle /\ keeping = 0 /\ time < MaxTime /\ connecting # "free"
  /\ time' = time + 1
  /\ IF client # "none" THEN TellNitz(time') /\ UNCHANGED keeping
     ELSE keeping' = time' /\ UNCHANGED <<client, nitzTold>>
  /\ UNCHANGED <<version, oem, request, told, crashed, kept, connecting>>

\* The lock is given up. What was kept before is freed, ...
KeepFrees ==
  /\ Idle /\ keeping # 0 /\ kept # 0
  /\ kept' = 0
  /\ UNCHANGED <<version, client, oem, request, told, crashed, time, keeping, connecting,
                 nitzTold>>

\* ... and the message is kept, if there is memory for it.
KeepCopies ==
  /\ Idle /\ keeping # 0 /\ kept = 0
  /\ kept' \in {keeping, 0} /\ keeping' = 0
  /\ UNCHANGED <<version, client, oem, request, told, crashed, time, connecting, nitzTold>>

\* onNewCommandConnect looks for a message that was kept.
Look ==
  /\ Idle /\ connecting = "look"
  /\ connecting' = IF kept # 0 THEN "resend" ELSE "no"
  /\ UNCHANGED <<version, client, oem, request, told, crashed, time, kept, keeping, nitzTold>>

\* resendLastNITZTimeData under the read lock: what is kept by now is sent, or nothing if
\* it was freed since; both count as sent.
ResendTells ==
  /\ Idle /\ connecting = "resend"
  /\ UNCHANGED time
  /\ \/ /\ client = "none"
        /\ connecting' = "no" /\ UNCHANGED <<client, nitzTold>>
     \/ /\ client # "none" /\ kept = 0
        /\ connecting' = "free" /\ UNCHANGED <<client, nitzTold>>
     \/ /\ client # "none" /\ kept # 0
        /\ TellNitz(kept)
        /\ connecting' = IF client' = "none" THEN "failed" ELSE "free"
  /\ UNCHANGED <<version, oem, request, told, crashed, kept, keeping>>

\* A mutant of ResendFrees: what was sent stays.
ResendKeeps ==
  /\ Idle /\ connecting \in {"free", "failed"}
  /\ connecting' = "no"
  /\ UNCHANGED <<version, client, oem, request, told, crashed, time, kept, keeping, nitzTold>>

\* What is kept is freed: what was sent, or a newer message that has taken its place.
ResendFrees ==
  /\ Idle /\ connecting \in {"free", "failed"}
  /\ kept' = 0 /\ connecting' = "no"
  /\ UNCHANGED <<version, client, oem, request, told, crashed, time, keeping, nitzTold>>

-----------------------------------------------------------------------------

Next ==
  \/ \E m \in Methods : Ask(m)
  \/ \E m \in Methods : AskWithoutMemory(m)
  \/ StepPasses \/ StepFails \/ CallOnRequest \/ Return \/ Complete
  \/ AnswerOfNoIntegers \/ Forget
  \/ SetResponseFunctions \/ SetOemResponseFunctions
  \/ \E u \in DOMAIN UnsolResponses : Indicate(u)
  \/ IndicateKeepalive \/ Restart
  \/ NitzReceived \/ KeepFrees \/ KeepCopies \/ Look \/ ResendTells \/ ResendFrees

Spec == Init /\ [][Next]_vars

-----------------------------------------------------------------------------
(* Properties.                                                             *)

\* A request is answered once, whether it is refused at any of its steps or handed to
\* the vendor: a refusal that went on, or a failure that said nothing, would be seen.
OneAnswer ==
  /\ request.answers <= 1
  /\ request # NoRequest /\ Over => request.answers = 1

\* Whichever step of a request fails, and after it was handed over, every buffer made for
\* it is freed. (setCarrierInfoForImsiEncryption never frees its three strings.)
BuffersFreed ==
  request # NoRequest /\ Over =>
    request.held \subseteq
      IF request.method = "setCarrierInfoForImsiEncryption" THEN {1, 2, 3} ELSE {}

\* An empty list is all of it.
Lists ==
  { "getCurrentCallsResponse", "getCallForwardStatusResponse", "getAvailableNetworksResponse",
    "getDataCallListResponse", "getAvailableBandModesResponse", "getNeighboringCidsResponse",
    "getGsmBroadcastConfigResponse", "getCdmaBroadcastConfigResponse",
    "getCellInfoListResponse", "getHardwareConfigResponse", "sendRequestStringsResponse",
    "sendRequestRawResponse", "dataCallListChangedInd", "cellInfoListInd",
    "hardwareConfigChangedInd", "callRingInd" }

\* NULL is told as a value of its own: as an empty string,
EmptyStrings ==
  { "getIMSIForAppResponse", "getBasebandVersionResponse", "sendEnvelopeResponse",
    "getSmscAddressResponse", "requestIsimAuthenticationResponse", "nvReadItemResponse" }

\* as -1 retries left,
RetriesLeft ==
  { "supplyIccPinForAppResponse", "supplyIccPukForAppResponse", "supplyIccPin2ForAppResponse",
    "supplyIccPuk2ForAppResponse", "changeIccPinForAppResponse", "changeIccPin2ForAppResponse",
    "supplyNetworkDepersonalizationResponse", "setFacilityLockForAppResponse" }

\* as a call whose status says that it failed, as channel -1, or as all carriers allowed.
OtherDefaults ==
  { "setupDataCallResponse", "iccOpenLogicalChannelResponse", "getAllowedCarriersResponse" }

\* Read as one integer, or one call, though the length says that there is none.
ReadWithoutLength == RetriesLeft \cup
  { "getFacilityLockForAppResponse", "getNetworkSelectionModeResponse", "getMuteResponse",
    "getClipResponse", "writeSmsToSimResponse", "getPreferredNetworkTypeResponse",
    "getCdmaRoamingPreferenceResponse", "getTTYModeResponse", "writeSmsToRuimResponse",
    "getCdmaSubscriptionSourceResponse", "getVoiceRadioTechnologyResponse",
    "setAllowedCarriersResponse", "setupDataCallResponse", "newSmsOnSimInd", "stkCallSetupInd",
    "restrictedStateChangedInd", "cdmaOtaProvisionStatusInd", "indicateRingbackToneInd",
    "cdmaSubscriptionSourceChangedInd", "cdmaPrlChangedInd", "voiceRadioTechChangedInd",
    "subscriptionStatusChangedInd", "srvccStateNotifyInd" }

\* Read though cut short: the length is tested the wrong way round, or not at all.
ReadTorn == { "getLastCallFailCauseResponse", "networkScanResultInd" }

\* The data a success may come with: full data, where there is any to give, or
Enough(by, shape) ==
  \/ shape \in {"void", "full"}
  \/ shape = "none" /\ by \in Lists \cup EmptyStrings \cup RetriesLeft \cup OtherDefaults
  \/ shape = "zero" /\ by \in Lists \cup ReadWithoutLength
  \/ shape = "torn" /\ by \in ReadTorn

\* An error of the vendor's reaches the client as it is, full data as a success too, and
\* data that is missing, empty, torn or refused as a failure, whatever the response
\* function. Excepted are, by name, the functions that tell NULL as a value of its own,
\* those that read an integer or a call from data of length 0, and the two that read what
\* is torn. An indication with data that is not there in full is not sent.
AnswerIsTrue ==
  told.by = "nobody" \/
    /\ told.of # "SUCCESS" => told.error = told.of
    /\ told.of = "SUCCESS" => told.error \in {"SUCCESS", "INVALID_RESPONSE"}
    /\ told.of = "SUCCESS" /\ told.shape = "full" => told.error = "SUCCESS"
    /\ told.error = "SUCCESS" => Enough(told.by, told.shape)

Unknown(field) == IF field = "signalStrength" THEN 99 ELSE INT_MAX

\* What is heard says what was given: what is not known is not told as known, and
\* nothing is lost or changed.
AsGiven(given, heard) ==
  /\ given.kind = "plain" => heard = Plain
  /\ given.kind = "signal" =>
       /\ \A f \in {"signalStrength", "rsrp", "rsrq", "cqi"} :
            heard[f] = Unknown(f) <=> given.value = -1
       /\ heard.rsrp >= 0
       /\ heard.rscp = INT_MAX <=> given.layout = 8
  /\ given.kind \in {"cell", "identity"} =>
       /\ heard.vectors = {given.type} \ {"NONE"}
       /\ heard.mcc \subseteq {given.mcc}
       /\ heard.mcc = {} <=>
            given.type \in {"NONE", "CDMA"} \/ (given.kind = "identity" /\ given.mcc = -1)
  /\ given.kind \in {"voice", "data"} =>
       /\ heard.vectors = {CellTypeOf[given.rat]} \ {"NONE"}
       /\ given.strings \notin 7 .. 12 =>
            heard.fields = {f \in DOMAIN Fields(given.kind, given.rat) :
                              Fields(given.kind, given.rat)[f] < given.strings}
  /\ given.kind = "calls" /\ given.number <= 7 =>
       heard = [layout |-> given.layout, number |-> given.number]

\* A client hears the signal, cell, registration or list of calls that was given: what
\* the vendor does not know or its layout cannot say is not told as known, and nothing
\* else is lost or changed, however long the data and whatever the technology. Excepted
\* are the timing advance of the older layout, told as 0; a country code that a cell
\* list or a structure says is not known, told as a number; what data registrations of
\* 7 to 12 strings say after the sixth; and lists of more than 7 data calls, whose
\* length may be one of another layout too.
HeardAsGiven == AsGiven(told.given, told.heard)

\* The callback IRadio declares for the answer to a method.
ResponsesOf(m) ==
  IF m \in {"setSimCardPower", "setSimCardPower_1_1"}
  THEN {"setSimCardPowerResponse", "setSimCardPowerResponse_1_1"}
  ELSE {DeclaredResponses[m]}

\* What a client hears about its request comes through the callback of the method it
\* called: the method's request code, the row of the command table at that code and the
\* callback that row's function calls belong together, in all the tables.
OwnMethod ==
  request # NoRequest /\ told # Silence => told.by \in ResponsesOf(request.method)

\* The same, but for the one response function that calls another's callback.
OwnMethodButOne ==
  request.method # "hangupForegroundResumeBackground" => OwnMethod

\* Nothing is called through NULL: not a request that could not be listed and not the
\* callbacks of a newer client than there is, but for two methods of an old vendor
\* library and one indication. (An answer of length 0 ends the process in another way.)
CallsAreGuarded ==
  \/ crashed \in {"no", "keepaliveStatusInd", "iccOpenLogicalChannelResponse"}
  \/ crashed \in {"sendDeviceState", "setIndicationFilter"} /\ version < 15

\* No NITZ message is told twice, by the indication and by the resending, or by two
\* resendings to clients that come one after the other, and none that never came.
NitzOnce ==
  /\ \A i \in DOMAIN nitzTold : nitzTold[i][1] > 0
  /\ \A i, j \in DOMAIN nitzTold : nitzTold[i][1] = nitzTold[j][1] => i = j

\* A NITZ message reaches a client with the time at which it was received.
NitzWithItsTime == \A i \in DOMAIN nitzTold : nitzTold[i][1] = nitzTold[i][2]

=============================================================================
