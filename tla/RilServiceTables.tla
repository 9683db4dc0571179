------------------------- MODULE RilServiceTables -------------------------
(***************************************************************************)
(* What libril's radio service does with each call, row by row: how every  *)
(* method of IRadio and IOemHook makes its request (ril_service.cpp),      *)
(* which function answers each request code (ril_commands.h), what every   *)
(* response and indication function takes for valid data, and which        *)
(* function passes on each unsolicited code (ril_unsol_commands.h).        *)
(* RilService is the state machine that follows these tables.              *)
(***************************************************************************)
EXTENDS RilConversions, Sequences

CONSTANTS Versions    \* versions of the vendor library (RIL_RadioFunctions.version)

ASSUME VersionsAssumption == Versions \subseteq Nat

-----------------------------------------------------------------------------
(* A plan is how a method makes its request: the steps that can fail, each *)
(* with the buffers it frees when it does, and the buffers freed after the *)
(* vendor's onRequest. Step i makes buffer i, unless it only checks.       *)

Step(errors, makes, frees) ==
  [errors |-> errors, makes |-> makes, frees |-> frees, passes |-> TRUE]

\* calloc of an array or a block of integers.
Alloc(frees) == Step({"NO_MEMORY"}, TRUE, frees)

\* copyHidlStringToRil: no memory, or a string that is not as long as it says.
\* (An empty string makes no buffer; freeing it is freeing NULL.)
Copy(frees) == Step({"NO_MEMORY", "INTERNAL_ERR"}, TRUE, frees)

\* A check of the arguments.
Check(frees) == Step({"INVALID_ARGUMENTS"}, FALSE, frees)

\* operator new, which ends the process rather than fail.
New == Step({}, TRUE, {})

\* A mutant of Plan: a method that does not look whether its request could be listed.
PlanUnguarded(code, steps, after) ==
  [code |-> code, steps |-> steps, after |-> after, guarded |-> FALSE]

Plan(code, steps, after) ==
  [code |-> code, steps |-> steps, after |-> after, guarded |-> TRUE]

\* A request that is put on the list only to be refused; guarded when the code
\* looks whether it could be put there.
Refusal(code, error, guarded) ==
  [code |-> code, steps |-> <<[Step({error}, FALSE, {}) EXCEPT !.passes = FALSE]>>,
   after |-> {}, guarded |-> guarded]

\* dispatchVoid and dispatchRaw: no buffer of the service's own.
Void(code) == {Plan(code, <<>>, {})}

\* dispatchString, and dispatchCallForwardStatus and dispatchIccApdu with their one string.
String(code) == {Plan(code, <<Copy({})>>, {1})}

\* A mutant of Strings: on a failure one string too few is freed.
StringsLeaky(code, n) ==
  {Plan(code, [i \in 1 .. n + 1 |-> IF i = 1 THEN Alloc({}) ELSE Copy(1 .. i - 2)], 1 .. n + 1)}

\* dispatchStrings: the array of pointers, then the strings, all freed when one fails.
Strings(code, n) ==
  {Plan(code, [i \in 1 .. n + 1 |-> IF i = 1 THEN Alloc({}) ELSE Copy(1 .. i - 1)], 1 .. n + 1)}

\* dispatchInts.
Ints(code) == {Plan(code, <<Alloc({})>>, {1})}

\* With a vendor library of version 15 a data call takes the type of the MVNO as well.
SetupDataCall ==
  [v \in Versions |->
     IF v < 4 THEN {Refusal("SETUP_DATA_CALL", "REQUEST_NOT_SUPPORTED", TRUE)}
     ELSE IF v <= 14 THEN Strings("SETUP_DATA_CALL", 7)
     ELSE Strings("SETUP_DATA_CALL", 15)
            \cup {Refusal("SETUP_DATA_CALL", "INVALID_ARGUMENTS", TRUE)}]

\* apn, protocol, user and password; from version 15 the roaming protocol, the
\* type of the MVNO and its match data as well.
SetInitialAttachApn ==
  [v \in Versions |->
     IF v <= 14
     THEN {Plan("SET_INITIAL_ATTACH_APN", [i \in 1 .. 4 |-> Copy(1 .. i - 1)], 1 .. 4)}
     ELSE {Plan("SET_INITIAL_ATTACH_APN",
                [i \in 1 .. 5 |-> Copy(1 .. i - 1)] \o <<Check(1 .. 5), Copy(1 .. 5)>>,
                (1 .. 5) \cup {7})}]

\* Profiles, pointers to them and the strings of one profile; freeSetDataProfileData
\* frees whatever there is.
SetDataProfile ==
  [v \in Versions |->
     LET copies == IF v <= 14 THEN 4 ELSE 6
         makes == [i \in 1 .. copies + 2 |-> IF i <= 2 THEN Alloc(1 .. i - 1) ELSE Copy(1 .. i - 1)]
     IN  {Plan("SET_DATA_PROFILE",
               IF v <= 14 THEN makes ELSE Append(makes, Check(1 .. copies + 2)),
               1 .. copies + 2)}]

\* A GSM message is checked and its two strings copied, a CDMA message is checked
\* only, and any other is refused.
SendImsSms ==
  {Plan("IMS_SEND_SMS", <<Check({}), Alloc({}), Copy({2}), Copy({2, 3})>>, 2 .. 4),
   Plan("IMS_SEND_SMS", <<Check({})>>, {}),
   Refusal("IMS_SEND_SMS", "INVALID_ARGUMENTS", TRUE)}

\* Before version 15 there is only the screen state; the other states are refused.
SendDeviceState ==
  [v \in Versions |->
     IF v < 15 THEN Ints("SCREEN_STATE")
                      \cup {Refusal("SEND_DEVICE_STATE", "REQUEST_NOT_SUPPORTED", FALSE)}
     ELSE Ints("SEND_DEVICE_STATE")]

SetIndicationFilter ==
  [v \in Versions |->
     IF v < 15 THEN {Refusal("SET_UNSOLICITED_RESPONSE_FILTER", "REQUEST_NOT_SUPPORTED", FALSE)}
     ELSE Ints("SET_UNSOLICITED_RESPONSE_FILTER")]

VersionedRequests ==
  [ setupDataCall |-> SetupDataCall, setInitialAttachApn |-> SetInitialAttachApn,
    setDataProfile |-> SetDataProfile, sendDeviceState |-> SendDeviceState,
    setIndicationFilter |-> SetIndicationFilter ]

\* Tables that have no row in common, as one.
Joined(tables) ==
  [row \in UNION {DOMAIN t : t \in tables} |-> (CHOOSE t \in tables : row \in DOMAIN t)[row]]

\* IRadio::getIccCardStatus .. hangup.
SimRequests ==
  [ getIccCardStatus |-> Void("GET_SIM_STATUS"), supplyIccPinForApp |-> Strings("ENTER_SIM_PIN", 2),
    supplyIccPukForApp |-> Strings("ENTER_SIM_PUK", 3),
    supplyIccPin2ForApp |-> Strings("ENTER_SIM_PIN2", 2),
    supplyIccPuk2ForApp |-> Strings("ENTER_SIM_PUK2", 3),
    changeIccPinForApp |-> Strings("CHANGE_SIM_PIN", 3),
    changeIccPin2ForApp |-> Strings("CHANGE_SIM_PIN2", 3),
    supplyNetworkDepersonalization |-> Strings("ENTER_NETWORK_DEPERSONALIZATION", 1),
    getCurrentCalls |-> Void("GET_CURRENT_CALLS"),
    dial |-> {Plan("DIAL", <<Copy({})>>, {1}), Plan("DIAL", <<Copy({}), Copy({1})>>, 1..2)},
    getImsiForApp |-> Strings("GET_IMSI", 1), hangup |-> Ints("HANGUP") ]

\* IRadio::hangupWaitingOrBackground .. sendSMSExpectMore.
CallRequests ==
  [ hangupWaitingOrBackground |-> Void("HANGUP_WAITING_OR_BACKGROUND"),
    hangupForegroundResumeBackground |-> Void("HANGUP_FOREGROUND_RESUME_BACKGROUND"),
    switchWaitingOrHoldingAndActive |-> Void("SWITCH_WAITING_OR_HOLDING_AND_ACTIVE"),
    conference |-> Void("CONFERENCE"), rejectCall |-> Void("UDUB"),
    getLastCallFailCause |-> Void("LAST_CALL_FAIL_CAUSE"),
    getSignalStrength |-> Void("SIGNAL_STRENGTH"),
    getVoiceRegistrationState |-> Void("VOICE_REGISTRATION_STATE"),
    getDataRegistrationState |-> Void("DATA_REGISTRATION_STATE"), getOperator |-> Void("OPERATOR"),
    setRadioPower |-> Ints("RADIO_POWER"), sendDtmf |-> String("DTMF"),
    sendSms |-> Strings("SEND_SMS", 2), sendSMSExpectMore |-> Strings("SEND_SMS_EXPECT_MORE", 2) ]

\* IRadio::setupDataCall .. setCallForward.
DataRequests ==
  [ iccIOForApp |-> {Plan("SIM_IO", <<Copy({}), Copy({1}), Copy(1..2), Copy(1..3)>>, 1..4)},
    sendUssd |-> String("SEND_USSD"), cancelPendingUssd |-> Void("CANCEL_USSD"),
    getClir |-> Void("GET_CLIR"), setClir |-> Ints("SET_CLIR"),
    getCallForwardStatus |-> String("QUERY_CALL_FORWARD_STATUS"),
    setCallForward |-> String("SET_CALL_FORWARD") ]

\* IRadio::getCallWaiting .. getAvailableNetworks.
FacilityRequests ==
  [ getCallWaiting |-> Ints("QUERY_CALL_WAITING"), setCallWaiting |-> Ints("SET_CALL_WAITING"),
    acknowledgeLastIncomingGsmSms |-> Ints("SMS_ACKNOWLEDGE"), acceptCall |-> Void("ANSWER"),
    deactivateDataCall |-> Strings("DEACTIVATE_DATA_CALL", 2),
    getFacilityLockForApp |-> Strings("QUERY_FACILITY_LOCK", 4),
    setFacilityLockForApp |-> Strings("SET_FACILITY_LOCK", 5),
    setBarringPassword |-> Strings("CHANGE_BARRING_PASSWORD", 3),
    getNetworkSelectionMode |-> Void("QUERY_NETWORK_SELECTION_MODE"),
    setNetworkSelectionModeAutomatic |-> Void("SET_NETWORK_SELECTION_AUTOMATIC"),
    setNetworkSelectionModeManual |-> String("SET_NETWORK_SELECTION_MANUAL"),
    getAvailableNetworks |-> Void("QUERY_AVAILABLE_NETWORKS") ]

\* IRadio::startNetworkScan .. setSuppServiceNotifications.
NetworkRequests ==
  [ startNetworkScan |-> {Plan("START_NETWORK_SCAN", <<Check({})>>, {})},
    stopNetworkScan |-> Void("STOP_NETWORK_SCAN"), startDtmf |-> String("DTMF_START"),
    stopDtmf |-> Void("DTMF_STOP"), getBasebandVersion |-> Void("BASEBAND_VERSION"),
    separateConnection |-> Ints("SEPARATE_CONNECTION"), setMute |-> Ints("SET_MUTE"),
    getMute |-> Void("GET_MUTE"), getClip |-> Void("QUERY_CLIP"),
    getDataCallList |-> Void("DATA_CALL_LIST"),
    setSuppServiceNotifications |-> Ints("SET_SUPP_SVC_NOTIFICATION") ]

\* IRadio::writeSmsToSim .. getCdmaRoamingPreference.
StkRequests ==
  [ writeSmsToSim |-> {Plan("WRITE_SMS_TO_SIM", <<Copy({}), Copy({1})>>, 1..2)},
    deleteSmsOnSim |-> Ints("DELETE_SMS_ON_SIM"), setBandMode |-> Ints("SET_BAND_MODE"),
    getAvailableBandModes |-> Void("QUERY_AVAILABLE_BAND_MODE"),
    sendEnvelope |-> String("STK_SEND_ENVELOPE_COMMAND"),
    sendTerminalResponseToSim |-> String("STK_SEND_TERMINAL_RESPONSE"),
    handleStkCallSetupRequestFromSim |-> Ints("STK_HANDLE_CALL_SETUP_REQUESTED_FROM_SIM"),
    explicitCallTransfer |-> Void("EXPLICIT_CALL_TRANSFER"),
    setPreferredNetworkType |-> Ints("SET_PREFERRED_NETWORK_TYPE"),
    getPreferredNetworkType |-> Void("GET_PREFERRED_NETWORK_TYPE"),
    getNeighboringCids |-> Void("GET_NEIGHBORING_CELL_IDS"),
    setLocationUpdates |-> Ints("SET_LOCATION_UPDATES"),
    setCdmaSubscriptionSource |-> Ints("CDMA_SET_SUBSCRIPTION_SOURCE"),
    setCdmaRoamingPreference |-> Ints("CDMA_SET_ROAMING_PREFERENCE"),
    getCdmaRoamingPreference |-> Void("CDMA_QUERY_ROAMING_PREFERENCE") ]

\* IRadio::setTTYMode .. getGsmBroadcastConfig.
CdmaRequests ==
  [ setTTYMode |-> Ints("SET_TTY_MODE"), getTTYMode |-> Void("QUERY_TTY_MODE"),
    setPreferredVoicePrivacy |-> Ints("CDMA_SET_PREFERRED_VOICE_PRIVACY_MODE"),
    getPreferredVoicePrivacy |-> Void("CDMA_QUERY_PREFERRED_VOICE_PRIVACY_MODE"),
    sendCDMAFeatureCode |-> String("CDMA_FLASH"), sendBurstDtmf |-> Strings("CDMA_BURST_DTMF", 3),
    sendCdmaSms |-> Void("CDMA_SEND_SMS"),
    acknowledgeLastIncomingCdmaSms |-> Void("CDMA_SMS_ACKNOWLEDGE"),
    getGsmBroadcastConfig |-> Void("GSM_GET_BROADCAST_SMS_CONFIG") ]

\* IRadio::setGsmBroadcastConfig .. exitEmergencyCallbackMode.
BroadcastRequests ==
  [ setGsmBroadcastConfig |-> {Plan("GSM_SET_BROADCAST_SMS_CONFIG", <<Check({})>>, {})},
    setGsmBroadcastActivation |-> Ints("GSM_SMS_BROADCAST_ACTIVATION"),
    getCdmaBroadcastConfig |-> Void("CDMA_GET_BROADCAST_SMS_CONFIG"),
    setCdmaBroadcastConfig |-> {Plan("CDMA_SET_BROADCAST_SMS_CONFIG", <<Check({})>>, {})},
    setCdmaBroadcastActivation |-> Ints("CDMA_SMS_BROADCAST_ACTIVATION"),
    getCDMASubscription |-> Void("CDMA_SUBSCRIPTION"),
    writeSmsToRuim |-> Void("CDMA_WRITE_SMS_TO_RUIM"),
    deleteSmsOnRuim |-> Ints("CDMA_DELETE_SMS_ON_RUIM"),
    getDeviceIdentity |-> Void("DEVICE_IDENTITY"),
    exitEmergencyCallbackMode |-> Void("EXIT_EMERGENCY_CALLBACK_MODE") ]

\* IRadio::getSmscAddress .. setCellInfoListRate.
SmscRequests ==
  [ getSmscAddress |-> Void("GET_SMSC_ADDRESS"), setSmscAddress |-> String("SET_SMSC_ADDRESS"),
    reportSmsMemoryStatus |-> Ints("REPORT_SMS_MEMORY_STATUS"),
    reportStkServiceIsRunning |-> Void("REPORT_STK_SERVICE_IS_RUNNING"),
    getCdmaSubscriptionSource |-> Void("CDMA_GET_SUBSCRIPTION_SOURCE"),
    requestIsimAuthentication |-> String("ISIM_AUTHENTICATION"),
    acknowledgeIncomingGsmSmsWithPdu |-> Strings("ACKNOWLEDGE_INCOMING_GSM_SMS_WITH_PDU", 2),
    sendEnvelopeWithStatus |-> String("STK_SEND_ENVELOPE_WITH_STATUS"),
    getVoiceRadioTechnology |-> Void("VOICE_RADIO_TECH"),
    getCellInfoList |-> Void("GET_CELL_INFO_LIST"),
    setCellInfoListRate |-> Ints("SET_UNSOL_CELL_INFO_LIST_RATE") ]

\* IRadio::setInitialAttachApn .. getImsRegistrationState.
ImsRequests ==
  [ getImsRegistrationState |-> Void("IMS_REGISTRATION_STATE") ]

\* IRadio::sendImsSms .. nvResetConfig.
NvRequests ==
  [ sendImsSms |-> SendImsSms, iccTransmitApduBasicChannel |-> String("SIM_TRANSMIT_APDU_BASIC"),
    iccOpenLogicalChannel |-> String("SIM_OPEN_CHANNEL"),
    iccCloseLogicalChannel |-> Ints("SIM_CLOSE_CHANNEL"),
    iccTransmitApduLogicalChannel |-> String("SIM_TRANSMIT_APDU_CHANNEL"),
    nvReadItem |-> Void("NV_READ_ITEM"), nvWriteItem |-> String("NV_WRITE_ITEM"),
    nvWriteCdmaPrl |-> Void("NV_WRITE_CDMA_PRL"), nvResetConfig |-> Ints("NV_RESET_CONFIG") ]

\* IRadio::setUiccSubscription .. requestIccSimAuthentication.
UiccRequests ==
  [ setUiccSubscription |-> Void("SET_UICC_SUBSCRIPTION"), setDataAllowed |-> Ints("ALLOW_DATA"),
    getHardwareConfig |-> Void("GET_HARDWARE_CONFIG"),
    requestIccSimAuthentication |-> {Plan("SIM_AUTHENTICATION", <<Copy({}), Copy({1})>>, 1..2)} ]

\* IRadio::requestShutdown .. getAllowedCarriers.
CarrierRequests ==
  [ requestShutdown |-> Void("SHUTDOWN"), getRadioCapability |-> Void("GET_RADIO_CAPABILITY"),
    setRadioCapability |-> Void("SET_RADIO_CAPABILITY"), startLceService |-> Ints("START_LCE"),
    stopLceService |-> Void("STOP_LCE"), pullLceData |-> Void("PULL_LCEDATA"),
    getModemActivityInfo |-> Void("GET_ACTIVITY_INFO"),
    setAllowedCarriers |-> {Plan("SET_CARRIER_RESTRICTIONS", <<Alloc({}), Alloc({1})>>, 1..2)},
    getAllowedCarriers |-> Void("GET_CARRIER_RESTRICTIONS") ]

\* IRadio::sendDeviceState .. stopKeepalive.
KeepaliveRequests ==
  [ setSimCardPower |-> Ints("SET_SIM_CARD_POWER"),
    setSimCardPower_1_1 |-> Ints("SET_SIM_CARD_POWER"),
    setCarrierInfoForImsiEncryption |-> {Plan("SET_CARRIER_INFO_IMSI_ENCRYPTION",
           <<Copy({}), Copy({1}), Copy(1..2), New>>, {4})},
    startKeepalive |-> {Plan("START_KEEPALIVE", <<Check({})>>, {})},
    stopKeepalive |-> Void("STOP_KEEPALIVE") ]

\* The two requests of IOemHook.
OemRequests ==
  [ sendRequestRaw |-> Void("OEM_HOOK_RAW"), sendRequestStrings |-> Strings("OEM_HOOK_STRINGS", 2) ]

\* Every request whose plan does not depend on the version of the vendor library.
Requests ==
  Joined({SimRequests, CallRequests, DataRequests, FacilityRequests, NetworkRequests,
    StkRequests, CdmaRequests, BroadcastRequests, SmscRequests, ImsRequests, NvRequests,
    UiccRequests, CarrierRequests, KeepaliveRequests, OemRequests})

\* The command table: the function that answers each request code.
Commands ==
  [ GET_SIM_STATUS |-> "getIccCardStatusResponse", ENTER_SIM_PIN |-> "supplyIccPinForAppResponse",
    ENTER_SIM_PUK |-> "supplyIccPukForAppResponse",
    ENTER_SIM_PIN2 |-> "supplyIccPin2ForAppResponse",
    ENTER_SIM_PUK2 |-> "supplyIccPuk2ForAppResponse",
    CHANGE_SIM_PIN |-> "changeIccPinForAppResponse",
    CHANGE_SIM_PIN2 |-> "changeIccPin2ForAppResponse",
    ENTER_NETWORK_DEPERSONALIZATION |-> "supplyNetworkDepersonalizationResponse",
    GET_CURRENT_CALLS |-> "getCurrentCallsResponse", DIAL |-> "dialResponse",
    GET_IMSI |-> "getIMSIForAppResponse", HANGUP |-> "hangupConnectionResponse",
    HANGUP_WAITING_OR_BACKGROUND |-> "hangupWaitingOrBackgroundResponse",
    HANGUP_FOREGROUND_RESUME_BACKGROUND |-> "hangupForegroundResumeBackgroundResponse",
    SWITCH_WAITING_OR_HOLDING_AND_ACTIVE |-> "switchWaitingOrHoldingAndActiveResponse",
    CONFERENCE |-> "conferenceResponse", UDUB |-> "rejectCallResponse",
    LAST_CALL_FAIL_CAUSE |-> "getLastCallFailCauseResponse",
    SIGNAL_STRENGTH |-> "getSignalStrengthResponse",
    VOICE_REGISTRATION_STATE |-> "getVoiceRegistrationStateResponse",
    DATA_REGISTRATION_STATE |-> "getDataRegistrationStateResponse",
    OPERATOR |-> "getOperatorResponse", RADIO_POWER |-> "setRadioPowerResponse",
    DTMF |-> "sendDtmfResponse", SEND_SMS |-> "sendSmsResponse",
    SEND_SMS_EXPECT_MORE |-> "sendSMSExpectMoreResponse",
    SETUP_DATA_CALL |-> "setupDataCallResponse", SIM_IO |-> "iccIOForAppResponse",
    SEND_USSD |-> "sendUssdResponse", CANCEL_USSD |-> "cancelPendingUssdResponse",
    GET_CLIR |-> "getClirResponse", SET_CLIR |-> "setClirResponse",
    QUERY_CALL_FORWARD_STATUS |-> "getCallForwardStatusResponse",
    SET_CALL_FORWARD |-> "setCallForwardResponse", QUERY_CALL_WAITING |-> "getCallWaitingResponse",
    SET_CALL_WAITING |-> "setCallWaitingResponse",
    SMS_ACKNOWLEDGE |-> "acknowledgeLastIncomingGsmSmsResponse", ANSWER |-> "acceptCallResponse",
    DEACTIVATE_DATA_CALL |-> "deactivateDataCallResponse",
    QUERY_FACILITY_LOCK |-> "getFacilityLockForAppResponse",
    SET_FACILITY_LOCK |-> "setFacilityLockForAppResponse",
    CHANGE_BARRING_PASSWORD |-> "setBarringPasswordResponse",
    QUERY_NETWORK_SELECTION_MODE |-> "getNetworkSelectionModeResponse",
    SET_NETWORK_SELECTION_AUTOMATIC |-> "setNetworkSelectionModeAutomaticResponse",
    SET_NETWORK_SELECTION_MANUAL |-> "setNetworkSelectionModeManualResponse",
    QUERY_AVAILABLE_NETWORKS |-> "getAvailableNetworksResponse", DTMF_START |-> "startDtmfResponse",
    DTMF_STOP |-> "stopDtmfResponse", BASEBAND_VERSION |-> "getBasebandVersionResponse",
    SEPARATE_CONNECTION |-> "separateConnectionResponse", SET_MUTE |-> "setMuteResponse",
    GET_MUTE |-> "getMuteResponse", QUERY_CLIP |-> "getClipResponse",
    DATA_CALL_LIST |-> "getDataCallListResponse", OEM_HOOK_RAW |-> "sendRequestRawResponse",
    OEM_HOOK_STRINGS |-> "sendRequestStringsResponse", SCREEN_STATE |-> "sendDeviceStateResponse",
    SET_SUPP_SVC_NOTIFICATION |-> "setSuppServiceNotificationsResponse",
    WRITE_SMS_TO_SIM |-> "writeSmsToSimResponse", DELETE_SMS_ON_SIM |-> "deleteSmsOnSimResponse",
    SET_BAND_MODE |-> "setBandModeResponse",
    QUERY_AVAILABLE_BAND_MODE |-> "getAvailableBandModesResponse",
    STK_SEND_ENVELOPE_COMMAND |-> "sendEnvelopeResponse",
    STK_SEND_TERMINAL_RESPONSE |-> "sendTerminalResponseToSimResponse",
    STK_HANDLE_CALL_SETUP_REQUESTED_FROM_SIM |-> "handleStkCallSetupRequestFromSimResponse",
    EXPLICIT_CALL_TRANSFER |-> "explicitCallTransferResponse",
    SET_PREFERRED_NETWORK_TYPE |-> "setPreferredNetworkTypeResponse",
    GET_PREFERRED_NETWORK_TYPE |-> "getPreferredNetworkTypeResponse",
    GET_NEIGHBORING_CELL_IDS |-> "getNeighboringCidsResponse",
    SET_LOCATION_UPDATES |-> "setLocationUpdatesResponse",
    CDMA_SET_SUBSCRIPTION_SOURCE |-> "setCdmaSubscriptionSourceResponse",
    CDMA_SET_ROAMING_PREFERENCE |-> "setCdmaRoamingPreferenceResponse",
    CDMA_QUERY_ROAMING_PREFERENCE |-> "getCdmaRoamingPreferenceResponse",
    SET_TTY_MODE |-> "setTTYModeResponse", QUERY_TTY_MODE |-> "getTTYModeResponse",
    CDMA_SET_PREFERRED_VOICE_PRIVACY_MODE |-> "setPreferredVoicePrivacyResponse",
    CDMA_QUERY_PREFERRED_VOICE_PRIVACY_MODE |-> "getPreferredVoicePrivacyResponse",
    CDMA_FLASH |-> "sendCDMAFeatureCodeResponse", CDMA_BURST_DTMF |-> "sendBurstDtmfResponse",
    CDMA_SEND_SMS |-> "sendCdmaSmsResponse",
    CDMA_SMS_ACKNOWLEDGE |-> "acknowledgeLastIncomingCdmaSmsResponse",
    GSM_GET_BROADCAST_SMS_CONFIG |-> "getGsmBroadcastConfigResponse",
    GSM_SET_BROADCAST_SMS_CONFIG |-> "setGsmBroadcastConfigResponse",
    GSM_SMS_BROADCAST_ACTIVATION |-> "setGsmBroadcastActivationResponse",
    CDMA_GET_BROADCAST_SMS_CONFIG |-> "getCdmaBroadcastConfigResponse",
    CDMA_SET_BROADCAST_SMS_CONFIG |-> "setCdmaBroadcastConfigResponse",
    CDMA_SMS_BROADCAST_ACTIVATION |-> "setCdmaBroadcastActivationResponse",
    CDMA_SUBSCRIPTION |-> "getCDMASubscriptionResponse",
    CDMA_WRITE_SMS_TO_RUIM |-> "writeSmsToRuimResponse",
    CDMA_DELETE_SMS_ON_RUIM |-> "deleteSmsOnRuimResponse",
    DEVICE_IDENTITY |-> "getDeviceIdentityResponse",
    EXIT_EMERGENCY_CALLBACK_MODE |-> "exitEmergencyCallbackModeResponse",
    GET_SMSC_ADDRESS |-> "getSmscAddressResponse", SET_SMSC_ADDRESS |-> "setSmscAddressResponse",
    REPORT_SMS_MEMORY_STATUS |-> "reportSmsMemoryStatusResponse",
    REPORT_STK_SERVICE_IS_RUNNING |-> "reportStkServiceIsRunningResponse",
    CDMA_GET_SUBSCRIPTION_SOURCE |-> "getCdmaSubscriptionSourceResponse",
    ISIM_AUTHENTICATION |-> "requestIsimAuthenticationResponse",
    ACKNOWLEDGE_INCOMING_GSM_SMS_WITH_PDU |-> "acknowledgeIncomingGsmSmsWithPduResponse",
    STK_SEND_ENVELOPE_WITH_STATUS |-> "sendEnvelopeWithStatusResponse",
    VOICE_RADIO_TECH |-> "getVoiceRadioTechnologyResponse",
    GET_CELL_INFO_LIST |-> "getCellInfoListResponse",
    SET_UNSOL_CELL_INFO_LIST_RATE |-> "setCellInfoListRateResponse",
    SET_INITIAL_ATTACH_APN |-> "setInitialAttachApnResponse",
    IMS_REGISTRATION_STATE |-> "getImsRegistrationStateResponse",
    IMS_SEND_SMS |-> "sendImsSmsResponse",
    SIM_TRANSMIT_APDU_BASIC |-> "iccTransmitApduBasicChannelResponse",
    SIM_OPEN_CHANNEL |-> "iccOpenLogicalChannelResponse",
    SIM_CLOSE_CHANNEL |-> "iccCloseLogicalChannelResponse",
    SIM_TRANSMIT_APDU_CHANNEL |-> "iccTransmitApduLogicalChannelResponse",
    NV_READ_ITEM |-> "nvReadItemResponse", NV_WRITE_ITEM |-> "nvWriteItemResponse",
    NV_WRITE_CDMA_PRL |-> "nvWriteCdmaPrlResponse", NV_RESET_CONFIG |-> "nvResetConfigResponse",
    SET_UICC_SUBSCRIPTION |-> "setUiccSubscriptionResponse",
    ALLOW_DATA |-> "setDataAllowedResponse", GET_HARDWARE_CONFIG |-> "getHardwareConfigResponse",
    SIM_AUTHENTICATION |-> "requestIccSimAuthenticationResponse",
    SET_DATA_PROFILE |-> "setDataProfileResponse", SHUTDOWN |-> "requestShutdownResponse",
    GET_RADIO_CAPABILITY |-> "getRadioCapabilityResponse",
    SET_RADIO_CAPABILITY |-> "setRadioCapabilityResponse", START_LCE |-> "startLceServiceResponse",
    STOP_LCE |-> "stopLceServiceResponse", PULL_LCEDATA |-> "pullLceDataResponse",
    GET_ACTIVITY_INFO |-> "getModemActivityInfoResponse",
    SET_CARRIER_RESTRICTIONS |-> "setAllowedCarriersResponse",
    GET_CARRIER_RESTRICTIONS |-> "getAllowedCarriersResponse",
    SEND_DEVICE_STATE |-> "sendDeviceStateResponse",
    SET_UNSOLICITED_RESPONSE_FILTER |-> "setIndicationFilterResponse",
    SET_SIM_CARD_POWER |-> "setSimCardPowerResponse",
    SET_CARRIER_INFO_IMSI_ENCRYPTION |-> "setCarrierInfoForImsiEncryptionResponse",
    START_NETWORK_SCAN |-> "startNetworkScanResponse",
    STOP_NETWORK_SCAN |-> "stopNetworkScanResponse", START_KEEPALIVE |-> "startKeepaliveResponse",
    STOP_KEEPALIVE |-> "stopKeepaliveResponse" ]


-----------------------------------------------------------------------------
(* The data of an answer comes in one of these shapes: "void", where the   *)
(* function has no data to give and looks at none; "none", NULL of length  *)
(* 0; "zero", not NULL but of length 0; "torn", shorter than one element   *)
(* or than the structure; "bad", whole elements but not enough of them, or *)
(* with a value that the code refuses; "full". A string is what stands at  *)
(* its pointer, whatever the length. A form says which shapes can come,    *)
(* which are decoded, and which are passed on as empty data; any other is  *)
(* invalid.                                                                *)

Form(sent, whole, empty) == [sent |-> sent, whole |-> whole, empty |-> empty]

Nothing == Form({"void"}, {}, {"void"})
Text == Form({"none", "full"}, {"full"}, {"none"})  \* convertCharPtrToHidlString
SomeText == Form({"none", "zero", "full"}, {"full"}, {})
Bytes == Form({"none", "zero", "full"}, {"full"}, {"zero"})
Struct == Form({"none", "zero", "torn", "full"}, {"full"}, {})  \* compared with sizeof
StructOrNone == Form({"none", "zero", "torn", "full"}, {"full"}, {"none"})
\* So many integers or strings.
Several == Form({"none", "zero", "torn", "bad", "full"}, {"full"}, {})
\* A multiple of sizeof.
ListOf == Form({"none", "zero", "torn", "full"}, {"full"}, {"none", "zero"})

\* A mutant of OneInt: the length is not looked at.
OneIntUnchecked == Form({"none", "zero", "torn", "full"}, {"zero", "torn", "full"}, {})

\* responseInt: a length of 0 is a multiple of any, and an integer is read.
OneInt == Form({"none", "zero", "torn", "full"}, {"zero", "full"}, {})

\* responseIntOrEmpty.
OneIntOrNone == Form({"none", "zero", "torn", "full"}, {"zero", "full"}, {"none"})

\* A list; "bad": a status unknown.
Networks == Form({"none", "zero", "torn", "bad", "full"}, {"full"}, {"none", "zero"})
CardStatus == Several           \* "bad": an index past the applications
InfoRecs == Several             \* "bad": a record too long, or unknown
SmsResult == Struct             \* makeSendSmsResult
IccIo == Struct                 \* responseIccIo
Capability == Struct            \* responseRadioCapability
LceStatus == Struct             \* responseLceStatusInfo
Pdu == Struct                   \* convertHexStringToBytes
Ring == ListOf                  \* CDMA, or GSM with no data

\* One call, its length tested as that of a list: of length 0 one is read all the same.
DataCall == Form({"none", "zero", "torn", "full"}, {"zero", "full"}, {"none"})

\* Integers, of which a first is read; a length of 0 is AnswerOfNoIntegers in RilService.
Channel == Form({"none", "torn", "full"}, {"full"}, {"none"})

\* The structure, or a plain integer ("bad" here): the test of the integer is reversed,
\* so that an integer is refused and what is no integer is read as one.
Cause == Form({"none", "zero", "torn", "bad", "full"}, {"torn", "full"}, {})

\* A structure of whatever length but 0.
ScanResult == Form({"none", "zero", "torn", "full"}, {"torn", "full"}, {})

\* radio::getIccCardStatusResponse .. supplyIccPuk2ForAppResponse.
PinResponses ==
  [ getIccCardStatusResponse |-> CardStatus, supplyIccPinForAppResponse |-> OneIntOrNone,
    supplyIccPukForAppResponse |-> OneIntOrNone, supplyIccPin2ForAppResponse |-> OneIntOrNone,
    supplyIccPuk2ForAppResponse |-> OneIntOrNone ]

\* radio::changeIccPinForAppResponse .. dialResponse.
PukResponses ==
  [ changeIccPinForAppResponse |-> OneIntOrNone, changeIccPin2ForAppResponse |-> OneIntOrNone,
    supplyNetworkDepersonalizationResponse |-> OneIntOrNone, getCurrentCallsResponse |-> ListOf,
    dialResponse |-> Nothing ]

\* radio::getIMSIForAppResponse .. rejectCallResponse.
CallResponses ==
  [ getIMSIForAppResponse |-> Text, hangupConnectionResponse |-> Nothing,
    hangupWaitingOrBackgroundResponse |-> Nothing,
    hangupForegroundResumeBackgroundResponse |-> Nothing,
    switchWaitingOrHoldingAndActiveResponse |-> Nothing, conferenceResponse |-> Nothing,
    rejectCallResponse |-> Nothing ]

\* radio::getLastCallFailCauseResponse .. getSignalStrengthResponse.
SignalResponses ==
  [ getLastCallFailCauseResponse |-> Cause, getSignalStrengthResponse |-> Struct ]

\* radio::getVoiceRegistrationStateResponse .. getDataRegistrationStateResponse.
RegistrationResponses ==
  [ getVoiceRegistrationStateResponse |-> Several, getDataRegistrationStateResponse |-> Several ]

\* radio::getOperatorResponse .. sendSMSExpectMoreResponse.
SmsResponses ==
  [ getOperatorResponse |-> Several, setRadioPowerResponse |-> Nothing,
    sendDtmfResponse |-> Nothing, sendSmsResponse |-> SmsResult,
    sendSMSExpectMoreResponse |-> SmsResult ]

\* radio::setupDataCallResponse .. cancelPendingUssdResponse.
DataResponses ==
  [ setupDataCallResponse |-> DataCall, iccIOForAppResponse |-> IccIo, sendUssdResponse |-> Nothing,
    cancelPendingUssdResponse |-> Nothing ]

\* radio::getClirResponse .. getCallWaitingResponse.
ForwardResponses ==
  [ getClirResponse |-> Several, setClirResponse |-> Nothing,
    getCallForwardStatusResponse |-> ListOf, setCallForwardResponse |-> Nothing,
    getCallWaitingResponse |-> Several ]

\* radio::setCallWaitingResponse .. setBarringPasswordResponse.
FacilityResponses ==
  [ setCallWaitingResponse |-> Nothing, acknowledgeLastIncomingGsmSmsResponse |-> Nothing,
    acceptCallResponse |-> Nothing, deactivateDataCallResponse |-> Nothing,
    getFacilityLockForAppResponse |-> OneInt, setFacilityLockForAppResponse |-> OneIntOrNone,
    setBarringPasswordResponse |-> Nothing ]

\* radio::getNetworkSelectionModeResponse .. getAvailableNetworksResponse.
NetworkResponses ==
  [ getNetworkSelectionModeResponse |-> OneInt,
    setNetworkSelectionModeAutomaticResponse |-> Nothing,
    setNetworkSelectionModeManualResponse |-> Nothing, getAvailableNetworksResponse |-> Networks ]

\* radio::startDtmfResponse .. getClipResponse.
DtmfResponses ==
  [ startDtmfResponse |-> Nothing, stopDtmfResponse |-> Nothing,
    getBasebandVersionResponse |-> Text, separateConnectionResponse |-> Nothing,
    setMuteResponse |-> Nothing, getMuteResponse |-> OneInt, getClipResponse |-> OneInt ]

\* radio::getDataCallListResponse .. getAvailableBandModesResponse.
BandResponses ==
  [ getDataCallListResponse |-> ListOf, setSuppServiceNotificationsResponse |-> Nothing,
    deleteSmsOnSimResponse |-> Nothing, setBandModeResponse |-> Nothing,
    writeSmsToSimResponse |-> OneInt, getAvailableBandModesResponse |-> ListOf ]

\* radio::sendEnvelopeResponse .. getPreferredNetworkTypeResponse.
StkResponses ==
  [ sendEnvelopeResponse |-> Text, sendTerminalResponseToSimResponse |-> Nothing,
    handleStkCallSetupRequestFromSimResponse |-> Nothing, explicitCallTransferResponse |-> Nothing,
    setPreferredNetworkTypeResponse |-> Nothing, getPreferredNetworkTypeResponse |-> OneInt ]

\* radio::getNeighboringCidsResponse .. setTTYModeResponse.
CellResponses ==
  [ getNeighboringCidsResponse |-> ListOf, setLocationUpdatesResponse |-> Nothing,
    setCdmaSubscriptionSourceResponse |-> Nothing, setCdmaRoamingPreferenceResponse |-> Nothing,
    getCdmaRoamingPreferenceResponse |-> OneInt, setTTYModeResponse |-> Nothing ]

\* radio::getTTYModeResponse .. sendCdmaSmsResponse.
TtyResponses ==
  [ getTTYModeResponse |-> OneInt, setPreferredVoicePrivacyResponse |-> Nothing,
    getPreferredVoicePrivacyResponse |-> Several, sendCDMAFeatureCodeResponse |-> Nothing,
    sendBurstDtmfResponse |-> Nothing, sendCdmaSmsResponse |-> SmsResult ]

\* radio::acknowledgeLastIncomingCdmaSmsResponse .. getCdmaBroadcastConfigResponse.
BroadcastResponses ==
  [ acknowledgeLastIncomingCdmaSmsResponse |-> Nothing, getGsmBroadcastConfigResponse |-> ListOf,
    setGsmBroadcastConfigResponse |-> Nothing, setGsmBroadcastActivationResponse |-> Nothing,
    getCdmaBroadcastConfigResponse |-> ListOf ]

\* radio::setCdmaBroadcastConfigResponse .. deleteSmsOnRuimResponse.
CdmaResponses ==
  [ setCdmaBroadcastConfigResponse |-> Nothing, setCdmaBroadcastActivationResponse |-> Nothing,
    getCDMASubscriptionResponse |-> Several, writeSmsToRuimResponse |-> OneInt,
    deleteSmsOnRuimResponse |-> Nothing ]

\* radio::getDeviceIdentityResponse .. reportStkServiceIsRunningResponse.
IdentityResponses ==
  [ getDeviceIdentityResponse |-> Several, exitEmergencyCallbackModeResponse |-> Nothing,
    getSmscAddressResponse |-> Text, setSmscAddressResponse |-> Nothing,
    reportSmsMemoryStatusResponse |-> Nothing, reportStkServiceIsRunningResponse |-> Nothing ]

\* radio::getCdmaSubscriptionSourceResponse .. getCellInfoListResponse.
IsimResponses ==
  [ getCdmaSubscriptionSourceResponse |-> OneInt, requestIsimAuthenticationResponse |-> Text,
    acknowledgeIncomingGsmSmsWithPduResponse |-> Nothing, sendEnvelopeWithStatusResponse |-> IccIo,
    getVoiceRadioTechnologyResponse |-> OneInt, getCellInfoListResponse |-> ListOf ]

\* radio::setCellInfoListRateResponse .. iccTransmitApduBasicChannelResponse.
ImsResponses ==
  [ setCellInfoListRateResponse |-> Nothing, setInitialAttachApnResponse |-> Nothing,
    getImsRegistrationStateResponse |-> Several, sendImsSmsResponse |-> SmsResult,
    iccTransmitApduBasicChannelResponse |-> IccIo ]

\* radio::iccOpenLogicalChannelResponse .. nvWriteCdmaPrlResponse.
ChannelResponses ==
  [ iccOpenLogicalChannelResponse |-> Channel, iccCloseLogicalChannelResponse |-> Nothing,
    iccTransmitApduLogicalChannelResponse |-> IccIo, nvReadItemResponse |-> Text,
    nvWriteItemResponse |-> Nothing, nvWriteCdmaPrlResponse |-> Nothing ]

\* radio::nvResetConfigResponse .. setDataProfileResponse.
UiccResponses ==
  [ nvResetConfigResponse |-> Nothing, setUiccSubscriptionResponse |-> Nothing,
    setDataAllowedResponse |-> Nothing, getHardwareConfigResponse |-> ListOf,
    requestIccSimAuthenticationResponse |-> IccIo, setDataProfileResponse |-> Nothing ]

\* radio::requestShutdownResponse .. stopLceServiceResponse.
CapabilityResponses ==
  [ requestShutdownResponse |-> Nothing, getRadioCapabilityResponse |-> Capability,
    setRadioCapabilityResponse |-> Capability, startLceServiceResponse |-> LceStatus,
    stopLceServiceResponse |-> LceStatus ]

\* radio::pullLceDataResponse .. getAllowedCarriersResponse.
CarrierResponses ==
  [ pullLceDataResponse |-> Struct, getModemActivityInfoResponse |-> Struct,
    setAllowedCarriersResponse |-> OneInt, getAllowedCarriersResponse |-> StructOrNone ]

\* radio::sendDeviceStateResponse .. stopNetworkScanResponse.
PowerResponses ==
  [ sendDeviceStateResponse |-> Nothing, setCarrierInfoForImsiEncryptionResponse |-> Nothing,
    setIndicationFilterResponse |-> Nothing, setSimCardPowerResponse |-> Nothing,
    startNetworkScanResponse |-> Nothing, stopNetworkScanResponse |-> Nothing ]

\* radio::startKeepaliveResponse .. sendRequestStringsResponse.
KeepaliveResponses ==
  [ startKeepaliveResponse |-> Struct, stopKeepaliveResponse |-> Nothing,
    sendRequestRawResponse |-> Bytes, sendRequestStringsResponse |-> ListOf ]

\* What every response function calls, and of what data.
Responses ==
  Joined({PinResponses, PukResponses, CallResponses, SignalResponses, RegistrationResponses,
    SmsResponses, DataResponses, ForwardResponses, FacilityResponses, NetworkResponses,
    DtmfResponses, BandResponses, StkResponses, CellResponses, TtyResponses,
    BroadcastResponses, CdmaResponses, IdentityResponses, IsimResponses, ImsResponses,
    ChannelResponses, UiccResponses, CapabilityResponses, CarrierResponses, PowerResponses,
    KeepaliveResponses})

\* radio::radioStateChangedInd .. newSmsStatusReportInd.
StateIndications ==
  [ radioStateChangedInd |-> Nothing, callStateChangedInd |-> Nothing,
    networkStateChangedInd |-> Nothing, newSmsInd |-> Pdu, newSmsStatusReportInd |-> Pdu ]

\* radio::newSmsOnSimInd .. nitzTimeReceivedInd.
UssdIndications ==
  [ newSmsOnSimInd |-> OneInt, onUssdInd |-> Several, nitzTimeReceivedInd |-> SomeText ]

\* radio::currentSignalStrengthInd .. dataCallListChangedInd.
SignalIndications ==
  [ currentSignalStrengthInd |-> Struct, dataCallListChangedInd |-> ListOf ]

\* radio::suppSvcNotifyInd .. simSmsStorageFullInd.
StkIndications ==
  [ suppSvcNotifyInd |-> Struct, stkSessionEndInd |-> Nothing, stkProactiveCommandInd |-> SomeText,
    stkEventNotifyInd |-> SomeText, stkCallSetupInd |-> OneInt, simSmsStorageFullInd |-> Nothing ]

\* radio::simRefreshInd .. cdmaNewSmsInd.
SimIndications ==
  [ simRefreshInd |-> Struct, callRingInd |-> Ring, simStatusChangedInd |-> Nothing,
    cdmaNewSmsInd |-> Struct ]

\* radio::newBroadcastSmsInd .. cdmaOtaProvisionStatusInd.
CdmaIndications ==
  [ newBroadcastSmsInd |-> SomeText, cdmaRuimSmsStorageFullInd |-> Nothing,
    restrictedStateChangedInd |-> OneInt, enterEmergencyCallbackModeInd |-> Nothing,
    cdmaCallWaitingInd |-> Struct, cdmaOtaProvisionStatusInd |-> OneInt ]

\* radio::cdmaInfoRecInd .. cdmaInfoRecInd.
InfoRecIndications ==
  [ cdmaInfoRecInd |-> InfoRecs ]

\* radio::indicateRingbackToneInd .. voiceRadioTechChangedInd.
RadioIndications ==
  [ indicateRingbackToneInd |-> OneInt, resendIncallMuteInd |-> Nothing,
    cdmaSubscriptionSourceChangedInd |-> OneInt, cdmaPrlChangedInd |-> OneInt,
    exitEmergencyCallbackModeInd |-> Nothing, rilConnectedInd |-> Nothing,
    voiceRadioTechChangedInd |-> OneInt ]

\* radio::cellInfoListInd .. hardwareConfigChangedInd.
CellIndications ==
  [ cellInfoListInd |-> ListOf, imsNetworkStateChangedInd |-> Nothing,
    subscriptionStatusChangedInd |-> OneInt, srvccStateNotifyInd |-> OneInt,
    hardwareConfigChangedInd |-> ListOf ]

\* radio::radioCapabilityIndicationInd .. stkCallControlAlphaNotifyInd.
SsIndications ==
  [ radioCapabilityIndicationInd |-> Struct, onSupplementaryServiceIndicationInd |-> Struct,
    stkCallControlAlphaNotifyInd |-> SomeText ]

\* radio::lceDataInd .. carrierInfoForImsiEncryption.
LceIndications ==
  [ lceDataInd |-> Struct, pcoDataInd |-> Struct, modemResetInd |-> SomeText,
    networkScanResultInd |-> ScanResult, carrierInfoForImsiEncryption |-> SomeText ]

\* radio::keepaliveStatusInd .. oemHookRawInd.
KeepaliveIndications ==
  [ keepaliveStatusInd |-> Struct, oemHookRawInd |-> SomeText ]

\* What every indication function calls, and of what data.
Indications ==
  Joined({StateIndications, UssdIndications, SignalIndications, StkIndications,
    SimIndications, CdmaIndications, InfoRecIndications, RadioIndications, CellIndications,
    SsIndications, LceIndications, KeepaliveIndications})

\* The table of unsolicited codes; one has no function.
UnsolResponses ==
  [ RESPONSE_RADIO_STATE_CHANGED |-> "radioStateChangedInd",
    RESPONSE_CALL_STATE_CHANGED |-> "callStateChangedInd",
    RESPONSE_VOICE_NETWORK_STATE_CHANGED |-> "networkStateChangedInd",
    RESPONSE_NEW_SMS |-> "newSmsInd", RESPONSE_NEW_SMS_STATUS_REPORT |-> "newSmsStatusReportInd",
    RESPONSE_NEW_SMS_ON_SIM |-> "newSmsOnSimInd", ON_USSD |-> "onUssdInd",
    ON_USSD_REQUEST |-> "onUssdInd", NITZ_TIME_RECEIVED |-> "nitzTimeReceivedInd",
    SIGNAL_STRENGTH |-> "currentSignalStrengthInd",
    DATA_CALL_LIST_CHANGED |-> "dataCallListChangedInd",
    SUPP_SVC_NOTIFICATION |-> "suppSvcNotifyInd", STK_SESSION_END |-> "stkSessionEndInd",
    STK_PROACTIVE_COMMAND |-> "stkProactiveCommandInd", STK_EVENT_NOTIFY |-> "stkEventNotifyInd",
    STK_CALL_SETUP |-> "stkCallSetupInd", SIM_SMS_STORAGE_FULL |-> "simSmsStorageFullInd",
    SIM_REFRESH |-> "simRefreshInd", CALL_RING |-> "callRingInd",
    RESPONSE_SIM_STATUS_CHANGED |-> "simStatusChangedInd",
    RESPONSE_CDMA_NEW_SMS |-> "cdmaNewSmsInd", RESPONSE_NEW_BROADCAST_SMS |-> "newBroadcastSmsInd",
    CDMA_RUIM_SMS_STORAGE_FULL |-> "cdmaRuimSmsStorageFullInd",
    RESTRICTED_STATE_CHANGED |-> "restrictedStateChangedInd",
    ENTER_EMERGENCY_CALLBACK_MODE |-> "enterEmergencyCallbackModeInd",
    CDMA_CALL_WAITING |-> "cdmaCallWaitingInd",
    CDMA_OTA_PROVISION_STATUS |-> "cdmaOtaProvisionStatusInd", CDMA_INFO_REC |-> "cdmaInfoRecInd",
    OEM_HOOK_RAW |-> "oemHookRawInd", RINGBACK_TONE |-> "indicateRingbackToneInd",
    RESEND_INCALL_MUTE |-> "resendIncallMuteInd",
    CDMA_SUBSCRIPTION_SOURCE_CHANGED |-> "cdmaSubscriptionSourceChangedInd",
    CDMA_PRL_CHANGED |-> "cdmaPrlChangedInd",
    EXIT_EMERGENCY_CALLBACK_MODE |-> "exitEmergencyCallbackModeInd",
    RIL_CONNECTED |-> "rilConnectedInd", VOICE_RADIO_TECH_CHANGED |-> "voiceRadioTechChangedInd",
    CELL_INFO_LIST |-> "cellInfoListInd",
    RESPONSE_IMS_NETWORK_STATE_CHANGED |-> "imsNetworkStateChangedInd",
    UICC_SUBSCRIPTION_STATUS_CHANGED |-> "subscriptionStatusChangedInd",
    SRVCC_STATE_NOTIFY |-> "srvccStateNotifyInd",
    HARDWARE_CONFIG_CHANGED |-> "hardwareConfigChangedInd", DC_RT_INFO_CHANGED |-> "none",
    RADIO_CAPABILITY |-> "radioCapabilityIndicationInd",
    ON_SS |-> "onSupplementaryServiceIndicationInd",
    STK_CC_ALPHA_NOTIFY |-> "stkCallControlAlphaNotifyInd", LCEDATA_RECV |-> "lceDataInd",
    PCO_DATA |-> "pcoDataInd", MODEM_RESTART |-> "modemResetInd",
    CARRIER_INFO_IMSI_ENCRYPTION |-> "carrierInfoForImsiEncryption",
    NETWORK_SCAN_RESULT |-> "networkScanResultInd", KEEPALIVE_STATUS |-> "keepaliveStatusInd" ]

\* The callback IRadioResponse declares for the answer to each method, but for those of
\* setSimCardPower, which has one in each version of the interface.
DeclaredResponses ==
  [ getIccCardStatus |-> "getIccCardStatusResponse",
    supplyIccPinForApp |-> "supplyIccPinForAppResponse",
    supplyIccPukForApp |-> "supplyIccPukForAppResponse",
    supplyIccPin2ForApp |-> "supplyIccPin2ForAppResponse",
    supplyIccPuk2ForApp |-> "supplyIccPuk2ForAppResponse",
    changeIccPinForApp |-> "changeIccPinForAppResponse",
    changeIccPin2ForApp |-> "changeIccPin2ForAppResponse",
    supplyNetworkDepersonalization |-> "supplyNetworkDepersonalizationResponse",
    getCurrentCalls |-> "getCurrentCallsResponse", dial |-> "dialResponse",
    getImsiForApp |-> "getIMSIForAppResponse", hangup |-> "hangupConnectionResponse",
    hangupWaitingOrBackground |-> "hangupWaitingOrBackgroundResponse",
    hangupForegroundResumeBackground |-> "hangupForegroundResumeBackgroundResponse",
    switchWaitingOrHoldingAndActive |-> "switchWaitingOrHoldingAndActiveResponse",
    conference |-> "conferenceResponse", rejectCall |-> "rejectCallResponse",
    getLastCallFailCause |-> "getLastCallFailCauseResponse",
    getSignalStrength |-> "getSignalStrengthResponse",
    getVoiceRegistrationState |-> "getVoiceRegistrationStateResponse",
    getDataRegistrationState |-> "getDataRegistrationStateResponse",
    getOperator |-> "getOperatorResponse", setRadioPower |-> "setRadioPowerResponse",
    sendDtmf |-> "sendDtmfResponse", sendSms |-> "sendSmsResponse",
    sendSMSExpectMore |-> "sendSMSExpectMoreResponse", iccIOForApp |-> "iccIOForAppResponse",
    sendUssd |-> "sendUssdResponse", cancelPendingUssd |-> "cancelPendingUssdResponse",
    getClir |-> "getClirResponse", setClir |-> "setClirResponse",
    getCallForwardStatus |-> "getCallForwardStatusResponse",
    setCallForward |-> "setCallForwardResponse", getCallWaiting |-> "getCallWaitingResponse",
    setCallWaiting |-> "setCallWaitingResponse",
    acknowledgeLastIncomingGsmSms |-> "acknowledgeLastIncomingGsmSmsResponse",
    acceptCall |-> "acceptCallResponse", deactivateDataCall |-> "deactivateDataCallResponse",
    getFacilityLockForApp |-> "getFacilityLockForAppResponse",
    setFacilityLockForApp |-> "setFacilityLockForAppResponse",
    setBarringPassword |-> "setBarringPasswordResponse",
    getNetworkSelectionMode |-> "getNetworkSelectionModeResponse",
    setNetworkSelectionModeAutomatic |-> "setNetworkSelectionModeAutomaticResponse",
    setNetworkSelectionModeManual |-> "setNetworkSelectionModeManualResponse",
    getAvailableNetworks |-> "getAvailableNetworksResponse",
    startNetworkScan |-> "startNetworkScanResponse",
    stopNetworkScan |-> "stopNetworkScanResponse", startDtmf |-> "startDtmfResponse",
    stopDtmf |-> "stopDtmfResponse", getBasebandVersion |-> "getBasebandVersionResponse",
    separateConnection |-> "separateConnectionResponse", setMute |-> "setMuteResponse",
    getMute |-> "getMuteResponse", getClip |-> "getClipResponse",
    getDataCallList |-> "getDataCallListResponse",
    setSuppServiceNotifications |-> "setSuppServiceNotificationsResponse",
    writeSmsToSim |-> "writeSmsToSimResponse", deleteSmsOnSim |-> "deleteSmsOnSimResponse",
    setBandMode |-> "setBandModeResponse",
    getAvailableBandModes |-> "getAvailableBandModesResponse",
    sendEnvelope |-> "sendEnvelopeResponse",
    sendTerminalResponseToSim |-> "sendTerminalResponseToSimResponse",
    handleStkCallSetupRequestFromSim |-> "handleStkCallSetupRequestFromSimResponse",
    explicitCallTransfer |-> "explicitCallTransferResponse",
    setPreferredNetworkType |-> "setPreferredNetworkTypeResponse",
    getPreferredNetworkType |-> "getPreferredNetworkTypeResponse",
    getNeighboringCids |-> "getNeighboringCidsResponse",
    setLocationUpdates |-> "setLocationUpdatesResponse",
    setCdmaSubscriptionSource |-> "setCdmaSubscriptionSourceResponse",
    setCdmaRoamingPreference |-> "setCdmaRoamingPreferenceResponse",
    getCdmaRoamingPreference |-> "getCdmaRoamingPreferenceResponse",
    setTTYMode |-> "setTTYModeResponse", getTTYMode |-> "getTTYModeResponse",
    setPreferredVoicePrivacy |-> "setPreferredVoicePrivacyResponse",
    getPreferredVoicePrivacy |-> "getPreferredVoicePrivacyResponse",
    sendCDMAFeatureCode |-> "sendCDMAFeatureCodeResponse",
    sendBurstDtmf |-> "sendBurstDtmfResponse", sendCdmaSms |-> "sendCdmaSmsResponse",
    acknowledgeLastIncomingCdmaSms |-> "acknowledgeLastIncomingCdmaSmsResponse",
    getGsmBroadcastConfig |-> "getGsmBroadcastConfigResponse",
    setGsmBroadcastConfig |-> "setGsmBroadcastConfigResponse",
    setGsmBroadcastActivation |-> "setGsmBroadcastActivationResponse",
    getCdmaBroadcastConfig |-> "getCdmaBroadcastConfigResponse",
    setCdmaBroadcastConfig |-> "setCdmaBroadcastConfigResponse",
    setCdmaBroadcastActivation |-> "setCdmaBroadcastActivationResponse",
    getCDMASubscription |-> "getCDMASubscriptionResponse",
    writeSmsToRuim |-> "writeSmsToRuimResponse", deleteSmsOnRuim |-> "deleteSmsOnRuimResponse",
    getDeviceIdentity |-> "getDeviceIdentityResponse",
    exitEmergencyCallbackMode |-> "exitEmergencyCallbackModeResponse",
    getSmscAddress |-> "getSmscAddressResponse", setSmscAddress |-> "setSmscAddressResponse",
    reportSmsMemoryStatus |-> "reportSmsMemoryStatusResponse",
    reportStkServiceIsRunning |-> "reportStkServiceIsRunningResponse",
    getCdmaSubscriptionSource |-> "getCdmaSubscriptionSourceResponse",
    requestIsimAuthentication |-> "requestIsimAuthenticationResponse",
    acknowledgeIncomingGsmSmsWithPdu |-> "acknowledgeIncomingGsmSmsWithPduResponse",
    sendEnvelopeWithStatus |-> "sendEnvelopeWithStatusResponse",
    getVoiceRadioTechnology |-> "getVoiceRadioTechnologyResponse",
    getCellInfoList |-> "getCellInfoListResponse",
    setCellInfoListRate |-> "setCellInfoListRateResponse",
    getImsRegistrationState |-> "getImsRegistrationStateResponse",
    sendImsSms |-> "sendImsSmsResponse",
    iccTransmitApduBasicChannel |-> "iccTransmitApduBasicChannelResponse",
    iccOpenLogicalChannel |-> "iccOpenLogicalChannelResponse",
    iccCloseLogicalChannel |-> "iccCloseLogicalChannelResponse",
    iccTransmitApduLogicalChannel |-> "iccTransmitApduLogicalChannelResponse",
    nvReadItem |-> "nvReadItemResponse", nvWriteItem |-> "nvWriteItemResponse",
    nvWriteCdmaPrl |-> "nvWriteCdmaPrlResponse", nvResetConfig |-> "nvResetConfigResponse",
    setUiccSubscription |-> "setUiccSubscriptionResponse",
    setDataAllowed |-> "setDataAllowedResponse",
    getHardwareConfig |-> "getHardwareConfigResponse",
    requestIccSimAuthentication |-> "requestIccSimAuthenticationResponse",
    requestShutdown |-> "requestShutdownResponse",
    getRadioCapability |-> "getRadioCapabilityResponse",
    setRadioCapability |-> "setRadioCapabilityResponse",
    startLceService |-> "startLceServiceResponse", stopLceService |-> "stopLceServiceResponse",
    pullLceData |-> "pullLceDataResponse",
    getModemActivityInfo |-> "getModemActivityInfoResponse",
    setAllowedCarriers |-> "setAllowedCarriersResponse",
    getAllowedCarriers |-> "getAllowedCarriersResponse",
    setCarrierInfoForImsiEncryption |-> "setCarrierInfoForImsiEncryptionResponse",
    startKeepalive |-> "startKeepaliveResponse", stopKeepalive |-> "stopKeepaliveResponse",
    sendRequestRaw |-> "sendRequestRawResponse",
    sendRequestStrings |-> "sendRequestStringsResponse",
    setupDataCall |-> "setupDataCallResponse",
    setInitialAttachApn |-> "setInitialAttachApnResponse",
    setDataProfile |-> "setDataProfileResponse", sendDeviceState |-> "sendDeviceStateResponse",
    setIndicationFilter |-> "setIndicationFilterResponse" ]

\* A mutant of Callback: another function copied and not adapted.
CallbackCopied(r, c) ==
  CASE r = "hangupForegroundResumeBackgroundResponse" -> "hangupWaitingOrBackgroundResponse"
    [] r = "setCallWaitingResponse" -> "getCallWaitingResponse"
    [] OTHER -> r

\* The callback a response function calls, for a client of version c: its own, but
\* for one that calls another's and one that has a newer variant.
Callback(r, c) ==
  CASE r = "hangupForegroundResumeBackgroundResponse" -> "hangupWaitingOrBackgroundResponse"
    [] r = "setSimCardPowerResponse" /\ c = "1.1" -> "setSimCardPowerResponse_1_1"
    [] OTHER -> r

\* What full data of a response or indication function may hold, where it is converted:
\* registrations have two forms, by the version of the vendor library.
Contents(f, v) ==
  CASE f \in {"getSignalStrengthResponse", "currentSignalStrengthInd"} -> Signals
    [] f \in {"getCellInfoListResponse", "cellInfoListInd", "networkScanResultInd"} -> Cells
    [] f = "getVoiceRegistrationStateResponse" -> IF v <= 14 THEN VoiceRegistrations ELSE Identities
    [] f = "getDataRegistrationStateResponse" -> IF v <= 14 THEN DataRegistrations ELSE Identities
    [] f = "setupDataCallResponse" -> OneCall
    [] f \in {"getDataCallListResponse", "dataCallListChangedInd"} -> CallLists
    [] OTHER -> {Plain}

\* Response and indication functions that need a client of version 1.1.
Needs11 ==
  { "setCarrierInfoForImsiEncryptionResponse", "startNetworkScanResponse",
    "stopNetworkScanResponse", "startKeepaliveResponse", "stopKeepaliveResponse",
    "networkScanResultInd", "carrierInfoForImsiEncryption" }

\* Those of the OEM hook, which has a client of its own.
ForOem == {"sendRequestRawResponse", "sendRequestStringsResponse", "oemHookRawInd"}

=============================================================================
