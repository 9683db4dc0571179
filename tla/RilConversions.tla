-------------------------- MODULE RilConversions --------------------------
(***************************************************************************)
(* How libril's radio service turns what the vendor library gives of       *)
(* signals, cells, registrations and data calls into the types of HIDL     *)
(* (ril_service.cpp). What is given and what is heard are records with     *)
(* just the fields the code treats differently.                            *)
(***************************************************************************)
EXTENDS Integers

INT_MAX == 2147483647

\* What is passed on as it is.
Plain == [kind |-> "plain"]

-----------------------------------------------------------------------------
(* Signal strengths, with the same number in each field.                   *)

Signals == [kind : {"signal"}, layout : {8, 10}, value : {-2, -1, 2}]

\* -1 is how the older layouts say that LTE's fields are not known. The power may be
\* given with its sign; layout 8 has no TD-SCDMA and leaves the timing advance 0.
HalSignal(layout, x) ==
  [ signalStrength |-> IF x = -1 THEN 99 ELSE x,
    rsrp |-> IF x = -1 THEN INT_MAX ELSE IF x < -1 THEN -x ELSE x,
    rsrq |-> IF x = -1 THEN INT_MAX ELSE x, cqi |-> IF x = -1 THEN INT_MAX ELSE x,
    rscp |-> IF layout = 8 THEN INT_MAX ELSE x,
    gwTimingAdvance |-> IF layout = 8 THEN 0 ELSE INT_MAX ]

-----------------------------------------------------------------------------
(* Cells. HIDL has a vector for each type; a type the code does not know   *)
(* fills none. A country code becomes a string, which may be empty.        *)

CellTypes == {"GSM", "WCDMA", "CDMA", "LTE", "TD_SCDMA"}

Codes(type) == IF type \in CellTypes \ {"CDMA"} THEN {-1, 310, INT_MAX} ELSE {-1}

Given(kind) ==
  UNION {[kind : {kind}, type : {t}, mcc : Codes(t)] : t \in CellTypes \cup {"NONE"}}

Cells == Given("cell")
Identities == Given("identity")

\* The number as it stands.
HalCell(type, mcc) ==
  [vectors |-> {type} \cap CellTypes, mcc |-> IF type \in CellTypes \ {"CDMA"} THEN {mcc} ELSE {}]

\* -1 becomes the empty string.
HalIdentity(type, mcc) ==
  [vectors |-> {type} \cap CellTypes,
   mcc |-> IF type \in CellTypes \ {"CDMA"} THEN {mcc} \ {-1} ELSE {}]

-----------------------------------------------------------------------------
(* Registrations up to version 14: an array of strings, the fourth the     *)
(* technology, the others by their index.                                  *)

CellTypeOf ==
  [ GPRS |-> "GSM", EDGE |-> "GSM", GSM |-> "GSM", UMTS |-> "WCDMA", HSDPA |-> "WCDMA",
    HSUPA |-> "WCDMA", HSPA |-> "WCDMA", HSPAP |-> "WCDMA", IS95A |-> "CDMA", IS95B |-> "CDMA",
    OneXRTT |-> "CDMA", EVDO_0 |-> "CDMA", EVDO_A |-> "CDMA", EVDO_B |-> "CDMA",
    EHRPD |-> "CDMA", LTE |-> "LTE", LTE_CA |-> "LTE", TD_SCDMA |-> "TD_SCDMA",
    IWLAN |-> "NONE", unknown |-> "NONE" ]

VoiceFields ==
  [ GSM |-> [lac |-> 1, cid |-> 2], WCDMA |-> [lac |-> 1, cid |-> 2, psc |-> 14],
    TD_SCDMA |-> [lac |-> 1, cid |-> 2], LTE |-> [tac |-> 1, ci |-> 2],
    CDMA |-> [basestationId |-> 4, latitude |-> 5, longitude |-> 6, systemId |-> 8,
              networkId |-> 9],
    NONE |-> [x \in {} |-> 0] ]

\* The country and network codes come last.
DataFields ==
  LET gsm == [lac |-> 1, cid |-> 2, mcc |-> 11, mnc |-> 12] IN
  [ GSM |-> gsm, WCDMA |-> gsm, TD_SCDMA |-> gsm,
    LTE |-> [tac |-> 6, pci |-> 7, ci |-> 8, mcc |-> 11, mnc |-> 12],
    CDMA |-> [x \in {} |-> 0], NONE |-> [x \in {} |-> 0] ]

Fields(kind, rat) ==
  IF kind = "voice" THEN VoiceFields[CellTypeOf[rat]] ELSE DataFields[CellTypeOf[rat]]

VoiceRegistrations == [kind : {"voice"}, rat : DOMAIN CellTypeOf, strings : {15}]
DataRegistrations == [kind : {"data"}, rat : DOMAIN CellTypeOf, strings : 6 .. 14]

\* A mutant of Passed: the last string is taken to be past the end.
PassedButOne(kind, strings) == IF kind = "voice" THEN 14 ELSE IF strings < 13 THEN 6 ELSE 12

\* How many strings are looked at: the expression for data means to tell three cases
\* apart and gives but two.
Passed(kind, strings) == IF kind = "voice" THEN 15 ELSE IF strings < 13 THEN 6 ELSE 13

\* The fields that were there; the others are -1.
HalRegistration(kind, rat, strings) ==
  [vectors |-> {CellTypeOf[rat]} \cap CellTypes,
   fields |-> {f \in DOMAIN Fields(kind, rat) : Fields(kind, rat)[f] < Passed(kind, strings)}]

-----------------------------------------------------------------------------
(* Data calls: so many structures of one of three layouts, which the code  *)
(* tells from the length alone.                                            *)

MaxCalls == 12    \* bounds the data calls of one list

Layouts == {6, 9, 11}

\* Four integers and five pointers; a sixth; and the MTU.
Size(layout, word) ==
  CASE layout = 6 -> 16 + 5 * word
    [] layout = 9 -> 16 + 6 * word
    [] layout = 11 -> 16 + 7 * word    \* with the padding

CallLists == [kind : {"calls"}, layout : Layouts, number : 1 .. MaxCalls, word : {4, 8}]
OneCall == [kind : {"calls"}, layout : Layouts, number : {1}, word : {4, 8}]

\* The newest layout that the length is a multiple of.
HalCalls(layout, number, word) ==
  LET length == number * Size(layout, word)
      newest == CHOOSE l \in Layouts :
                  /\ length % Size(l, word) = 0
                  /\ \A k \in Layouts : k > l => length % Size(k, word) # 0
  IN  [layout |-> newest, number |-> length \div Size(newest, word)]

-----------------------------------------------------------------------------

\* What the client hears of what is given.
Heard(given) ==
  CASE given.kind = "plain" -> Plain
    [] given.kind = "signal" -> HalSignal(given.layout, given.value)
    [] given.kind = "cell" -> HalCell(given.type, given.mcc)
    [] given.kind = "identity" -> HalIdentity(given.type, given.mcc)
    [] given.kind \in {"voice", "data"} -> HalRegistration(given.kind, given.rat, given.strings)
    [] given.kind = "calls" -> HalCalls(given.layout, given.number, given.word)

=============================================================================
