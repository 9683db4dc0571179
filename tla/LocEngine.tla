------------------------------ MODULE LocEngine ------------------------------
(***************************************************************************)
(* The location engine behind the GPS HAL: loc.cpp, loc_eng.cpp and        *)
(* LocEngAdapter.cpp over LocApiBase.cpp.  Three threads meet here.        *)
(*   HAL        the framework's calls; most only post a message;           *)
(*   MsgTask    handles the messages, one at a time and in order, and      *)
(*              does nearly all the work on the engine's state;            *)
(*   modem      reports positions and statuses, and goes down and comes    *)
(*              back: each report is a message too.                        *)
(*                                                                         *)
(* What the modem has to know is cut into items: the settings of gps.conf, *)
(* the network's availability, the servers, the lock, the mask of events,  *)
(* data to inject.  A value is a number, and Unset is a modem's that was   *)
(* not told.  The work of loc_eng_reinit is done in steps, for it reads    *)
(* what the HAL thread writes: a message is made (held), and then sent.    *)
(*                                                                         *)
(* Left out: reports that change no state here (satellites, NMEA,          *)
(* measurements), the capabilities told to the framework, the power vote,  *)
(* which only one target has, and an ULP (none comes with these sources).  *)
(* The modem below LocApiBase is external: it takes what it is told while  *)
(* it is open, and forgets it when it goes down.                           *)
(***************************************************************************)
EXTENDS Naturals, Sequences

CONSTANTS
  Calls,               \* the calls the framework makes
  Items,               \* the items that are followed
  Values,              \* what the framework sets an item to
  AidingTypes,         \* kinds of aiding data
  AcceptIntermediate,  \* gps.conf: does INTERMEDIATE_POS ask for them?
  Positions,           \* the position reports the modem makes
  Statuses,            \* the statuses it reports
  MaxQueue,            \* bound: messages in the queue when the framework or a report adds one
  MaxCalls,            \* bound: calls after the first two
  MaxReports,          \* bound: reports of the modem
  MaxCrashes           \* bound: times it goes down

Settings == {"SUPL_VER", "LPP_PROFILE", "A_GLONASS"}
Fixed    == {"SENSOR_CONTROL", "SENSOR_PROPERTIES", "SENSOR_PERF", "XTRA_CHECK"}
Once     == {"LOCK", "MASK", "TIME", "POSITION", "CERTS", "XTRA_DATA"}
AllItems == Settings \cup Fixed \cup {"ENABLE", "SUPL", "C2K"} \cup Once
Engine   == {"NONE", "SESSION_BEGIN", "SESSION_END", "ENGINE_ON", "ENGINE_OFF"}
Fixes    == [status : {"SUCCESS", "INTERMEDIATE", "FAILURE"}, sat : BOOLEAN, accurate : BOOLEAN]
Unset    == 9
NoHost   == 0

ASSUME EngineAssumption ==
  /\ Items \subseteq AllItems
  /\ Values \subseteq Nat \ {NoHost, Unset}
  /\ AcceptIntermediate \in BOOLEAN
  /\ Positions \subseteq Fixes
  /\ Statuses \subseteq Engine
  /\ {MaxQueue, MaxCalls, MaxReports, MaxCrashes} \subseteq Nat

VARIABLES
  adapter,     \* has loc_eng_init made it?
  client,      \* gps_loc_cb: is the framework's callback set?
  agps,        \* agps_status_cb: has loc_eng_agps_init been called?
  data,        \* per item: what the HAL holds; conf.GPS_LOCK besides
  engine_status,
  mute_session_state,
  aiding_data_for_deletion,
  mNavigating,
  recurrence,  \* mFixCriteria.recurrence
  queue,       \* messages for the MsgTask
  work,        \* what is left of the handler it is in
  held,        \* the message that handler has made and not sent; or none
  modem,       \* the modem, as its thread has announced it
  opened,      \* is LocApiBase open on this modem?
  session,     \* has this modem been told to look for a fix?
  set,         \* per item: what it has been told
  told,        \* what the framework last heard of the engine
  asked,       \* per item: what the framework last asked for
  excused,     \* items that need not agree (see ModemIsConfigured)
  ended,       \* how the last session ended
  downed,      \* was the engine's last status that of a crash?
  calls, reports, crashes

hal    == <<adapter, client, agps, data>>
state  == <<engine_status, mute_session_state, told, downed>>
fix    == <<mNavigating, recurrence, ended>>
busy   == <<work, held>>
bounds == <<calls, reports, crashes>>
vars   == <<hal, state, aiding_data_for_deletion, fix, queue, busy, modem, opened, session, set,
            asked, excused, bounds>>

NoMsg == [kind |-> "none"]
Set(i, v) == [kind |-> "set", item |-> i, value |-> v]

\* gps_conf before any file is read, and no server.
Init ==
  /\ adapter = FALSE
  /\ client = FALSE
  /\ agps = FALSE
  /\ data = [i \in AllItems \cup {"GPS_LOCK"} |-> IF i \in {"SUPL", "C2K"} THEN NoHost ELSE 1]
  /\ engine_status = "NONE"
  /\ mute_session_state = "NONE"
  /\ aiding_data_for_deletion = {}
  /\ mNavigating = FALSE
  /\ recurrence = "PERIODIC"
  /\ queue = <<>>
  /\ work = <<>>
  /\ held = NoMsg
  /\ modem = "up"
  /\ opened = FALSE
  /\ session = FALSE
  /\ set = [i \in AllItems |-> Unset]
  /\ told = "ENGINE_OFF"
  /\ asked = [i \in AllItems |-> IF i \in {"SUPL", "C2K"} THEN Unset ELSE 1]
  /\ excused = {"SUPL", "C2K"} \cup Once
  /\ ended = "stop"
  /\ downed = FALSE
  /\ calls = 0
  /\ reports = 0
  /\ crashes = 0

-----------------------------------------------------------------------------
\* Messages that carry an item.

LocEngSuplVer(v)                 == Set("SUPL_VER", v)
LocEngLppConfig(v)               == Set("LPP_PROFILE", v)
LocEngAGlonassProtocol(v)        == Set("A_GLONASS", v)
LocEngSensorControlConfig(v)     == Set("SENSOR_CONTROL", v)
LocEngSensorProperties(v)        == Set("SENSOR_PROPERTIES", v)
LocEngSensorPerfControlConfig(v) == Set("SENSOR_PERF", v)
LocEngSetXtraVersionCheck(v)     == Set("XTRA_CHECK", v)
LocEngEnableData(v)              == Set("ENABLE", v)
LocEngSetServerUrl(v)            == Set("SUPL", v)
LocEngSetServerIpv4(v)           == Set("C2K", v)
LocEngAdapterGpsLock(v)          == Set("LOCK", v)
LocEngUpdateRegistrationMask(v)  == Set("MASK", v)
LocEngSetTime(v)                 == Set("TIME", v)
LocEngInjectLocation(v)          == Set("POSITION", v)
LocEngInstallAGpsCert(v)         == Set("CERTS", v)
LocEngInjectXtraData(v)          == Set("XTRA_DATA", v)

\* The message that brings a resent item, made from what the HAL holds now.
Made(i) ==
  LET v == data[i] IN
  CASE i = "SUPL_VER"          -> LocEngSuplVer(v)
    [] i = "LPP_PROFILE"       -> LocEngLppConfig(v)
    [] i = "A_GLONASS"         -> LocEngAGlonassProtocol(v)
    [] i = "SENSOR_CONTROL"    -> LocEngSensorControlConfig(v)
    [] i = "SENSOR_PROPERTIES" -> LocEngSensorProperties(v)
    [] i = "SENSOR_PERF"       -> LocEngSensorPerfControlConfig(v)
    [] i = "XTRA_CHECK"        -> LocEngSetXtraVersionCheck(v)
    [] i = "ENABLE"            -> LocEngEnableData(v)
    [] i = "SUPL"              -> LocEngSetServerUrl(v)
    [] i = "C2K"               -> LocEngSetServerIpv4(v)

\* An item's turn in a handler, if the item is followed.
Turn(i) == IF i \in Items THEN <<i>> ELSE <<>>

-----------------------------------------------------------------------------
\* The framework's calls.

Post(msgs) == queue' = queue \o msgs

Call(name) ==
  /\ name \in Calls
  /\ Len(queue) < MaxQueue
  /\ calls < MaxCalls
  /\ calls' = calls + 1
  /\ UNCHANGED <<reports, crashes>>

Elsewhere == UNCHANGED <<state, aiding_data_for_deletion, fix, busy, modem, opened, session, set>>

\* The framework asks for v and the message is on its way: unless the MsgTask
\* has made an older one that it is about to send.
Ask(i, v) ==
  /\ asked' = [asked EXCEPT ![i] = v]
  /\ excused' = IF "item" \in DOMAIN held /\ held.item = i THEN excused \cup {i} ELSE excused \ {i}

\* It asks for v and nothing is sent.
AskInVain(i, v) ==
  /\ asked' = [asked EXCEPT ![i] = v]
  /\ excused' = excused \cup {i}

\* loc_eng_init: all of loc_eng_data is cleared, what came before too.
loc_eng_init ==
  /\ adapter' = TRUE
  /\ data' = IF adapter THEN data ELSE [data EXCEPT !["SUPL"] = NoHost, !["C2K"] = NoHost]

loc_init ==
  /\ ~client
  /\ "init" \in Calls
  /\ adapter => calls < MaxCalls
  /\ calls' = IF adapter THEN calls + 1 ELSE calls
  /\ client' = TRUE
  /\ loc_eng_init
  /\ Post((IF adapter THEN <<>> ELSE <<[kind |-> "open"], [kind |-> "init"]>>)
            \o <<LocEngAdapterGpsLock(0)>>)
  /\ Ask("LOCK", 0)
  /\ UNCHANGED <<agps, reports, crashes>>
  /\ Elsewhere

loc_eng_stop == <<[kind |-> "stop"]>>

\* A session that has not begun yet, for its start is still in the queue, is
\* not stopped.
loc_eng_cleanup == IF mNavigating THEN loc_eng_stop ELSE <<>>

loc_cleanup ==
  /\ client
  /\ Call("cleanup")
  /\ client' = FALSE
  /\ Post(<<LocEngAdapterGpsLock(data["GPS_LOCK"])>> \o loc_eng_cleanup)
  /\ Ask("LOCK", data["GPS_LOCK"])
  /\ UNCHANGED <<adapter, agps, data>>
  /\ Elsewhere

\* Calls that post one message and touch nothing else.
Posts(name, msg) ==
  /\ client
  /\ Call(name)
  /\ Post(<<msg>>)
  /\ UNCHANGED <<hal, asked, excused>>
  /\ Elsewhere

loc_start == Posts("start", [kind |-> "start"])
loc_stop  == Posts("stop", [kind |-> "stop"])

loc_set_position_mode ==
  \E r \in {"PERIODIC", "SINGLE"} : Posts("mode", [kind |-> "mode", recurrence |-> r])

loc_delete_aiding_data ==
  \E f \in AidingTypes : Posts("delete", [kind |-> "delete", types |-> {f}])

\* Calls that bring the modem an item once, each in a message of its own.
Injects(name, i, msg) ==
  /\ client
  /\ Call(name)
  /\ \E v \in Values : Post(<<msg[v]>>) /\ Ask(i, v)
  /\ UNCHANGED hal
  /\ Elsewhere

loc_inject_time      == Injects("time", "TIME", [v \in Values |-> LocEngSetTime(v)])
loc_inject_location  == Injects("location", "POSITION", [v \in Values |-> LocEngInjectLocation(v)])
loc_xtra_inject_data == Injects("xtra", "XTRA_DATA", [v \in Values |-> LocEngInjectXtraData(v)])

\* As many certificates as there are slots, none too long.
loc_agps_install_certificates ==
  Injects("certs", "CERTS", [v \in Values |-> LocEngInstallAGpsCert(v)])

\* loc_eng_gps_measurement_init and _close.
measurement(on) ==
  /\ client
  /\ Call("measurement")
  /\ on # (data["MASK"] = 2)
  /\ data' = [data EXCEPT !["MASK"] = IF on THEN 2 ELSE 1]
  /\ Post(<<LocEngUpdateRegistrationMask(data'["MASK"])>>)
  /\ Ask("MASK", data'["MASK"])
  /\ UNCHANGED <<adapter, client, agps>>
  /\ Elsewhere

loc_gps_measurement_init  == measurement(TRUE)
loc_gps_measurement_close == measurement(FALSE)

\* A name that cannot be resolved is not sent.
Resolves(i) == IF i = "C2K" THEN BOOLEAN ELSE {TRUE}

\* loc_eng_agps_init sends the servers that are set (loc_eng_agps_reinit).
loc_agps_init ==
  /\ client
  /\ ~agps
  /\ "init" \in Calls
  /\ agps' = TRUE
  /\ \E resolved \in Resolves("C2K") :
       LET there == {i \in {"SUPL", "C2K"} \cap Items : data[i] # NoHost /\ (i = "C2K" => resolved)}
           Sent(i) == IF i \in there THEN <<Made(i)>> ELSE <<>> IN
       /\ Post(Sent("SUPL") \o Sent("C2K"))
       /\ excused' = excused \ there
  /\ UNCHANGED <<adapter, client, data, asked, bounds>>
  /\ Elsewhere

loc_eng_set_server(i, v) == IF adapter THEN <<IF i = "SUPL" THEN LocEngSetServerUrl(v)
                                                            ELSE LocEngSetServerIpv4(v)>>
                                       ELSE <<>>

loc_agps_set_server ==
  \E i \in {"SUPL", "C2K"} \cap Items, v \in Values : \E resolved \in Resolves(i) :
    /\ Call("server")
    /\ data' = [data EXCEPT ![i] = v]
    /\ IF resolved THEN Post(loc_eng_set_server(i, v)) ELSE UNCHANGED queue
    /\ IF resolved /\ agps THEN Ask(i, v) ELSE AskInVain(i, v)
    /\ UNCHANGED <<adapter, client, agps>>
    /\ Elsewhere

\* Kept for loc_eng_reinit; sent only with the name of an access point.
loc_agps_ril_update_network_availability ==
  \E available \in Values, apn \in BOOLEAN :
    /\ Call("network")
    /\ data' = [data EXCEPT !["ENABLE"] = available]
    /\ IF adapter /\ apn
       THEN Post(<<LocEngEnableData(available)>>) /\ Ask("ENABLE", available)
       ELSE UNCHANGED queue /\ AskInVain("ENABLE", available)
    /\ UNCHANGED <<adapter, client, agps>>
    /\ Elsewhere

\* Of the file's settings those of Settings are sent if they change, GPS_LOCK
\* is kept, and the others that matter here are put back.
loc_configuration_update ==
  \E s \in (Settings \cap Items) \cup {"GPS_LOCK"}, v \in Values :
    /\ Call("config")
    /\ data' = [data EXCEPT ![s] = v]
    /\ IF s \in Settings /\ data[s] # v
       THEN IF adapter THEN queue' = Append(queue, Set(s, v)) /\ Ask(s, v)
                       ELSE UNCHANGED queue /\ AskInVain(s, v)
       ELSE UNCHANGED <<queue, asked, excused>>
    /\ UNCHANGED <<adapter, client, agps>>
    /\ Elsewhere

Hal ==
  \/ loc_init
  \/ loc_cleanup
  \/ loc_start
  \/ loc_stop
  \/ loc_set_position_mode
  \/ loc_delete_aiding_data
  \/ loc_inject_time
  \/ loc_inject_location
  \/ loc_xtra_inject_data
  \/ loc_agps_install_certificates
  \/ loc_gps_measurement_init
  \/ loc_gps_measurement_close
  \/ loc_agps_init
  \/ loc_agps_set_server
  \/ loc_agps_ril_update_network_availability
  \/ loc_configuration_update

-----------------------------------------------------------------------------
\* The modem's thread: LocApiBase gives each report to the adapter.

LocEngReportPosition(f) == [kind |-> "position", fix |-> f]
LocEngReportStatus(s)   == [kind |-> "status", status |-> s]

Reports(msg) ==
  /\ opened
  /\ Len(queue) < MaxQueue
  /\ reports < MaxReports
  /\ reports' = reports + 1
  /\ Post(<<msg>>)
  /\ UNCHANGED <<hal, state, aiding_data_for_deletion, fix, busy, modem, opened, session, set,
                 asked, excused, calls, crashes>>

reportPosition == \E f \in Positions : Reports(LocEngReportPosition(f))
reportStatus   == \E s \in Statuses : Reports(LocEngReportStatus(s))

\* A network-initiated request that overrides the user's privacy.
requestNiNotify == "mute" \in Calls /\ Reports([kind |-> "mute"])

Announces(msg) ==
  /\ queue' = IF adapter THEN Append(queue, msg) ELSE queue
  /\ UNCHANGED <<hal, state, aiding_data_for_deletion, fix, busy, asked, calls, reports>>

\* The modem goes down.  What it was told is gone, and only the items of
\* loc_eng_reinit will be told again.
handleEngineDownEvent ==
  /\ modem = "up"
  /\ crashes < MaxCrashes
  /\ crashes' = crashes + 1
  /\ modem' = "down"
  /\ opened' = FALSE
  /\ session' = FALSE
  /\ set' = [i \in AllItems |-> Unset]
  /\ excused' = excused \cup Once
  /\ Announces([kind |-> "down"])

\* It comes back: first the connection is to be opened again, ...
handleEngineUpEvent ==
  /\ modem = "down"
  /\ modem' = "back"
  /\ Announces([kind |-> "open"])
  /\ UNCHANGED <<opened, session, set, excused, crashes>>

\* ... and then the adapter hears of it.
AdapterHears ==
  /\ modem = "back"
  /\ modem' = "up"
  /\ Announces([kind |-> "up"])
  /\ UNCHANGED <<opened, session, set, excused, crashes>>

Modem ==
  \/ reportPosition
  \/ reportStatus
  \/ requestNiNotify
  \/ handleEngineDownEvent
  \/ handleEngineUpEvent
  \/ AdapterHears

-----------------------------------------------------------------------------
\* The MsgTask.

Handle(kind) ==
  /\ work = <<>>
  /\ held = NoMsg
  /\ queue # <<>>
  /\ Head(queue).kind = kind
  /\ queue' = Tail(queue)
  /\ UNCHANGED <<hal, held, modem, asked, bounds>>

Msg == Head(queue)

\* LocOpenMsg and LocSsrMsg: open with the mask of the adapters, which
\* updateRegistrationMask does not change.  A connection that is open already
\* is opened again.
Open ==
  /\ Handle("open")
  /\ opened' = (modem # "down")
  /\ set' = IF opened' THEN [set EXCEPT !["MASK"] = 1] ELSE set
  /\ excused' = IF opened THEN excused \cup {"MASK"} ELSE excused
  /\ UNCHANGED <<state, aiding_data_for_deletion, fix, work, session>>

\* An item reaches the modem, or is lost.
Tell ==
  /\ Handle("set")
  /\ set' = IF opened THEN [set EXCEPT ![Msg.item] = Msg.value] ELSE set
  /\ excused' = IF ~opened /\ Msg.item \in Once THEN excused \cup {Msg.item} ELSE excused
  /\ UNCHANGED <<state, aiding_data_for_deletion, fix, work, opened, session>>

\* A mutant of loc_eng_reinit: the network's availability is not sent again.
ReinitWithoutData ==
  Turn("SUPL_VER") \o Turn("LPP_PROFILE") \o Turn("SENSOR_CONTROL") \o Turn("A_GLONASS")
    \o Turn("SENSOR_PROPERTIES") \o Turn("SENSOR_PERF") \o Turn("XTRA_CHECK")

loc_eng_reinit ==
  Turn("SUPL_VER") \o Turn("LPP_PROFILE") \o Turn("SENSOR_CONTROL") \o Turn("A_GLONASS")
    \o Turn("SENSOR_PROPERTIES") \o Turn("SENSOR_PERF") \o Turn("ENABLE") \o Turn("XTRA_CHECK")

loc_eng_agps_reinit == Turn("SUPL") \o Turn("C2K")

LocEngInit ==
  /\ Handle("init")
  /\ work' = loc_eng_reinit \o <<"LOCK">>
  /\ UNCHANGED <<state, aiding_data_for_deletion, fix, opened, session, set, excused>>

LocEngUp ==
  /\ Handle("up")
  /\ work' = loc_eng_reinit \o (IF agps THEN loc_eng_agps_reinit ELSE <<>>) \o <<"restart">>
  /\ UNCHANGED <<state, aiding_data_for_deletion, fix, opened, session, set, excused>>

\* The handler makes its next message.  A server that is not set or cannot be
\* resolved is skipped.
Make ==
  /\ work # <<>>
  /\ held = NoMsg
  /\ LET i == Head(work) IN
     \E resolved \in Resolves(i) :
       /\ i \notin {"LOCK", "restart"}
       /\ LET made == resolved /\ ~(i \in {"SUPL", "C2K"} /\ data[i] = NoHost) IN
          /\ held' = IF made THEN Made(i) ELSE NoMsg
          /\ work' = IF made THEN work ELSE Tail(work)
          /\ excused' = IF made /\ asked[i] = data[i] THEN excused \ {i} ELSE excused \cup {i}
  /\ UNCHANGED <<hal, state, aiding_data_for_deletion, fix, queue, modem, opened, session, set,
                 asked, bounds>>

Send ==
  /\ held # NoMsg
  /\ Post(<<held>>)
  /\ held' = NoMsg
  /\ work' = Tail(work)
  /\ UNCHANGED <<hal, state, aiding_data_for_deletion, fix, modem, opened, session, set, asked,
                 excused, bounds>>

\* LocEngInit sets the lock itself, before the HAL's message about it.
SetGpsLock ==
  /\ work = <<"LOCK">>
  /\ held = NoMsg
  /\ work' = <<>>
  /\ set' = IF opened /\ "LOCK" \in Items THEN [set EXCEPT !["LOCK"] = 1] ELSE set
  /\ UNCHANGED <<hal, state, aiding_data_for_deletion, fix, queue, held, modem, opened, session,
                 asked, excused, bounds>>

\* The answer to startFix: an engine that cannot look now will later.
StartFix(answer) ==
  /\ answer \in IF opened THEN {"SUCCESS", "PHONE_OFFLINE", "INTERNAL", "GENERAL_FAILURE"}
                          ELSE {"ENGINE_DOWN"}
  /\ session' = (session \/ (opened /\ answer # "GENERAL_FAILURE"))

\* In a session nothing is done.
loc_eng_start_handler ==
  \E answer \in {"SUCCESS", "ENGINE_DOWN", "PHONE_OFFLINE", "INTERNAL", "GENERAL_FAILURE"} :
    /\ StartFix(answer)
    /\ mNavigating' = (answer # "GENERAL_FAILURE")

LocEngStartFix ==
  /\ Handle("start")
  /\ IF mNavigating THEN UNCHANGED <<session, mNavigating>> ELSE loc_eng_start_handler
  /\ UNCHANGED <<state, aiding_data_for_deletion, recurrence, ended, work, opened, set,
                 excused>>

\* setInSession(false) forgets the mode (left out), and keeps the recurrence.
EndSession(how) ==
  /\ mNavigating' = FALSE
  /\ ended' = how
  /\ UNCHANGED recurrence

StopFix == session' = FALSE

\* A mutant of loc_eng_stop_handler: the modem is not told.
OnlyOurSession == UNCHANGED session /\ EndSession("stop")

loc_eng_stop_handler == StopFix /\ EndSession("stop")

LocEngStopFix ==
  /\ Handle("stop")
  /\ IF mNavigating THEN loc_eng_stop_handler ELSE UNCHANGED <<session, fix>>
  /\ UNCHANGED <<state, aiding_data_for_deletion, work, opened, set, excused>>

LocEngPositionMode ==
  /\ Handle("mode")
  /\ recurrence' = Msg.recurrence
  /\ UNCHANGED <<state, aiding_data_for_deletion, mNavigating, ended, work, opened, session, set,
                 excused>>

\* The end of LocEngUp: the session that was on is begun again.
Restart ==
  /\ work = <<"restart">>
  /\ held = NoMsg
  /\ work' = <<>>
  /\ IF mNavigating
     THEN /\ loc_eng_start_handler
          /\ ended' = IF session THEN "refused" ELSE "stop"
          /\ UNCHANGED recurrence
     ELSE UNCHANGED <<session, fix>>
  /\ UNCHANGED <<hal, state, aiding_data_for_deletion, queue, held, modem, opened, set, asked,
                 excused, bounds>>

\* Does the framework get this fix?
Reported(f) ==
  \/ f.status = "FAILURE"
  \/ f.status = "SUCCESS" /\ f.sat
  \/ AcceptIntermediate /\ f.accurate

\* A single fix that is reported ends the session; only an intermediate one
\* has to be stopped.
ReportPosition ==
  /\ Handle("position")
  /\ IF mute_session_state # "IN_SESSION" /\ Reported(Msg.fix) /\ recurrence = "SINGLE"
     THEN IF Msg.fix.status = "INTERMEDIATE"
          THEN StopFix /\ EndSession("stop")
          ELSE EndSession(IF mNavigating THEN "answer" ELSE ended) /\ UNCHANGED session
     ELSE UNCHANGED <<session, fix>>
  /\ UNCHANGED <<state, aiding_data_for_deletion, work, opened, set, excused>>

\* A mutant of Deleted: the status of before the report decides.
DeletedByOldStatus(pending) == IF engine_status # "ENGINE_ON" THEN {} ELSE pending

\* Aiding data is deleted when the engine is not on.
Deleted(pending) == IF engine_status' # "ENGINE_ON" THEN {} ELSE pending

LocEngDelAidData ==
  /\ Handle("delete")
  /\ UNCHANGED <<state, fix, work, opened, session, set, excused>>
  /\ aiding_data_for_deletion' = Deleted(Msg.types)

loc_eng_mute_one_session ==
  /\ Handle("mute")
  /\ mute_session_state' = "WAIT"
  /\ UNCHANGED <<engine_status, told, downed, aiding_data_for_deletion, fix,
                 work, opened, session, set, excused>>

\* How a status moves the muting: one session is muted from its first status
\* to its last.
Muted(s) ==
  LET begun == IF s \in {"SESSION_BEGIN", "ENGINE_ON"} /\ mute_session_state = "WAIT"
               THEN "IN_SESSION"
               ELSE mute_session_state
  IN IF begun = "IN_SESSION" /\ s \in {"SESSION_END", "ENGINE_OFF"} THEN "NONE" ELSE begun

\* A mutant of Hears: the muting ends only after the status was told.
HearsBeforeMuting(s) ==
  /\ s # "NONE"
  /\ ~(s = "SESSION_END" /\ mNavigating)
  /\ ~(s = "SESSION_BEGIN" /\ ~mNavigating)
  /\ mute_session_state # "IN_SESSION"

\* Does the framework hear of it?
Hears(s) ==
  /\ s # "NONE"
  /\ ~(s = "SESSION_END" /\ mNavigating)
  /\ ~(s = "SESSION_BEGIN" /\ ~mNavigating)
  /\ Muted(s) # "IN_SESSION"

loc_eng_report_status(s) ==
  /\ mute_session_state' = Muted(s)
  /\ told' = IF Hears(s) /\ s \in {"ENGINE_ON", "ENGINE_OFF"} THEN s ELSE told
  /\ engine_status' = IF s \in {"ENGINE_ON", "ENGINE_OFF"} THEN s ELSE engine_status

ReportStatus ==
  /\ Handle("status")
  /\ loc_eng_report_status(Msg.status)
  /\ aiding_data_for_deletion' = Deleted(aiding_data_for_deletion)
  /\ downed' = FALSE
  /\ UNCHANGED <<fix, work, opened, session, set, excused>>

\* The sessions of loc_eng_ni.cpp are reset besides.
LocEngDown ==
  /\ Handle("down")
  /\ loc_eng_report_status("ENGINE_OFF")
  /\ downed' = TRUE
  /\ UNCHANGED <<aiding_data_for_deletion, fix, work, opened, session, set, excused>>

MsgTask ==
  \/ Open
  \/ Tell
  \/ LocEngInit
  \/ LocEngUp
  \/ Make
  \/ Send
  \/ SetGpsLock
  \/ LocEngStartFix
  \/ LocEngStopFix
  \/ LocEngPositionMode
  \/ Restart
  \/ ReportPosition
  \/ LocEngDelAidData
  \/ loc_eng_mute_one_session
  \/ ReportStatus
  \/ LocEngDown

Next == Hal \/ Modem \/ MsgTask

Spec == Init /\ [][Next]_vars

-----------------------------------------------------------------------------
\* Everything has been handled, and the modem is there.
Quiet ==
  /\ queue = <<>>
  /\ work = <<>>
  /\ modem = "up"
  /\ opened

\* When all is handled the modem holds every item as the framework last asked
\* for it, however often it went down (loc_eng_reinit, loc_eng_agps_reinit).
\* Excused until they are told again: an item the framework changed without a
\* message (a server before loc_agps_init, or one whose name does not resolve; a
\* network without an access point), or while the restart
\* handler had made an older message of it and not sent it; and those that are
\* told once (the lock, the mask, what is injected), if the modem went down or
\* its connection was opened again.
ModemIsConfigured == Quiet => \A i \in Items \ excused : set[i] = asked[i]

\* When all is handled, the engine has a session exactly if the modem was told
\* of one: a session goes on after the modem was down (loc_eng_handle_engine_up),
\* and one that is over was stopped there, unless the modem ended it by
\* answering a request for a single fix, or refused to begin it again.
SessionsAgree ==
  Quiet => /\ mNavigating => session
           /\ session /\ ~mNavigating => ended # "stop"

\* A deletion of aiding data waits only for an engine that is on
\* (update_aiding_data_for_deletion); only if the modem went down it waits for
\* the next status besides (loc_eng_handle_engine_down does not look).
DeletionWaitsForEngine ==
  aiding_data_for_deletion # {} /\ engine_status # "ENGINE_ON" => downed

\* However sessions are muted, the framework never takes the engine to be on
\* when it is off (loc_eng_report_status lifts the muting first).
OffIsTold == told = "ENGINE_ON" => engine_status = "ENGINE_ON"
=============================================================================
