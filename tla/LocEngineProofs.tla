--------------------------- MODULE LocEngineProofs ---------------------------
(***************************************************************************)
(* For any items, values and aiding data, and any number of calls, reports *)
(* and crashes of the modem: its sessions and ours agree, it holds what    *)
(* the framework asked for, deletions wait for the engine only, and the    *)
(* framework hears that it is off.                                         *)
(*                                                                         *)
(* Sessions agree because of an order in the queue: an engine that goes    *)
(* down with a session comes back with an open and then an up, whose       *)
(* handler begins it again, and between the two nothing is lost.  Items    *)
(* agree because the newest word about each, in the handler's hand, in the *)
(* queue or with the modem, is what was asked for, or it will be sent      *)
(* again.                                                                  *)
(***************************************************************************)
EXTENDS LocEngine, SequenceTheorems, TLAPS

-----------------------------------------------------------------------------
(* Queues                                                                  *)

IsSeq(q) == \E S : q \in Seq(S)

Holds(w, x) == \E i \in DOMAIN w : w[i] = x

Has(q, kind) == \E i \in DOMAIN q : q[i].kind = kind

\* An open is in q, and an up behind it.
OpenThenUp(q) == \E i, j \in DOMAIN q : i < j /\ q[i].kind = "open" /\ q[j].kind = "up"

LEMMA SomeSeqs ==
  /\ IsSeq(<<>>)
  /\ \A x : IsSeq(<<x>>)
<1>1. <<>> \in Seq({})
  BY EmptySeq
<1>2. ASSUME NEW x
      PROVE  IsSeq(<<x>>)
  <2>1. <<x>> \in Seq({x})
    OBVIOUS
  <2>2. QED
    BY <2>1 DEF IsSeq
<1>3. QED
  BY <1>1, <1>2 DEF IsSeq

LEMMA ConcatSeq ==
  ASSUME NEW q, NEW r, IsSeq(q), IsSeq(r)
  PROVE  /\ IsSeq(q \o r)
         /\ Len(q) \in Nat /\ DOMAIN q = 1..Len(q) /\ Len(r) \in Nat /\ DOMAIN r = 1..Len(r)
         /\ DOMAIN (q \o r) = 1..(Len(q) + Len(r))
         /\ \A i \in DOMAIN q : (q \o r)[i] = q[i]
         /\ \A i \in DOMAIN r : (q \o r)[Len(q) + i] = r[i]
         /\ q \o r = <<>> <=> q = <<>> /\ r = <<>>
<1>1. PICK S : q \in Seq(S)
  BY DEF IsSeq
<1>2. PICK T : r \in Seq(T)
  BY DEF IsSeq
<1>3. q \in Seq(S \cup T) /\ r \in Seq(S \cup T)
  BY <1>1, <1>2, SeqMonotonic
<1>4. /\ q \o r \in Seq(S \cup T) /\ Len(q \o r) = Len(q) + Len(r)
      /\ \A i \in 1..(Len(q) + Len(r)) :
           (q \o r)[i] = IF i <= Len(q) THEN q[i] ELSE r[i - Len(q)]
      /\ q \o r = <<>> <=> q = <<>> /\ r = <<>>
  BY <1>3, ConcatProperties, ConcatEqualIffEmpty
<1>5. /\ Len(q) \in Nat /\ DOMAIN q = 1..Len(q) /\ Len(r) \in Nat /\ DOMAIN r = 1..Len(r)
      /\ DOMAIN (q \o r) = 1..Len(q \o r)
  BY <1>3, <1>4, LenProperties
<1>6. \A i \in DOMAIN q : (q \o r)[i] = q[i]
  BY <1>4, <1>5
<1>7. ASSUME NEW i \in DOMAIN r
      PROVE  (q \o r)[Len(q) + i] = r[i]
  <2>1. Len(q) + i \in 1..(Len(q) + Len(r)) /\ ~(Len(q) + i <= Len(q)) /\ (Len(q) + i) - Len(q) = i
    BY <1>5
  <2>2. QED
    BY <1>4, <2>1
<1>8. QED
  BY <1>4, <1>5, <1>6, <1>7 DEF IsSeq

LEMMA AppendSeq ==
  ASSUME NEW q, IsSeq(q), NEW x
  PROVE  Append(q, x) = q \o <<x>>
<1>1. PICK S : q \in Seq(S)
  BY DEF IsSeq
<1>2. q \in Seq(S \cup {x})
  BY <1>1, SeqMonotonic
<1>3. QED
  BY <1>2, AppendIsConcat

\* What is in a queue stays when more is added, and so does its head.
LEMMA Posted ==
  ASSUME NEW q, NEW r, IsSeq(q), IsSeq(r)
  PROVE  /\ IsSeq(q \o r)
         /\ \A k : Has(q, k) \/ Has(r, k) => Has(q \o r, k)
         /\ OpenThenUp(q) \/ (Has(q, "open") /\ Has(r, "up")) => OpenThenUp(q \o r)
         /\ q # <<>> => q \o r # <<>> /\ Head(q \o r) = Head(q)
         /\ \A x : Holds(q, x) \/ Holds(r, x) => Holds(q \o r, x)
<1>1. /\ IsSeq(q \o r)
      /\ Len(q) \in Nat /\ DOMAIN q = 1..Len(q) /\ Len(r) \in Nat /\ DOMAIN r = 1..Len(r)
      /\ DOMAIN (q \o r) = 1..(Len(q) + Len(r))
      /\ \A i \in DOMAIN q : (q \o r)[i] = q[i]
      /\ \A i \in DOMAIN r : (q \o r)[Len(q) + i] = r[i]
      /\ q \o r = <<>> <=> q = <<>> /\ r = <<>>
  BY ConcatSeq
<1>2. /\ \A i \in DOMAIN q : i \in Nat /\ i <= Len(q) /\ i \in DOMAIN (q \o r)
      /\ \A i \in DOMAIN r : Len(q) + i \in DOMAIN (q \o r) /\ Len(q) < Len(q) + i
  BY <1>1
<1>3. \A k : Has(q, k) \/ Has(r, k) => Has(q \o r, k)
  BY <1>1, <1>2 DEF Has
<1>4. \A x : Holds(q, x) \/ Holds(r, x) => Holds(q \o r, x)
  BY <1>1, <1>2 DEF Holds
<1>5. OpenThenUp(q) => OpenThenUp(q \o r)
  BY <1>1, <1>2 DEF OpenThenUp
<1>6. ASSUME Has(q, "open"), Has(r, "up")
      PROVE  OpenThenUp(q \o r)
  <2>1. PICK i \in DOMAIN q : q[i].kind = "open"
    BY <1>6 DEF Has
  <2>2. PICK j \in DOMAIN r : r[j].kind = "up"
    BY <1>6 DEF Has
  <2>3. i < Len(q) + j
    BY <1>1
  <2>4. QED
    BY <1>1, <1>2, <2>1, <2>2, <2>3 DEF OpenThenUp
<1>7. q # <<>> => q \o r # <<>> /\ Head(q \o r) = Head(q)
  <2> SUFFICES ASSUME q # <<>>
               PROVE  q \o r # <<>> /\ Head(q \o r) = Head(q)
    OBVIOUS
  <2>1. 1 \in DOMAIN q
    <3>1. PICK S : q \in Seq(S)
      BY DEF IsSeq
    <3>2. Len(q) \in Nat \ {0}
      BY <3>1, EmptySeq
    <3>3. QED
      BY <1>1, <3>2
  <2>2. q \o r # <<>> /\ (q \o r)[1] = q[1]
    BY <1>1, <2>1
  <2>3. QED
    BY <2>2
<1>8. QED
  BY <1>1, <1>3, <1>4, <1>5, <1>6, <1>7

\* Nothing but its head leaves a queue.
LEMMA Taken ==
  ASSUME NEW q, IsSeq(q), q # <<>>
  PROVE  /\ IsSeq(Tail(q))
         /\ \A k : Has(q, k) /\ Head(q).kind # k => Has(Tail(q), k)
         /\ OpenThenUp(q) /\ Head(q).kind # "open" => OpenThenUp(Tail(q))
         /\ \A x : Holds(q, x) /\ Head(q) # x => Holds(Tail(q), x)
<1>1. PICK S : q \in Seq(S)
  BY DEF IsSeq
<1>2. /\ Tail(q) \in Seq(S) /\ Len(Tail(q)) = Len(q) - 1
      /\ Len(q) \in Nat \ {0} /\ DOMAIN q = 1..Len(q) /\ DOMAIN Tail(q) = 1..Len(Tail(q))
      /\ \A i \in 1..Len(Tail(q)) : Tail(q)[i] = q[i + 1]
      /\ Head(q) = q[1]
  BY <1>1, HeadTailProperties, LenProperties, EmptySeq
<1>3. ASSUME NEW i \in DOMAIN q, i # 1
      PROVE  i - 1 \in DOMAIN Tail(q) /\ Tail(q)[i - 1] = q[i]
  <2>1. i - 1 \in 1..Len(Tail(q)) /\ (i - 1) + 1 = i
    BY <1>2, <1>3
  <2>2. QED
    BY <1>2, <2>1
<1>4. \A k : Has(q, k) /\ Head(q).kind # k => Has(Tail(q), k)
  BY <1>2, <1>3 DEF Has
<1>5. \A x : Holds(q, x) /\ Head(q) # x => Holds(Tail(q), x)
  BY <1>2, <1>3 DEF Holds
<1>6. ASSUME OpenThenUp(q), Head(q).kind # "open"
      PROVE  OpenThenUp(Tail(q))
  <2>1. PICK i \in DOMAIN q, j \in DOMAIN q : i < j /\ q[i].kind = "open" /\ q[j].kind = "up"
    BY <1>6 DEF OpenThenUp
  <2>2. i # 1 /\ j # 1 /\ i - 1 < j - 1
    BY <1>2, <1>6, <2>1
  <2>3. QED
    BY <1>3, <2>1, <2>2 DEF OpenThenUp
<1>7. QED
  BY <1>2, <1>4, <1>5, <1>6 DEF IsSeq

LEMMA UpBehindOpen ==
  ASSUME NEW q, OpenThenUp(q)
  PROVE  Has(q, "up")
BY DEF OpenThenUp, Has

-----------------------------------------------------------------------------
(* What the framework hears, and what waits to be deleted                  *)

StatusInv == OffIsTold /\ DeletionWaitsForEngine

LEMMA StatusStep == StatusInv /\ [Next]_vars => StatusInv'
<1> SUFFICES ASSUME StatusInv, [Next]_vars
             PROVE  StatusInv'
  OBVIOUS
<1> USE DEF StatusInv, OffIsTold, DeletionWaitsForEngine
<1>1. ASSUME UNCHANGED <<state, aiding_data_for_deletion>>
      PROVE  StatusInv'
  BY <1>1 DEF state
<1>2. CASE Hal
  <2>1. UNCHANGED <<state, aiding_data_for_deletion>>
    BY <1>2 DEF Hal, loc_init, loc_cleanup, loc_start, loc_stop, loc_set_position_mode,
         loc_delete_aiding_data, loc_inject_time, loc_inject_location, loc_xtra_inject_data,
         loc_agps_install_certificates, loc_gps_measurement_init, loc_gps_measurement_close,
         loc_agps_init, loc_agps_set_server, loc_agps_ril_update_network_availability,
         loc_configuration_update, Posts, Injects, measurement, Elsewhere
  <2>2. QED
    BY <1>1, <2>1
<1>3. CASE Modem
  <2>1. UNCHANGED <<state, aiding_data_for_deletion>>
    BY <1>3 DEF Modem, reportPosition, reportStatus, requestNiNotify, handleEngineDownEvent,
         handleEngineUpEvent, AdapterHears, Reports, Announces
  <2>2. QED
    BY <1>1, <2>1
<1>4. CASE Open \/ Tell \/ LocEngInit \/ LocEngUp \/ Make \/ Send \/ SetGpsLock
             \/ LocEngStartFix \/ LocEngStopFix \/ LocEngPositionMode \/ Restart
             \/ ReportPosition
  <2>1. UNCHANGED <<state, aiding_data_for_deletion>>
    BY <1>4 DEF Open, Tell, LocEngInit, LocEngUp, Make, Send, SetGpsLock, LocEngStartFix,
         LocEngStopFix, LocEngPositionMode, Restart, ReportPosition
  <2>2. QED
    BY <1>1, <2>1
<1>5. CASE LocEngDelAidData
  BY <1>5 DEF LocEngDelAidData, Deleted, state
<1>6. CASE loc_eng_mute_one_session
  BY <1>6 DEF loc_eng_mute_one_session
\* A status that the engine is off is always heard: the muting has ended by then.
<1>7. ASSUME NEW s, loc_eng_report_status(s)
      PROVE  OffIsTold'
  <2>1. s = "ENGINE_OFF" => Hears(s)
    BY DEF Hears, Muted
  <2>2. QED
    BY <1>7, <2>1 DEF loc_eng_report_status
<1>8. CASE ReportStatus
  BY <1>7, <1>8 DEF ReportStatus, Deleted
<1>9. CASE LocEngDown
  BY <1>7, <1>9 DEF LocEngDown
<1>10. CASE UNCHANGED vars
  BY <1>1, <1>10 DEF vars
<1>11. QED
  BY <1>2, <1>3, <1>4, <1>5, <1>6, <1>8, <1>9, <1>10 DEF Next, MsgTask

LEMMA StatusAlways == Spec => []StatusInv
<1>1. Init => StatusInv
  BY DEF Init, StatusInv, OffIsTold, DeletionWaitsForEngine
<1>2. QED
  BY <1>1, StatusStep, PTL DEF Spec

\* The framework never takes an engine to be on that is off (OffIsTold): whatever
\* loc_eng_report_status mutes, the status that ends it is heard.
THEOREM OffAlwaysTold == Spec => []OffIsTold
BY StatusAlways, PTL DEF StatusInv

\* Aiding data waits to be deleted only while the engine is on, or since it went down
\* (DeletionWaitsForEngine).
THEOREM DeletionNeverForgotten == Spec => []DeletionWaitsForEngine
BY StatusAlways, PTL DEF StatusInv

-----------------------------------------------------------------------------
(* Sessions                                                                *)

\* Before loc_eng_init there is no queue.
NoAdapterInv ==
  /\ client => adapter
  /\ ~adapter => queue = <<>> /\ work = <<>> /\ held = NoMsg /\ ~opened /\ ~mNavigating

\* The item of a message that is made is next in the handler's work.
WorkInv ==
  /\ IsSeq(queue) /\ IsSeq(work)
  /\ held # NoMsg => work # <<>> /\ Head(work) # "restart"

\* A modem that is there and not open will be opened first thing, or it came back, and an
\* up will follow.
OpenInv ==
  adapter /\ ~opened =>
    /\ modem = "back" => Has(queue, "open")
    /\ modem = "up" =>
         \/ OpenThenUp(queue)
         \/ queue # <<>> /\ Head(queue).kind = "open" /\ work = <<>>

\* A session the modem does not know of will be begun again, and a session that only the
\* modem knows of was not stopped by us.
SessionInv ==
  /\ mNavigating /\ ~session => modem # "up" \/ Has(queue, "up") \/ Holds(work, "restart")
  /\ session /\ ~mNavigating => ended # "stop"

IInv == NoAdapterInv /\ WorkInv /\ OpenInv /\ SessionInv

LEMMA InvInit == Init => IInv
BY SomeSeqs DEF Init, IInv, NoAdapterInv, WorkInv, OpenInv, SessionInv

LEMMA TurnSeqs == IsSeq(loc_eng_reinit) /\ IsSeq(loc_eng_agps_reinit)
<1>1. \A i : IsSeq(Turn(i))
  BY SomeSeqs DEF Turn
<1>2. \A q, r : IsSeq(q) /\ IsSeq(r) => IsSeq(q \o r)
  BY Posted
<1>3. QED
  BY <1>1, <1>2 DEF loc_eng_reinit, loc_eng_agps_reinit

\* A call that only adds to the queue of an adapter that is there.
LEMMA PostKeeps ==
  ASSUME IInv, NEW msgs, IsSeq(msgs), adapter, queue' = queue \o msgs,
         UNCHANGED <<adapter, fix, busy, session>>, client' => adapter,
         \/ UNCHANGED <<modem, opened>>
         \/ modem' = "down" /\ ~opened'
         \/ modem' = "back" /\ Has(msgs, "open") /\ UNCHANGED opened
         \/ modem = "back" /\ modem' = "up" /\ Has(msgs, "up") /\ UNCHANGED opened
  PROVE  IInv'
<1>1. /\ IsSeq(queue') /\ \A k : Has(queue, k) \/ Has(msgs, k) => Has(queue', k)
      /\ OpenThenUp(queue) \/ (Has(queue, "open") /\ Has(msgs, "up")) => OpenThenUp(queue')
      /\ queue # <<>> => queue' # <<>> /\ Head(queue') = Head(queue)
  BY Posted DEF IInv, WorkInv
<1>2. UNCHANGED <<adapter, mNavigating, ended, work, held, session>>
  BY DEF fix, busy
<1>3. NoAdapterInv' /\ WorkInv'
  BY <1>1, <1>2 DEF IInv, NoAdapterInv, WorkInv
<1>4. OpenInv'
  BY <1>1, <1>2 DEF IInv, OpenInv
<1>5. SessionInv'
  BY <1>1, <1>2 DEF IInv, SessionInv
<1>6. QED
  BY <1>3, <1>4, <1>5 DEF IInv

LEMMA HalStep == IInv /\ Hal => IInv'
<1> SUFFICES ASSUME IInv, Hal
             PROVE  IInv'
  OBVIOUS
<1>1. ASSUME adapter, NEW msgs, IsSeq(msgs), Post(msgs), UNCHANGED adapter, Elsewhere
      PROVE  IInv'
  BY <1>1, PostKeeps DEF Post, Elsewhere
<1>2. ASSUME UNCHANGED <<adapter, queue>>, Elsewhere, client' => adapter
      PROVE  IInv'
  BY <1>2 DEF Elsewhere, IInv, NoAdapterInv, WorkInv, OpenInv, SessionInv, fix, busy
<1>3. \A x : IsSeq(<<x>>)
  BY SomeSeqs
<1>4. client => adapter
  BY DEF IInv, NoAdapterInv
<1>5. \A q, r : IsSeq(q) /\ IsSeq(r) => IsSeq(q \o r)
  BY Posted
<1>6. CASE loc_init
  <2> DEFINE lock == <<LocEngAdapterGpsLock(0)>>
             first == <<[kind |-> "open"], [kind |-> "init"]>>
  <2>1. CASE adapter
    <3>1. IsSeq(<<>> \o lock) /\ Post(<<>> \o lock) /\ UNCHANGED adapter /\ Elsewhere
      BY <1>3, <1>5, <1>6, <2>1, SomeSeqs DEF loc_init, loc_eng_init
    <3>2. QED
      BY <1>1, <2>1, <3>1
  <2>2. CASE ~adapter
    <3>1. /\ queue = <<>> /\ work = <<>> /\ held = NoMsg /\ ~opened /\ ~mNavigating
          /\ queue' = queue \o (first \o lock) /\ adapter' /\ Elsewhere
      BY <1>6, <2>2 DEF loc_init, loc_eng_init, Post, IInv, NoAdapterInv
    <3>2. IsSeq(first) /\ first # <<>> /\ Head(first).kind = "open" /\ Has(first, "open")
      <4>1. first = <<[kind |-> "open"]>> \o <<[kind |-> "init"]>>
        OBVIOUS
      <4>2. /\ first # <<>> /\ Head(first).kind = "open"
            /\ 1 \in DOMAIN first /\ first[1].kind = "open"
        OBVIOUS
      <4>3. QED
        BY <1>3, <1>5, <4>1, <4>2 DEF Has
    <3>3. /\ IsSeq(first \o lock) /\ first \o lock # <<>> /\ Head(first \o lock).kind = "open"
          /\ Has(first \o lock, "open")
      BY <1>3, <3>2, Posted
    <3>4. queue' = first \o lock
      BY <3>1, <3>3, ConcatEmptySeq DEF IsSeq
    <3>5. UNCHANGED <<mNavigating, ended, work, held, session, opened, modem>>
      BY <3>1 DEF Elsewhere, fix, busy
    <3>6. NoAdapterInv' /\ WorkInv'
      BY <3>1, <3>3, <3>4, <3>5 DEF IInv, NoAdapterInv, WorkInv
    <3>7. OpenInv' /\ SessionInv'
      BY <3>1, <3>3, <3>4, <3>5 DEF IInv, OpenInv, SessionInv
    <3>8. QED
      BY <3>6, <3>7 DEF IInv
  <2>3. QED
    BY <2>1, <2>2
<1>7. CASE loc_cleanup
  <2> DEFINE lock == <<LocEngAdapterGpsLock(data["GPS_LOCK"])>>
  <2>1. adapter /\ UNCHANGED adapter /\ Elsewhere /\ Post(lock \o loc_eng_cleanup)
    BY <1>4, <1>7 DEF loc_cleanup
  <2>2. IsSeq(lock) /\ IsSeq(loc_eng_cleanup)
    BY <1>3, SomeSeqs DEF loc_eng_cleanup, loc_eng_stop
  <2>3. QED
    BY <1>1, <1>5, <2>1, <2>2
<1>8. ASSUME NEW name, NEW msg, Posts(name, msg)
      PROVE  IInv'
  <2>1. adapter /\ UNCHANGED adapter /\ Elsewhere /\ Post(<<msg>>)
    BY <1>4, <1>8 DEF Posts, hal
  <2>2. QED
    BY <1>1, <1>3, <2>1
<1>9. ASSUME NEW name, NEW i, NEW msg, Injects(name, i, msg)
      PROVE  IInv'
  <2>1. adapter /\ UNCHANGED adapter /\ Elsewhere /\ \E v \in Values : Post(<<msg[v]>>)
    BY <1>4, <1>9 DEF Injects, hal
  <2>2. QED
    BY <1>1, <1>3, <2>1
<1>10. ASSUME NEW on, measurement(on)
       PROVE  IInv'
  <2>1. /\ adapter /\ UNCHANGED adapter /\ Elsewhere
        /\ Post(<<LocEngUpdateRegistrationMask(data'["MASK"])>>)
    BY <1>4, <1>10 DEF measurement
  <2>2. QED
    BY <1>1, <1>3, <2>1
<1>11. CASE loc_agps_init
  <2>1. adapter /\ UNCHANGED adapter /\ Elsewhere
    BY <1>4, <1>11 DEF loc_agps_init
  <2>2. \E there : Post((IF "SUPL" \in there THEN <<Made("SUPL")>> ELSE <<>>)
                          \o (IF "C2K" \in there THEN <<Made("C2K")>> ELSE <<>>))
    BY <1>11 DEF loc_agps_init
  <2>3. \A b, x : IsSeq(IF b THEN <<x>> ELSE <<>>)
    BY <1>3, SomeSeqs
  <2>4. QED
    BY <1>1, <1>5, <2>1, <2>2, <2>3
<1>12. CASE loc_agps_set_server
  <2>1. PICK i \in {"SUPL", "C2K"} \cap Items, v \in Values :
          Post(loc_eng_set_server(i, v)) \/ UNCHANGED queue
    BY <1>12 DEF loc_agps_set_server
  <2>2. UNCHANGED <<adapter, client>> /\ Elsewhere
    BY <1>12 DEF loc_agps_set_server
  <2>3. CASE UNCHANGED queue
    BY <1>2, <1>4, <2>2, <2>3
  <2>4. CASE adapter /\ Post(loc_eng_set_server(i, v))
    BY <1>1, <1>3, <2>2, <2>4 DEF loc_eng_set_server
  <2>5. CASE ~adapter /\ Post(loc_eng_set_server(i, v))
    <3>1. queue = <<>> /\ queue' = queue \o <<>>
      BY <2>5 DEF IInv, NoAdapterInv, loc_eng_set_server, Post
    <3>2. queue' = queue
      BY <3>1, EmptySeq, ConcatEmptySeq
    <3>3. QED
      BY <1>2, <1>4, <2>2, <3>2
  <2>6. QED
    BY <2>1, <2>3, <2>4, <2>5
<1>13. CASE loc_agps_ril_update_network_availability
  <2>1. UNCHANGED <<adapter, client>> /\ Elsewhere
    BY <1>13 DEF loc_agps_ril_update_network_availability
  <2>2. UNCHANGED queue \/ (adapter /\ \E v : Post(<<LocEngEnableData(v)>>))
    BY <1>13 DEF loc_agps_ril_update_network_availability
  <2>3. QED
    BY <1>1, <1>2, <1>3, <1>4, <2>1, <2>2
<1>14. CASE loc_configuration_update
  <2>1. UNCHANGED <<adapter, client>> /\ Elsewhere
    BY <1>14 DEF loc_configuration_update
  <2>2. UNCHANGED queue \/ (adapter /\ \E x : queue' = Append(queue, x))
    BY <1>14 DEF loc_configuration_update
  <2>3. \A x : Append(queue, x) = queue \o <<x>>
    BY AppendSeq DEF IInv, WorkInv
  <2>4. QED
    BY <1>1, <1>2, <1>3, <1>4, <2>1, <2>2, <2>3 DEF Post
<1>15. QED
  BY <1>6, <1>7, <1>8, <1>9, <1>10, <1>11, <1>12, <1>13, <1>14 DEF Hal, loc_start, loc_stop,
     loc_set_position_mode, loc_delete_aiding_data, loc_inject_time, loc_inject_location,
     loc_xtra_inject_data, loc_agps_install_certificates, loc_gps_measurement_init,
     loc_gps_measurement_close

LEMMA ModemStep == IInv /\ Modem => IInv'
<1> SUFFICES ASSUME IInv, Modem
             PROVE  IInv'
  OBVIOUS
<1>1. \A x : IsSeq(<<x>>)
  BY SomeSeqs
<1>2. /\ client => adapter
      /\ ~adapter => queue = <<>> /\ work = <<>> /\ held = NoMsg /\ ~opened /\ ~mNavigating
  BY DEF IInv, NoAdapterInv
<1>3. ASSUME NEW msg, Reports(msg)
      PROVE  IInv'
  <2>1. /\ adapter /\ queue' = queue \o <<msg>>
        /\ UNCHANGED <<adapter, client, fix, busy, session, modem, opened>>
    BY <1>2, <1>3 DEF Reports, Post, hal
  <2>2. QED
    BY <1>1, <1>2, <2>1, PostKeeps
<1>4. CASE reportPosition \/ reportStatus \/ requestNiNotify
  BY <1>3, <1>4 DEF reportPosition, reportStatus, requestNiNotify
<1>5. ASSUME NEW msg, Announces(msg)
      PROVE  /\ UNCHANGED <<adapter, client, fix, busy>>
             /\ adapter => queue' = queue \o <<msg>>
             /\ ~adapter => UNCHANGED queue
  BY <1>5, AppendSeq DEF Announces, hal, IInv, WorkInv
<1>6. ASSUME ~adapter, NEW msg, Announces(msg), session' => session, UNCHANGED opened \/ ~opened'
      PROVE  IInv'
  <2>1. UNCHANGED <<adapter, client, mNavigating, queue, work, held, ended>>
    BY <1>5, <1>6 DEF fix, busy
  <2>2. ~adapter' /\ ~client' /\ ~opened' /\ ~mNavigating'
    BY <1>2, <1>6, <2>1
  <2>3. NoAdapterInv' /\ OpenInv'
    BY <1>2, <1>6, <2>1, <2>2 DEF NoAdapterInv, OpenInv
  <2>4. WorkInv'
    BY <2>1 DEF IInv, WorkInv
  <2>5. SessionInv'
    BY <1>2, <1>6, <2>1, <2>2 DEF IInv, SessionInv
  <2>6. QED
    BY <2>3, <2>4, <2>5 DEF IInv
<1>7. CASE handleEngineDownEvent
  <2>1. /\ Announces([kind |-> "down"]) /\ modem' = "down" /\ opened' = FALSE /\ session' = FALSE
    BY <1>7 DEF handleEngineDownEvent
  <2>2. CASE adapter
    <3>1. /\ queue' = queue \o <<[kind |-> "down"]>> /\ UNCHANGED <<adapter, client, fix, busy>>
          /\ modem' = "down" /\ ~opened' /\ session' = FALSE
      BY <1>5, <2>1, <2>2
    <3>2. IsSeq(queue') /\ (queue # <<>> => queue' # <<>>)
      BY <1>1, <3>1, Posted DEF IInv, WorkInv
    <3>3. QED
      BY <1>2, <2>2, <3>1, <3>2
         DEF IInv, NoAdapterInv, WorkInv, OpenInv, SessionInv, fix, busy
  <2>3. QED
    BY <1>6, <2>1, <2>2
<1>8. CASE handleEngineUpEvent
  <2>1. Announces([kind |-> "open"]) /\ modem' = "back" /\ UNCHANGED <<opened, session>>
    BY <1>8 DEF handleEngineUpEvent
  <2>2. Has(<<[kind |-> "open"]>>, "open")
    BY DEF Has
  <2>3. QED
    BY <1>1, <1>2, <1>5, <1>6, <2>1, <2>2, PostKeeps
<1>9. CASE AdapterHears
  <2>1. /\ Announces([kind |-> "up"]) /\ modem = "back" /\ modem' = "up"
        /\ UNCHANGED <<opened, session>>
    BY <1>9 DEF AdapterHears
  <2>2. Has(<<[kind |-> "up"]>>, "up")
    BY DEF Has
  <2>3. QED
    BY <1>1, <1>2, <1>5, <1>6, <2>1, <2>2, PostKeeps
<1>10. QED
  BY <1>4, <1>7, <1>8, <1>9 DEF Modem

\* The start of a session, and its answer: without a connection the session waits for the up.
LEMMA StartAnswered ==
  ASSUME loc_eng_start_handler, opened \/ modem # "up" \/ Has(queue, "up")
  PROVE  /\ mNavigating' /\ ~session' => modem # "up" \/ Has(queue, "up")
         /\ ~mNavigating' /\ session' => session
BY DEF loc_eng_start_handler, StartFix

LEMMA MsgTaskStep == IInv /\ MsgTask => IInv'
<1> SUFFICES ASSUME IInv, MsgTask
             PROVE  IInv'
  OBVIOUS
<1>1. /\ NoAdapterInv /\ WorkInv /\ OpenInv /\ SessionInv
  BY DEF IInv
\* A message is taken, and it is neither open nor up.
<1>2. ASSUME NEW kind, Handle(kind)
      PROVE  /\ adapter /\ work = <<>> /\ held = NoMsg /\ Head(queue).kind = kind
             /\ queue' = Tail(queue) /\ IsSeq(queue') /\ UNCHANGED <<adapter, client, held, modem>>
             /\ \A k : Has(queue, k) /\ kind # k => Has(queue', k)
             /\ OpenThenUp(queue) /\ kind # "open" => OpenThenUp(queue')
  BY <1>1, <1>2, Taken DEF Handle, NoAdapterInv, WorkInv, hal
<1>3. ASSUME NEW kind, Handle(kind), kind \notin {"open", "up"}, UNCHANGED opened,
             IsSeq(work'), SessionInv'
      PROVE  IInv'
  <2>1. NoAdapterInv' /\ WorkInv' /\ OpenInv'
    BY <1>1, <1>2, <1>3 DEF NoAdapterInv, WorkInv, OpenInv
  <2>2. QED
    BY <1>3, <2>1 DEF IInv
<1>4. ASSUME NEW kind, Handle(kind), kind # "up", UNCHANGED <<session, fix>>
      PROVE  SessionInv'
  <2>1. ~Holds(work, "restart")
    BY <1>2, <1>4 DEF Holds
  <2>2. QED
    BY <1>1, <1>2, <1>4, <2>1 DEF SessionInv, fix
<1>5. CASE Open
  <2>1. /\ Handle("open") /\ opened' = (modem # "down") /\ UNCHANGED <<session, fix, work>>
    BY <1>5 DEF Open
  <2>2. OpenInv'
    BY <1>2, <2>1 DEF OpenInv
  <2>3. NoAdapterInv' /\ WorkInv'
    BY <1>1, <1>2, <2>1 DEF NoAdapterInv, WorkInv
  <2>4. QED
    BY <1>4, <2>1, <2>2, <2>3 DEF IInv
<1>6. ASSUME NEW kind, Handle(kind), kind \notin {"open", "up"},
             UNCHANGED <<opened, session, fix, work>>
      PROVE  IInv'
  BY <1>1, <1>3, <1>4, <1>6 DEF WorkInv
<1>7. CASE Tell \/ LocEngDelAidData \/ loc_eng_mute_one_session \/ ReportStatus \/ LocEngDown
  BY <1>6, <1>7 DEF Tell, LocEngDelAidData, loc_eng_mute_one_session, ReportStatus, LocEngDown
<1>8. CASE LocEngInit
  <2>1. /\ Handle("init") /\ UNCHANGED <<opened, session, fix>>
        /\ work' = loc_eng_reinit \o <<"LOCK">>
    BY <1>8 DEF LocEngInit
  <2>2. IsSeq(work')
    BY <2>1, TurnSeqs, SomeSeqs, Posted
  <2>3. QED
    BY <1>3, <1>4, <2>1, <2>2
<1>9. CASE LocEngUp
  <2>1. /\ Handle("up") /\ UNCHANGED <<opened, session, fix>>
        /\ work' = (loc_eng_reinit \o (IF agps THEN loc_eng_agps_reinit ELSE <<>>)) \o <<"restart">>
    BY <1>9 DEF LocEngUp
  <2>2. IsSeq(loc_eng_reinit \o (IF agps THEN loc_eng_agps_reinit ELSE <<>>))
    BY TurnSeqs, SomeSeqs, Posted
  <2>3. Holds(<<"restart">>, "restart") /\ IsSeq(<<"restart">>)
    BY SomeSeqs DEF Holds
  <2>4. IsSeq(work') /\ Holds(work', "restart")
    BY <2>1, <2>2, <2>3, Posted
  <2>5. NoAdapterInv' /\ WorkInv' /\ OpenInv'
    BY <1>1, <1>2, <2>1, <2>4 DEF NoAdapterInv, WorkInv, OpenInv
  <2>6. SessionInv'
    BY <1>1, <2>1, <2>4 DEF SessionInv, fix
  <2>7. QED
    BY <2>5, <2>6 DEF IInv
\* The handler goes on by one item, which is not the restart.
<1>10. ASSUME work # <<>>, Head(work) # "restart", work' \in {work, Tail(work)},
              held' # NoMsg => work' = work, NEW msgs, IsSeq(msgs), queue' = queue \o msgs,
              UNCHANGED <<adapter, client, modem, opened, session, fix>>
       PROVE  IInv'
  <2>1. /\ IsSeq(queue') /\ IsSeq(work')
        /\ Has(queue, "open") => Has(queue', "open")
        /\ Has(queue, "up") => Has(queue', "up")
        /\ OpenThenUp(queue) => OpenThenUp(queue')
        /\ Holds(work, "restart") => Holds(work', "restart")
    BY <1>1, <1>10, Posted, Taken DEF WorkInv
  <2>2. adapter
    BY <1>1, <1>10 DEF NoAdapterInv
  <2>3. NoAdapterInv' /\ WorkInv'
    BY <1>1, <1>10, <2>1, <2>2 DEF NoAdapterInv, WorkInv
  <2>4. OpenInv' /\ SessionInv'
    BY <1>1, <1>10, <2>1 DEF OpenInv, SessionInv, fix
  <2>5. QED
    BY <2>3, <2>4 DEF IInv
<1>11. CASE Make
  <2>1. /\ work # <<>> /\ Head(work) # "restart" /\ work' \in {work, Tail(work)}
        /\ held' # NoMsg => work' = work
        /\ UNCHANGED <<queue, adapter, client, modem, opened, session, fix>>
    BY <1>11 DEF Make, hal
  <2>2. queue' = queue \o <<>>
    BY <1>1, <2>1, ConcatEmptySeq DEF WorkInv, IsSeq
  <2>3. QED
    BY <1>10, <2>1, <2>2, SomeSeqs
<1>12. CASE Send
  <2>1. /\ work # <<>> /\ Head(work) # "restart" /\ work' = Tail(work) /\ held' = NoMsg
        /\ queue' = queue \o <<held>>
        /\ UNCHANGED <<adapter, client, modem, opened, session, fix>>
    BY <1>1, <1>12 DEF Send, Post, hal, WorkInv
  <2>2. QED
    BY <1>10, <2>1, SomeSeqs
\* The last step of a handler.
<1>13. ASSUME work # <<>>, held = NoMsg, work' = <<>>,
              UNCHANGED <<adapter, client, queue, held, modem, opened>>, SessionInv'
       PROVE  IInv'
  <2>1. adapter
    BY <1>1, <1>13 DEF NoAdapterInv
  <2>2. NoAdapterInv' /\ WorkInv' /\ OpenInv'
    BY <1>1, <1>13, <2>1, SomeSeqs DEF NoAdapterInv, WorkInv, OpenInv
  <2>3. QED
    BY <1>13, <2>2 DEF IInv
<1>14. CASE SetGpsLock
  <2>1. /\ work = <<"LOCK">> /\ held = NoMsg /\ work' = <<>>
        /\ UNCHANGED <<adapter, client, queue, held, modem, opened, session, fix>>
    BY <1>14 DEF SetGpsLock, hal
  <2>2. ~Holds(work, "restart") /\ work # <<>>
    BY <2>1 DEF Holds
  <2>3. SessionInv'
    BY <1>1, <2>1, <2>2 DEF SessionInv, fix
  <2>4. QED
    BY <1>13, <2>1, <2>2, <2>3
<1>15. CASE Restart
  <2>1. /\ work = <<"restart">> /\ work # <<>> /\ held = NoMsg /\ work' = <<>>
        /\ UNCHANGED <<adapter, client, queue, held, modem, opened>>
    BY <1>15 DEF Restart, hal
  <2>2. adapter /\ (opened \/ modem # "up" \/ Has(queue, "up"))
    BY <1>1, <2>1, UpBehindOpen DEF OpenInv, NoAdapterInv
  <2>3. SessionInv'
    <3>1. CASE ~mNavigating
      BY <1>1, <1>15, <3>1 DEF Restart, SessionInv, fix
    <3>2. CASE mNavigating
      <4>1. loc_eng_start_handler /\ ended' = IF session THEN "refused" ELSE "stop"
        BY <1>15, <3>2 DEF Restart
      <4>2. QED
        BY <2>1, <2>2, <4>1, StartAnswered DEF SessionInv
    <3>3. QED
      BY <3>1, <3>2
  <2>4. QED
    BY <1>13, <2>1, <2>3
<1>16. CASE LocEngStartFix
  <2>1. Handle("start") /\ UNCHANGED <<opened, work, ended>>
    BY <1>16 DEF LocEngStartFix
  <2>2. SessionInv'
    <3>1. CASE mNavigating
      <4>1. UNCHANGED <<session, fix>>
        BY <1>16, <3>1 DEF LocEngStartFix, fix
      <4>2. QED
        BY <1>4, <2>1, <4>1
    <3>2. CASE ~mNavigating
      <4>1. loc_eng_start_handler
        BY <1>16, <3>2 DEF LocEngStartFix
      <4>2. opened \/ modem # "up" \/ Has(queue, "up")
        BY <1>1, <1>2, <2>1, UpBehindOpen DEF OpenInv
      <4>3. QED
        BY <1>1, <1>2, <2>1, <3>2, <4>1, <4>2, StartAnswered DEF SessionInv
    <3>3. QED
      BY <3>1, <3>2
  <2>3. QED
    BY <1>1, <1>3, <2>1, <2>2 DEF WorkInv
<1>17. CASE LocEngStopFix
  <2>1. Handle("stop") /\ UNCHANGED <<opened, work>>
    BY <1>17 DEF LocEngStopFix
  <2>2. SessionInv'
    <3>1. CASE UNCHANGED <<session, fix>>
      BY <1>4, <2>1, <3>1
    <3>2. CASE loc_eng_stop_handler
      BY <3>2 DEF loc_eng_stop_handler, StopFix, EndSession, SessionInv
    <3>3. QED
      BY <1>17, <3>1, <3>2 DEF LocEngStopFix
  <2>3. QED
    BY <1>1, <1>3, <2>1, <2>2 DEF WorkInv
<1>18. CASE LocEngPositionMode
  <2>1. Handle("mode") /\ UNCHANGED <<opened, work, mNavigating, session, ended>>
    BY <1>18 DEF LocEngPositionMode
  <2>2. ~Holds(work, "restart")
    BY <1>2, <2>1 DEF Holds
  <2>3. SessionInv'
    BY <1>1, <1>2, <2>1, <2>2 DEF SessionInv
  <2>4. QED
    BY <1>1, <1>3, <2>1, <2>3 DEF WorkInv
<1>19. CASE ReportPosition
  <2>1. Handle("position") /\ UNCHANGED <<opened, work>>
    BY <1>19 DEF ReportPosition
  <2>2. SessionInv'
    <3>1. CASE UNCHANGED <<session, fix>>
      BY <1>4, <2>1, <3>1
    <3>2. CASE StopFix /\ EndSession("stop")
      BY <3>2 DEF StopFix, EndSession, SessionInv
    <3>3. CASE EndSession(IF mNavigating THEN "answer" ELSE ended) /\ UNCHANGED session
      BY <1>1, <3>3 DEF EndSession, SessionInv
    <3>4. QED
      BY <1>19, <3>1, <3>2, <3>3 DEF ReportPosition
  <2>3. QED
    BY <1>1, <1>3, <2>1, <2>2 DEF WorkInv
<1>20. QED
  BY <1>5, <1>7, <1>8, <1>9, <1>11, <1>12, <1>14, <1>15, <1>16, <1>17, <1>18, <1>19 DEF MsgTask

LEMMA Invariant == Spec => []IInv
<1>1. IInv /\ UNCHANGED vars => IInv'
  BY DEF vars, hal, busy, fix, IInv, NoAdapterInv, WorkInv, OpenInv, SessionInv
<1>2. IInv /\ [Next]_vars => IInv'
  BY <1>1, HalStep, ModemStep, MsgTaskStep DEF Next
<1>3. QED
  BY <1>2, InvInit, PTL DEF Spec

\* When all is handled and the modem is there, it looks for a fix if we have a session; and
\* if it does and we have none, it was not we who stopped it (SessionsAgree): whatever the
\* order in which the framework starts and stops and the modem goes down and comes back.
THEOREM SessionsAlwaysAgree == Spec => []SessionsAgree
<1>1. IInv => SessionsAgree
  BY DEF IInv, SessionInv, SessionsAgree, Quiet, Has, Holds
<1>2. QED
  BY <1>1, Invariant, PTL
-----------------------------------------------------------------------------
(* The configuration of the modem                                          *)

Servers    == {"SUPL", "C2K"}
Resendable == Settings \cup Fixed \cup {"ENABLE"}

OnItems(f, D) == \E S : f \in [D -> S]

\* Message m brings item i.
Sets(m, i) == m.kind = "set" /\ m.item = i

NoneOf(q, i) == \A k \in DOMAIN q : ~Sets(q[k], i)

\* The last message in q about item i brings v.
LastIs(q, i, v) ==
  \E j \in DOMAIN q : q[j] = Set(i, v) /\ \A k \in DOMAIN q : k > j => ~Sets(q[k], i)

\* Behind an init comes the HAL's message about the lock.
LockFollows(q) ==
  \A j \in DOMAIN q : q[j].kind = "init" => \E k \in DOMAIN q : j < k /\ Sets(q[k], "LOCK")

LEMMA NoMessage == \A i : NoneOf(<<>>, i) /\ LockFollows(<<>>)
BY DEF NoneOf, LockFollows

LEMMA OneMessage ==
  /\ \A x, v : /\ LastIs(<<Set(x, v)>>, x, v) /\ LockFollows(<<Set(x, v)>>)
               /\ \A i : i # x => NoneOf(<<Set(x, v)>>, i)
  /\ \A m, i : m.kind # "set" => NoneOf(<<m>>, i)
  /\ \A m : m.kind # "init" => LockFollows(<<m>>)
<1>1. \A m : DOMAIN <<m>> = {1} /\ <<m>>[1] = m
  OBVIOUS
<1>2. \A x, v : Set(x, v).kind = "set" /\ Set(x, v).item = x
  BY DEF Set
<1>3. QED
  BY <1>1, <1>2 DEF NoneOf, LastIs, LockFollows, Sets

\* All of q is in T.
Within(q, T) == \A j \in DOMAIN q : q[j] \in T

LEMMA PostedWithin ==
  ASSUME NEW q, NEW r, IsSeq(q), IsSeq(r), NEW T, Within(q, T), Within(r, T)
  PROVE  Within(q \o r, T)
<1>1. /\ Len(q) \in Nat /\ DOMAIN q = 1..Len(q) /\ Len(r) \in Nat /\ DOMAIN r = 1..Len(r)
      /\ DOMAIN (q \o r) = 1..(Len(q) + Len(r))
      /\ \A i \in DOMAIN q : (q \o r)[i] = q[i]
      /\ \A i \in DOMAIN r : (q \o r)[Len(q) + i] = r[i]
  BY ConcatSeq
<1>2. ASSUME NEW j \in DOMAIN (q \o r)
      PROVE  (q \o r)[j] \in T
  <2>1. CASE j <= Len(q)
    BY <1>1, <2>1 DEF Within
  <2>2. CASE ~(j <= Len(q))
    <3>1. j - Len(q) \in DOMAIN r /\ j = Len(q) + (j - Len(q))
      BY <1>1, <2>2
    <3>2. QED
      BY <1>1, <3>1 DEF Within
  <2>3. QED
    BY <2>1, <2>2
<1>3. QED
  BY <1>2 DEF Within

LEMMA PostedSets ==
  ASSUME NEW q, NEW r, IsSeq(q), IsSeq(r)
  PROVE  /\ \A i : NoneOf(q, i) /\ NoneOf(r, i) => NoneOf(q \o r, i)
         /\ \A i : NoneOf(q \o r, i) => NoneOf(q, i) /\ NoneOf(r, i)
         /\ \A i, v : LastIs(q, i, v) /\ NoneOf(r, i) => LastIs(q \o r, i, v)
         /\ \A i, v : LastIs(r, i, v) => LastIs(q \o r, i, v)
         /\ LockFollows(q) /\ LockFollows(r) => LockFollows(q \o r)
<1>1. /\ Len(q) \in Nat /\ DOMAIN q = 1..Len(q) /\ Len(r) \in Nat /\ DOMAIN r = 1..Len(r)
      /\ DOMAIN (q \o r) = 1..(Len(q) + Len(r))
      /\ \A i \in DOMAIN q : (q \o r)[i] = q[i]
      /\ \A i \in DOMAIN r : (q \o r)[Len(q) + i] = r[i]
  BY ConcatSeq
<1>2. /\ \A i \in DOMAIN q : i \in Nat /\ i <= Len(q) /\ i \in DOMAIN (q \o r)
      /\ \A i \in DOMAIN r : i \in Nat /\ Len(q) + i \in DOMAIN (q \o r) /\ Len(q) < Len(q) + i
  BY <1>1
<1>3. ASSUME NEW i \in DOMAIN (q \o r)
      PROVE  \/ i \in DOMAIN q /\ (q \o r)[i] = q[i]
             \/ \E k \in DOMAIN r : i = Len(q) + k /\ (q \o r)[i] = r[k]
  <2>1. CASE i <= Len(q)
    BY <1>1, <2>1
  <2>2. CASE ~(i <= Len(q))
    <3>1. i - Len(q) \in DOMAIN r /\ i = Len(q) + (i - Len(q))
      BY <1>1, <2>2
    <3>2. QED
      BY <1>1, <3>1
  <2>3. QED
    BY <2>1, <2>2
<1>4. \A i : NoneOf(q, i) /\ NoneOf(r, i) => NoneOf(q \o r, i)
  BY <1>3 DEF NoneOf
<1>5. \A i : NoneOf(q \o r, i) => NoneOf(q, i) /\ NoneOf(r, i)
  BY <1>1, <1>2 DEF NoneOf
<1>6. ASSUME NEW i, NEW v, LastIs(q, i, v), NoneOf(r, i)
      PROVE  LastIs(q \o r, i, v)
  <2>1. PICK j \in DOMAIN q :
          q[j] = Set(i, v) /\ \A k \in DOMAIN q : k > j => ~Sets(q[k], i)
    BY <1>6 DEF LastIs
  <2>2. \A k \in DOMAIN (q \o r) : k > j => ~Sets((q \o r)[k], i)
    BY <1>3, <1>6, <2>1 DEF NoneOf
  <2>3. QED
    BY <1>1, <1>2, <2>1, <2>2 DEF LastIs
<1>7. ASSUME NEW i, NEW v, LastIs(r, i, v)
      PROVE  LastIs(q \o r, i, v)
  <2>1. PICK j \in DOMAIN r :
          r[j] = Set(i, v) /\ \A k \in DOMAIN r : k > j => ~Sets(r[k], i)
    BY <1>7 DEF LastIs
  <2>2. Len(q) + j \in DOMAIN (q \o r) /\ (q \o r)[Len(q) + j] = Set(i, v)
    BY <1>1, <1>2, <2>1
  <2>3. ASSUME NEW k \in DOMAIN (q \o r), k > Len(q) + j
        PROVE  ~Sets((q \o r)[k], i)
    <3>1. k \notin DOMAIN q
      BY <1>1, <1>2, <2>3
    <3>2. PICK l \in DOMAIN r : k = Len(q) + l /\ (q \o r)[k] = r[l]
      BY <1>3, <3>1
    <3>3. l > j
      BY <1>1, <1>2, <2>3, <3>2
    <3>4. QED
      BY <2>1, <3>2, <3>3
  <2>4. QED
    BY <2>2, <2>3 DEF LastIs
<1>8. ASSUME LockFollows(q), LockFollows(r)
      PROVE  LockFollows(q \o r)
  <2> SUFFICES ASSUME NEW j \in DOMAIN (q \o r), (q \o r)[j].kind = "init"
               PROVE  \E k \in DOMAIN (q \o r) : j < k /\ Sets((q \o r)[k], "LOCK")
    BY DEF LockFollows
  <2>1. CASE j \in DOMAIN q /\ (q \o r)[j] = q[j]
    BY <1>1, <1>2, <1>8, <2>1 DEF LockFollows
  <2>2. ASSUME NEW l \in DOMAIN r, j = Len(q) + l, (q \o r)[j] = r[l]
        PROVE  \E k \in DOMAIN (q \o r) : j < k /\ Sets((q \o r)[k], "LOCK")
    <3>1. PICK k \in DOMAIN r : l < k /\ Sets(r[k], "LOCK")
      BY <1>8, <2>2 DEF LockFollows
    <3>2. Len(q) + l < Len(q) + k
      BY <1>1, <1>2, <3>1
    <3>3. QED
      BY <1>1, <1>2, <2>2, <3>1, <3>2
  <2>3. QED
    BY <1>3, <2>1, <2>2
<1>9. QED
  BY <1>4, <1>5, <1>6, <1>7, <1>8

LEMMA TwoAndOne ==
  ASSUME NEW q, NEW r, IsSeq(q), IsSeq(r)
  PROVE  Len(q) = 2 /\ Len(r) = 1 =>
           /\ IsSeq(q \o r) /\ DOMAIN (q \o r) = 1..3
           /\ (q \o r)[1] = q[1] /\ (q \o r)[2] = q[2] /\ (q \o r)[3] = r[1]
<1>1. /\ IsSeq(q \o r) /\ DOMAIN (q \o r) = 1..(Len(q) + Len(r))
      /\ DOMAIN q = 1..Len(q) /\ DOMAIN r = 1..Len(r)
      /\ \A i \in DOMAIN q : (q \o r)[i] = q[i]
      /\ \A i \in DOMAIN r : (q \o r)[Len(q) + i] = r[i]
  BY ConcatSeq
<1>2. QED
  BY <1>1

LEMMA TakenSets ==
  ASSUME NEW q, IsSeq(q), q # <<>>
  PROVE  /\ \A i : NoneOf(q, i) => NoneOf(Tail(q), i) /\ ~Sets(Head(q), i)
         /\ \A i, v : LastIs(q, i, v) =>
                        \/ LastIs(Tail(q), i, v)
                        \/ Head(q) = Set(i, v) /\ NoneOf(Tail(q), i)
         /\ LockFollows(q) => LockFollows(Tail(q))
         /\ LockFollows(q) /\ Head(q).kind = "init" => ~NoneOf(Tail(q), "LOCK")
         /\ \A x : Holds(Tail(q), x) => Holds(q, x)
         /\ Holds(q, Head(q))
         /\ \A T : Within(q, T) => Head(q) \in T /\ Within(Tail(q), T)
<1>1. PICK S : q \in Seq(S)
  BY DEF IsSeq
<1>2. /\ Tail(q) \in Seq(S) /\ Len(Tail(q)) = Len(q) - 1
      /\ Len(q) \in Nat \ {0} /\ DOMAIN q = 1..Len(q) /\ DOMAIN Tail(q) = 1..Len(Tail(q))
      /\ \A i \in 1..Len(Tail(q)) : Tail(q)[i] = q[i + 1]
      /\ Head(q) = q[1]
  BY <1>1, HeadTailProperties, LenProperties, EmptySeq
<1>3. ASSUME NEW i \in DOMAIN q, i # 1
      PROVE  i - 1 \in DOMAIN Tail(q) /\ Tail(q)[i - 1] = q[i]
  <2>1. i - 1 \in 1..Len(Tail(q)) /\ (i - 1) + 1 = i
    BY <1>2, <1>3
  <2>2. QED
    BY <1>2, <2>1
<1>4. /\ 1 \in DOMAIN q /\ \A i \in DOMAIN q : i \in Nat /\ i >= 1
      /\ \A i \in DOMAIN Tail(q) :
           i \in Nat /\ i + 1 \in DOMAIN q /\ i + 1 # 1 /\ Tail(q)[i] = q[i + 1]
  BY <1>2
<1>5. \A i : NoneOf(q, i) => NoneOf(Tail(q), i) /\ ~Sets(Head(q), i)
  BY <1>2, <1>4 DEF NoneOf
<1>6. ASSUME NEW i, NEW v, LastIs(q, i, v)
      PROVE  LastIs(Tail(q), i, v) \/ (Head(q) = Set(i, v) /\ NoneOf(Tail(q), i))
  <2>1. PICK j \in DOMAIN q :
          q[j] = Set(i, v) /\ \A k \in DOMAIN q : k > j => ~Sets(q[k], i)
    BY <1>6 DEF LastIs
  <2>2. CASE j = 1
    <3>1. \A k \in DOMAIN Tail(q) : k + 1 > j
      BY <1>4, <2>2
    <3>2. QED
      BY <1>2, <1>4, <2>1, <2>2, <3>1 DEF NoneOf
  <2>3. CASE j # 1
    <3>1. j - 1 \in DOMAIN Tail(q) /\ Tail(q)[j - 1] = Set(i, v)
      BY <1>3, <2>1, <2>3
    <3>2. \A k \in DOMAIN Tail(q) : k > j - 1 => k + 1 > j
      BY <1>4
    <3>3. QED
      BY <1>4, <2>1, <3>1, <3>2 DEF LastIs
  <2>4. QED
    BY <2>2, <2>3
<1>7. ASSUME LockFollows(q)
      PROVE  LockFollows(Tail(q))
  <2> SUFFICES ASSUME NEW j \in DOMAIN Tail(q), Tail(q)[j].kind = "init"
               PROVE  \E k \in DOMAIN Tail(q) : j < k /\ Sets(Tail(q)[k], "LOCK")
    BY DEF LockFollows
  <2>1. PICK k \in DOMAIN q : j + 1 < k /\ Sets(q[k], "LOCK")
    BY <1>4, <1>7 DEF LockFollows
  <2>2. k # 1 /\ j < k - 1
    BY <1>4, <2>1
  <2>3. QED
    BY <1>3, <2>1, <2>2
<1>8. ASSUME LockFollows(q), Head(q).kind = "init"
      PROVE  ~NoneOf(Tail(q), "LOCK")
  <2>1. PICK k \in DOMAIN q : 1 < k /\ Sets(q[k], "LOCK")
    BY <1>2, <1>4, <1>8 DEF LockFollows
  <2>2. k # 1
    BY <1>4, <2>1
  <2>3. QED
    BY <1>3, <2>1, <2>2 DEF NoneOf
<1>9. Holds(q, Head(q)) /\ \A x : Holds(Tail(q), x) => Holds(q, x)
  BY <1>2, <1>4 DEF Holds
<1>10. \A T : Within(q, T) => Head(q) \in T /\ Within(Tail(q), T)
  BY <1>2, <1>4 DEF Within
<1>11. QED
  BY <1>5, <1>6, <1>7, <1>8, <1>9, <1>10
-----------------------------------------------------------------------------
(* ... and its invariant: what an item has to do with queue, handler and   *)
(* modem when nothing excuses it                                           *)

FcnInv ==
  OnItems(data, AllItems \cup {"GPS_LOCK"}) /\ OnItems(asked, AllItems) /\ OnItems(set, AllItems)

\* What handlers work on, and the message that one has made.
ItemsInv ==
  /\ Within(work, Resendable \cup Servers \cup {"LOCK", "restart"})
  /\ held # NoMsg => /\ Head(work) \in Resendable \cup Servers
                     /\ \E v : held = Set(Head(work), v)
  /\ modem = "down" => ~opened

\* Before loc_eng_agps_init nobody sends a server; what the HAL holds is what was asked for.
ServersInv ==
  /\ agps => adapter
  /\ ~agps => Servers \subseteq excused /\ \A i \in Servers : ~Holds(work, i)
  /\ \A i \in Servers : data[i] \in {NoHost, asked[i]}

\* The lock that LocEngInit sets is set again by the HAL's message behind it.
LockInv ==
  /\ LockFollows(queue)
  /\ Holds(work, "LOCK") => ~NoneOf(queue, "LOCK")

\* Item i will be sent again, by loc_eng_reinit or loc_eng_agps_reinit.
Resent(i) ==
  \/ modem # "up"
  \/ Has(queue, "up")
  \/ Holds(work, i)
  \/ i \in Resendable /\ (~adapter \/ Has(queue, "init"))

\* The modem holds what was asked for, or will be told.
Settled(i) == (opened /\ set[i] = asked[i]) \/ (i \notin Once /\ Resent(i))

\* The newest word about item i, wherever it is, is what was asked for.
Right(i) ==
  IF held # NoMsg /\ held.item = i
  THEN held.value = asked[i]
  ELSE LastIs(queue, i, asked[i]) \/ (NoneOf(queue, i) /\ Settled(i))

ConfigInv ==
  /\ FcnInv
  /\ ItemsInv
  /\ ServersInv
  /\ LockInv
  /\ \A i \in Items \ excused : Right(i)

LEMMA ItemKinds ==
  /\ AllItems = Resendable \cup Servers \cup Once
  /\ Once \cap (Resendable \cup Servers) = {} /\ Resendable \cap Servers = {}
  /\ "LOCK" \notin Resendable \cup Servers /\ "restart" \notin AllItems
  /\ "MASK" \notin Resendable \cup Servers
BY DEF AllItems, Resendable, Servers, Once, Settings, Fixed

LEMMA HeldIsSet ==
  ASSUME ItemsInv, held # NoMsg
  PROVE  "item" \in DOMAIN held /\ held.item = Head(work) /\ held.kind = "set"
BY DEF ItemsInv, Set

LEMMA DataChanged ==
  ASSUME FcnInv, NEW x, NEW v, data' = [data EXCEPT ![x] = v]
  PROVE  /\ OnItems(data', AllItems \cup {"GPS_LOCK"})
         /\ \A i \in AllItems : data'[i] = IF i = x THEN v ELSE data[i]
<1>1. PICK S : data \in [AllItems \cup {"GPS_LOCK"} -> S]
  BY DEF FcnInv, OnItems
<1>2. data' \in [AllItems \cup {"GPS_LOCK"} -> S \cup {v}]
  BY <1>1
<1>3. QED
  BY <1>1, <1>2 DEF OnItems

LEMMA SetChanged ==
  ASSUME FcnInv, NEW x, NEW v, set' = [set EXCEPT ![x] = v]
  PROVE  /\ OnItems(set', AllItems)
         /\ \A i \in AllItems : set'[i] = IF i = x THEN v ELSE set[i]
<1>1. PICK S : set \in [AllItems -> S]
  BY DEF FcnInv, OnItems
<1>2. set' \in [AllItems -> S \cup {v}]
  BY <1>1
<1>3. QED
  BY <1>1, <1>2 DEF OnItems

LEMMA ConfigInit == Init => ConfigInv
<1> SUFFICES ASSUME Init
             PROVE  ConfigInv
  OBVIOUS
<1>1. FcnInv
  <2>1. /\ data \in [AllItems \cup {"GPS_LOCK"} -> {NoHost, 1}] /\ set \in [AllItems -> {Unset}]
        /\ asked \in [AllItems -> {Unset, 1}]
    BY DEF Init
  <2>2. QED
    BY <2>1 DEF FcnInv, OnItems
<1>2. work = <<>> /\ held = NoMsg /\ queue = <<>> /\ modem = "up" /\ ~adapter /\ ~agps
  BY DEF Init
<1>3. \A x : ~Holds(work, x)
  BY <1>2 DEF Holds
<1>4. ItemsInv
  BY <1>2 DEF ItemsInv, Within
<1>5. ServersInv
  <2>1. Servers \subseteq excused /\ \A i \in Servers : data[i] = NoHost
    BY DEF Init, Servers, AllItems
  <2>2. QED
    BY <1>2, <1>3, <2>1 DEF ServersInv
<1>6. LockInv
  BY <1>2, <1>3, NoMessage DEF LockInv
<1>7. ASSUME NEW i \in Items \ excused
      PROVE  Right(i)
  <2>1. i \in Resendable /\ i \notin Once
    BY EngineAssumption, ItemKinds DEF Init, Servers
  <2>2. QED
    BY <1>2, <2>1, NoMessage DEF Right, Settled, Resent
<1>8. QED
  BY <1>1, <1>4, <1>5, <1>6, <1>7 DEF ConfigInv

\* A call or a report that adds to the queue keeps the invariant if it says, of every item
\* that nothing excuses, either nothing or what was asked for.
LEMMA CallKeeps ==
  ASSUME IInv, ConfigInv, Elsewhere, FcnInv', ServersInv',
         NEW msgs, IsSeq(msgs), queue' = queue \o msgs, LockFollows(msgs),
         adapter' = adapter \/ (adapter' /\ Has(msgs, "init")),
         \A i \in Items \ excused' :
           \/ i \notin excused /\ asked'[i] = asked[i] /\ NoneOf(msgs, i)
           \/ LastIs(msgs, i, asked'[i]) /\ ~(held # NoMsg /\ held.item = i)
  PROVE  ConfigInv'
<1>1. UNCHANGED <<work, held, modem, opened, set>>
  BY DEF Elsewhere, busy
<1>2. IsSeq(queue)
  BY DEF IInv, WorkInv
<1>3. ItemsInv'
  BY <1>1 DEF ConfigInv, ItemsInv
<1>4. LockInv'
  BY <1>1, <1>2, PostedSets DEF ConfigInv, LockInv
<1>5. ASSUME NEW i \in Items \ excused'
      PROVE  Right(i)'
  <2>1. CASE LastIs(msgs, i, asked'[i]) /\ ~(held # NoMsg /\ held.item = i)
    BY <1>1, <1>2, <2>1, PostedSets DEF Right
  <2>2. CASE i \notin excused /\ asked'[i] = asked[i] /\ NoneOf(msgs, i)
    <3>1. Right(i)
      BY <1>5, <2>2 DEF ConfigInv
    <3>2. Settled(i) => Settled(i)'
      BY <1>1, <1>2, <2>2, Posted DEF Settled, Resent
    <3>3. QED
      BY <1>1, <1>2, <2>2, <3>1, <3>2, PostedSets DEF Right
  <2>3. QED
    BY <1>5, <2>1, <2>2
<1>6. QED
  BY <1>3, <1>4, <1>5 DEF ConfigInv

\* Messages about no item but x, and no init.
AboutOnly(msgs, x) == IsSeq(msgs) /\ LockFollows(msgs) /\ \A i : i # x => NoneOf(msgs, i)

\* x is asked for, and the messages say so; or it is asked for in vain.
AskedBy(msgs, x, v) ==
  \/ Ask(x, v) /\ (x \in Servers => agps) /\ LastIs(msgs, x, v)
  \/ AskInVain(x, v)

\* Of the servers the HAL changes none but x.
KeptFor(x, v) ==
  /\ OnItems(data', AllItems \cup {"GPS_LOCK"})
  /\ \A i \in Servers : data'[i] = IF i = x THEN v ELSE data[i]

LEMMA AskKeeps ==
  ASSUME IInv, ConfigInv, Elsewhere, UNCHANGED <<adapter, agps>>,
         NEW x \in AllItems, NEW v, NEW msgs, AboutOnly(msgs, x), queue' = queue \o msgs,
         AskedBy(msgs, x, v), KeptFor(x, v)
  PROVE  ConfigInv'
<1> USE DEF AboutOnly, AskedBy, KeptFor
<1>1. /\ asked' = [asked EXCEPT ![x] = v]
      /\ x \notin excused' => /\ LastIs(msgs, x, v) /\ Ask(x, v)
                              /\ ~("item" \in DOMAIN held /\ held.item = x)
      /\ \A i : i # x => (i \in excused' <=> i \in excused)
      /\ ~agps /\ x \in Servers => x \in excused'
  BY DEF Ask, AskInVain
<1>2. OnItems(asked, AllItems) /\ OnItems(set, AllItems) /\ UNCHANGED <<work, held, set>>
  BY DEF ConfigInv, FcnInv, Elsewhere, busy
<1>3. /\ OnItems(asked', AllItems) /\ asked'[x] = v
      /\ \A i \in AllItems : i # x => asked'[i] = asked[i]
  <2>1. PICK S : asked \in [AllItems -> S]
    BY <1>2 DEF OnItems
  <2>2. asked' \in [AllItems -> S \cup {v}]
    BY <1>1, <2>1
  <2>3. QED
    BY <1>1, <2>1, <2>2 DEF OnItems
<1>4. FcnInv'
  BY <1>2, <1>3 DEF FcnInv
<1>5. ServersInv'
  <2>1. Servers \subseteq AllItems
    BY ItemKinds
  <2>2. \A i \in Servers : data'[i] \in {NoHost, asked'[i]}
    BY <1>3, <2>1 DEF ConfigInv, ServersInv
  <2>3. ~agps => Servers \subseteq excused'
    BY <1>1 DEF ConfigInv, ServersInv
  <2>4. QED
    BY <1>2, <2>2, <2>3 DEF ConfigInv, ServersInv
<1>6. ASSUME NEW i \in Items \ excused'
      PROVE  \/ i \notin excused /\ asked'[i] = asked[i] /\ NoneOf(msgs, i)
             \/ LastIs(msgs, i, asked'[i]) /\ ~(held # NoMsg /\ held.item = i)
  <2>1. CASE i = x
    BY <1>1, <1>3, <1>6, <2>1, HeldIsSet DEF ConfigInv
  <2>2. CASE i # x
    BY <1>1, <1>3, <1>6, <2>2, EngineAssumption
  <2>3. QED
    BY <2>1, <2>2
<1>7. QED
  BY <1>4, <1>5, <1>6, CallKeeps
LEMMA HalConfig == IInv /\ ConfigInv /\ Hal => ConfigInv'
<1> SUFFICES ASSUME IInv, ConfigInv, Hal
             PROVE  ConfigInv'
  OBVIOUS
<1>1. /\ FcnInv /\ ItemsInv /\ ServersInv /\ LockInv
      /\ client => adapter
      /\ ~adapter => queue = <<>> /\ work = <<>> /\ held = NoMsg /\ ~opened
      /\ IsSeq(queue) /\ IsSeq(work)
  BY DEF ConfigInv, IInv, NoAdapterInv, WorkInv
<1>2. /\ \A x : IsSeq(<<x>>) /\ IsSeq(<<>>)
      /\ \A q, r : IsSeq(q) /\ IsSeq(r) => IsSeq(q \o r)
  BY SomeSeqs, Posted
<1>3. OnItems(data, AllItems \cup {"GPS_LOCK"})
  BY <1>1 DEF FcnInv
<1>4. queue = queue \o <<>>
  BY <1>1, ConcatEmptySeq DEF IsSeq
\* A call that asks for nothing.
<1>5. ASSUME NEW msgs, IsSeq(msgs), queue' = queue \o msgs, LockFollows(msgs),
             \A i : NoneOf(msgs, i), UNCHANGED <<adapter, agps, data, asked, excused>>, Elsewhere
      PROVE  ConfigInv'
  <2>1. FcnInv' /\ ServersInv'
    BY <1>1, <1>5 DEF FcnInv, ServersInv, Elsewhere, busy
  <2>2. \A i \in Items \ excused' :
          i \notin excused /\ asked'[i] = asked[i] /\ NoneOf(msgs, i)
    BY <1>5
  <2>3. QED
    BY <1>5, <2>1, <2>2, CallKeeps
\* A call that asks for v, of an item that is no server.
<1>6. ASSUME NEW x \in AllItems \ Servers, NEW v, NEW rest, IsSeq(rest), LockFollows(rest),
             \A i : NoneOf(rest, i), queue' = queue \o (<<Set(x, v)>> \o rest),
             Ask(x, v), UNCHANGED <<adapter, agps>>, Elsewhere,
             data' = data \/ \E y \in AllItems \ Servers : \E w : data' = [data EXCEPT ![y] = w]
      PROVE  ConfigInv'
  <2> DEFINE msgs == <<Set(x, v)>> \o rest
  <2>1. AboutOnly(msgs, x) /\ AskedBy(msgs, x, v)
    BY <1>2, <1>6, OneMessage, PostedSets DEF AboutOnly, AskedBy
  <2>2. KeptFor(x, v)
    <3>1. Servers \subseteq AllItems
      BY ItemKinds
    <3>2. CASE data' = data
      BY <1>3, <1>6, <3>2 DEF KeptFor
    <3>3. ASSUME NEW y \in AllItems \ Servers, NEW w, data' = [data EXCEPT ![y] = w]
          PROVE  /\ OnItems(data', AllItems \cup {"GPS_LOCK"})
                 /\ \A i \in AllItems : data'[i] = IF i = y THEN w ELSE data[i]
      BY <1>1, <3>3, DataChanged
    <3>4. QED
      BY <1>6, <3>1, <3>2, <3>3 DEF KeptFor
  <2>3. QED
    BY <1>6, <2>1, <2>2, AskKeeps
<1>7. ASSUME NEW x \in AllItems \ Servers, NEW v, queue' = queue \o <<Set(x, v)>>,
             Ask(x, v), UNCHANGED <<adapter, agps>>, Elsewhere,
             data' = data \/ \E y \in AllItems \ Servers : \E w : data' = [data EXCEPT ![y] = w]
      PROVE  ConfigInv'
  <2>1. <<Set(x, v)>> = <<Set(x, v)>> \o <<>>
    OBVIOUS
  <2>2. queue' = queue \o (<<Set(x, v)>> \o <<>>)
    BY <1>7, <2>1
  <2>3. QED
    BY <1>2, <1>6, <1>7, <2>2, NoMessage
\* A call that asks for v in vain.
<1>8. ASSUME NEW x \in AllItems, NEW v, AskInVain(x, v), UNCHANGED <<adapter, agps>>, Elsewhere,
             UNCHANGED queue \/ queue' = queue \o <<Set(x, v)>>, KeptFor(x, v)
      PROVE  ConfigInv'
  <2>1. CASE UNCHANGED queue
    <3>1. queue' = queue \o <<>> /\ AboutOnly(<<>>, x) /\ AskedBy(<<>>, x, v)
      BY <1>2, <1>4, <1>8, <2>1, NoMessage DEF AboutOnly, AskedBy
    <3>2. QED
      BY <1>8, <3>1, AskKeeps
  <2>2. CASE queue' = queue \o <<Set(x, v)>>
    <3>1. AboutOnly(<<Set(x, v)>>, x) /\ AskedBy(<<Set(x, v)>>, x, v)
      BY <1>2, <1>8, OneMessage DEF AboutOnly, AskedBy
    <3>2. QED
      BY <1>8, <2>2, <3>1, AskKeeps
  <2>3. QED
    BY <1>8, <2>1, <2>2
<1>9. {"LOCK", "MASK", "TIME", "POSITION", "XTRA_DATA", "CERTS", "ENABLE"} \cup Settings
        \subseteq AllItems \ Servers
  BY DEF AllItems, Servers, Once, Settings, Fixed
<1>10. CASE loc_init
  <2> DEFINE lock == LocEngAdapterGpsLock(0)
             first == <<[kind |-> "open"], [kind |-> "init"]>>
  <2>1. lock = Set("LOCK", 0) /\ Ask("LOCK", 0) /\ UNCHANGED agps /\ adapter' /\ Elsewhere
    BY <1>10 DEF loc_init, loc_eng_init, LocEngAdapterGpsLock
  <2>2. CASE adapter
    <3>1. queue' = queue \o (<<>> \o <<lock>>) /\ data' = data
      BY <1>10, <2>2 DEF loc_init, loc_eng_init, Post
    <3>2. queue' = queue \o <<Set("LOCK", 0)>>
      BY <2>1, <3>1
    <3>3. QED
      BY <1>7, <1>9, <2>1, <2>2, <3>2, <3>1
  <2>3. CASE ~adapter
    <3> DEFINE msgs == first \o <<Set("LOCK", 0)>>
               fresh == [data EXCEPT !["SUPL"] = NoHost]
    <3>1. queue' = queue \o msgs /\ data' = [fresh EXCEPT !["C2K"] = NoHost]
      BY <1>10, <2>1, <2>3 DEF loc_init, loc_eng_init, Post
    <3>2. /\ first \in Seq({[kind |-> "open"], [kind |-> "init"]}) /\ Len(first) = 2
          /\ first[1].kind = "open" /\ first[2].kind = "init"
      OBVIOUS
    <3>3. /\ IsSeq(msgs) /\ DOMAIN msgs = 1..3 /\ msgs[1].kind = "open" /\ msgs[2].kind = "init"
          /\ msgs[3] = Set("LOCK", 0)
          /\ ~(\E i : Sets(msgs[1], i)) /\ ~(\E i : Sets(msgs[2], i))
          /\ \A i : Sets(msgs[3], i) <=> i = "LOCK"
          /\ msgs[3].kind = "set"
      <4>1. /\ IsSeq(first) /\ IsSeq(<<Set("LOCK", 0)>>) /\ Len(<<Set("LOCK", 0)>>) = 1
            /\ <<Set("LOCK", 0)>>[1] = Set("LOCK", 0)
        BY <1>2, <3>2 DEF IsSeq
      <4>2. /\ IsSeq(msgs) /\ DOMAIN msgs = 1..3 /\ msgs[1] = first[1] /\ msgs[2] = first[2]
            /\ msgs[3] = Set("LOCK", 0)
        BY <3>2, <4>1, TwoAndOne
      <4> HIDE DEF msgs
      <4>3. QED
        BY <3>2, <4>2 DEF Set, Sets
    <3> HIDE DEF msgs
    <3>4. LockFollows(msgs) /\ Has(msgs, "init") /\ LastIs(msgs, "LOCK", 0)
          /\ \A i : i # "LOCK" => NoneOf(msgs, i)
      BY <3>3 DEF LockFollows, Has, LastIs, NoneOf
    <3>5. /\ asked' = [asked EXCEPT !["LOCK"] = 0] /\ OnItems(asked, AllItems)
          /\ \A i : i # "LOCK" => (i \in excused' <=> i \in excused)
      BY <1>1, <2>1 DEF Ask, FcnInv
    <3>6. /\ OnItems(asked', AllItems) /\ asked'["LOCK"] = 0
          /\ \A i \in AllItems : i # "LOCK" => asked'[i] = asked[i]
      <4>1. PICK S : asked \in [AllItems -> S]
        BY <3>5 DEF OnItems
      <4>2. asked' \in [AllItems -> S \cup {0}]
        BY <3>5, <4>1
      <4>3. QED
        BY <1>9, <3>5, <4>1, <4>2 DEF OnItems
    <3>7. /\ OnItems(data', AllItems \cup {"GPS_LOCK"})
          /\ \A i \in Servers : data'[i] = NoHost
      <4>1. PICK S : data \in [AllItems \cup {"GPS_LOCK"} -> S]
        BY <1>3 DEF OnItems
      <4>2. /\ fresh \in [AllItems \cup {"GPS_LOCK"} -> S \cup {NoHost}]
            /\ data' \in [AllItems \cup {"GPS_LOCK"} -> S \cup {NoHost}]
        BY <3>1, <4>1
      <4>3. "SUPL" \in AllItems /\ "C2K" \in AllItems
        BY DEF AllItems
      <4>4. QED
        BY <3>1, <4>1, <4>2, <4>3 DEF OnItems, Servers
    <3>8. FcnInv'
      BY <1>1, <2>1, <3>6, <3>7 DEF FcnInv, Elsewhere
    <3>9. ServersInv'
      <4>1. "LOCK" \notin Servers
        BY DEF Servers
      <4>2. UNCHANGED work
        BY <2>1 DEF Elsewhere, busy
      <4>3. QED
        BY <1>1, <2>1, <2>3, <3>5, <3>7, <4>1, <4>2 DEF ServersInv
    <3>10. ASSUME NEW i \in Items \ excused'
           PROVE  \/ i \notin excused /\ asked'[i] = asked[i] /\ NoneOf(msgs, i)
                  \/ LastIs(msgs, i, asked'[i]) /\ ~(held # NoMsg /\ held.item = i)
      BY <1>1, <2>3, <3>4, <3>5, <3>6, EngineAssumption
    <3>11. QED
      BY <2>1, <3>1, <3>3, <3>4, <3>8, <3>9, <3>10, CallKeeps
  <2>4. QED
    BY <2>2, <2>3
<1>11. CASE loc_cleanup
  <2> DEFINE v == data["GPS_LOCK"]
  <2>1. /\ queue' = queue \o (<<LocEngAdapterGpsLock(v)>> \o loc_eng_cleanup)
        /\ Ask("LOCK", v) /\ UNCHANGED <<adapter, agps, data>> /\ Elsewhere
    BY <1>11 DEF loc_cleanup, Post
  <2>2. /\ IsSeq(loc_eng_cleanup) /\ LockFollows(loc_eng_cleanup)
        /\ \A i : NoneOf(loc_eng_cleanup, i)
    BY <1>2, NoMessage, OneMessage DEF loc_eng_cleanup, loc_eng_stop
  <2>3. QED
    BY <1>6, <1>9, <2>1, <2>2 DEF LocEngAdapterGpsLock
<1>12. ASSUME NEW name, NEW msg, Posts(name, msg), msg.kind \notin {"set", "init"}
       PROVE  ConfigInv'
  <2>1. queue' = queue \o <<msg>> /\ UNCHANGED <<adapter, agps, data, asked, excused>> /\ Elsewhere
    BY <1>12 DEF Posts, Post, hal
  <2>2. QED
    BY <1>2, <1>5, <1>12, <2>1, OneMessage
<1>13. CASE loc_start \/ loc_stop \/ loc_set_position_mode \/ loc_delete_aiding_data
  BY <1>12, <1>13 DEF loc_start, loc_stop, loc_set_position_mode, loc_delete_aiding_data
<1>14. ASSUME NEW name, NEW x \in AllItems \ Servers, NEW msg, Injects(name, x, msg),
              \A v \in Values : msg[v] = Set(x, v)
       PROVE  ConfigInv'
  <2>1. PICK v \in Values : queue' = queue \o <<msg[v]>> /\ Ask(x, v)
    BY <1>14 DEF Injects, Post
  <2>2. UNCHANGED <<adapter, agps, data>> /\ Elsewhere
    BY <1>14 DEF Injects, hal
  <2>3. QED
    BY <1>7, <1>14, <2>1, <2>2
<1>15. CASE loc_inject_time \/ loc_inject_location \/ loc_xtra_inject_data
              \/ loc_agps_install_certificates
  BY <1>9, <1>14, <1>15 DEF loc_inject_time, loc_inject_location, loc_xtra_inject_data,
     loc_agps_install_certificates, LocEngSetTime, LocEngInjectLocation, LocEngInjectXtraData,
     LocEngInstallAGpsCert
<1>16. ASSUME NEW on, measurement(on)
       PROVE  ConfigInv'
  <2>1. /\ queue' = queue \o <<Set("MASK", data'["MASK"])>> /\ Ask("MASK", data'["MASK"])
        /\ UNCHANGED <<adapter, agps>> /\ Elsewhere
        /\ data' = [data EXCEPT !["MASK"] = IF on THEN 2 ELSE 1]
    BY <1>16 DEF measurement, Post, LocEngUpdateRegistrationMask
  <2>2. QED
    BY <1>7, <1>9, <2>1
<1>17. CASE loc_agps_ril_update_network_availability
  <2>1. PICK v \in Values :
          /\ data' = [data EXCEPT !["ENABLE"] = v] /\ UNCHANGED <<adapter, agps>> /\ Elsewhere
          /\ \/ Post(<<LocEngEnableData(v)>>) /\ Ask("ENABLE", v)
             \/ UNCHANGED queue /\ AskInVain("ENABLE", v)
    BY <1>17 DEF loc_agps_ril_update_network_availability
  <2>2. CASE Post(<<LocEngEnableData(v)>>) /\ Ask("ENABLE", v)
    BY <1>7, <1>9, <2>1, <2>2 DEF Post, LocEngEnableData
  <2>3. CASE UNCHANGED queue /\ AskInVain("ENABLE", v)
    <3>1. KeptFor("ENABLE", v)
      <4>1. /\ OnItems(data', AllItems \cup {"GPS_LOCK"})
            /\ \A i \in AllItems : data'[i] = IF i = "ENABLE" THEN v ELSE data[i]
        BY <1>1, <2>1, DataChanged
      <4>2. QED
        BY <4>1, ItemKinds DEF KeptFor
    <3>2. QED
      BY <1>8, <1>9, <2>1, <2>3, <3>1
  <2>4. QED
    BY <2>1, <2>2, <2>3
<1>18. CASE loc_configuration_update
  <2>1. PICK s \in (Settings \cap Items) \cup {"GPS_LOCK"}, v \in Values :
          /\ data' = [data EXCEPT ![s] = v] /\ UNCHANGED <<adapter, agps>> /\ Elsewhere
          /\ \/ s \in Settings /\ queue' = Append(queue, Set(s, v)) /\ Ask(s, v)
             \/ s \in Settings /\ UNCHANGED queue /\ AskInVain(s, v)
             \/ UNCHANGED <<queue, asked, excused>>
    BY <1>18 DEF loc_configuration_update
  <2>2. /\ OnItems(data', AllItems \cup {"GPS_LOCK"})
        /\ \A i \in Servers : data'[i] = data[i]
    <3>1. Servers \subseteq AllItems /\ s \notin Servers
      BY <1>9, ItemKinds DEF Servers
    <3>2. /\ OnItems(data', AllItems \cup {"GPS_LOCK"})
          /\ \A i \in AllItems : data'[i] = IF i = s THEN v ELSE data[i]
      BY <1>1, <2>1, DataChanged
    <3>3. QED
      BY <3>1, <3>2
  <2>3. CASE s \in Settings /\ queue' = Append(queue, Set(s, v)) /\ Ask(s, v)
    <3>1. Append(queue, Set(s, v)) = queue \o <<Set(s, v)>>
      BY <1>1, AppendSeq
    <3>2. QED
      BY <1>7, <1>9, <2>1, <2>3, <3>1
  <2>4. CASE s \in Settings /\ UNCHANGED queue /\ AskInVain(s, v)
    <3>1. s \in AllItems /\ s \notin Servers /\ KeptFor(s, v)
      BY <1>9, <2>2, <2>4 DEF KeptFor
    <3>2. QED
      BY <1>8, <2>1, <2>4, <3>1
  <2>5. CASE UNCHANGED <<queue, asked, excused>>
    <3>1. FcnInv' /\ ServersInv'
      BY <1>1, <2>1, <2>2, <2>5 DEF FcnInv, ServersInv, Elsewhere, busy
    <3>2. queue' = queue \o <<>>
      BY <1>4, <2>5
    <3>3. \A i \in Items \ excused' :
            i \notin excused /\ asked'[i] = asked[i] /\ NoneOf(<<>>, i)
      BY <2>5, NoMessage
    <3>4. QED
      BY <1>2, <2>1, <3>1, <3>2, <3>3, NoMessage, CallKeeps
  <2>6. QED
    BY <2>1, <2>3, <2>4, <2>5
<1>19. CASE loc_agps_set_server
  <2>1. PICK i \in {"SUPL", "C2K"} \cap Items, v \in Values :
          /\ data' = [data EXCEPT ![i] = v] /\ UNCHANGED <<adapter, agps>> /\ Elsewhere
          /\ Post(loc_eng_set_server(i, v)) \/ UNCHANGED queue
          /\ \/ Post(loc_eng_set_server(i, v)) /\ agps /\ Ask(i, v)
             \/ AskInVain(i, v)
    BY <1>19 DEF loc_agps_set_server
  <2>2. i \in AllItems /\ KeptFor(i, v)
    <3>1. i \in AllItems /\ Servers \subseteq AllItems
      BY ItemKinds DEF Servers
    <3>2. /\ OnItems(data', AllItems \cup {"GPS_LOCK"})
          /\ \A j \in AllItems : data'[j] = IF j = i THEN v ELSE data[j]
      BY <1>1, <2>1, DataChanged
    <3>3. QED
      BY <3>1, <3>2 DEF KeptFor
  <2>3. loc_eng_set_server(i, v) = IF adapter THEN <<Set(i, v)>> ELSE <<>>
    BY DEF loc_eng_set_server, LocEngSetServerUrl, LocEngSetServerIpv4
  <2>4. CASE Post(loc_eng_set_server(i, v)) /\ agps /\ Ask(i, v)
    <3>1. queue' = queue \o <<Set(i, v)>>
      BY <1>1, <2>3, <2>4 DEF ServersInv, Post
    <3>2. QED
      <4>1. AboutOnly(<<Set(i, v)>>, i) /\ AskedBy(<<Set(i, v)>>, i, v)
        BY <1>2, <2>4, OneMessage DEF AboutOnly, AskedBy
      <4>2. QED
        BY <2>1, <2>2, <3>1, <4>1, AskKeeps
  <2>5. CASE AskInVain(i, v)
    <3>1. UNCHANGED queue \/ queue' = queue \o <<Set(i, v)>>
      BY <1>4, <2>1, <2>3 DEF Post
    <3>2. QED
      BY <1>8, <2>1, <2>2, <2>5, <3>1
  <2>6. QED
    BY <2>1, <2>4, <2>5
\* The servers that are set are sent; nobody else sends them before.
<1>20. CASE loc_agps_init
  <2>1. PICK there \in SUBSET (Servers \cap Items) :
          /\ \A i \in there : data[i] # NoHost
          /\ Post((IF "SUPL" \in there THEN <<Made("SUPL")>> ELSE <<>>)
                    \o (IF "C2K" \in there THEN <<Made("C2K")>> ELSE <<>>))
          /\ excused' = excused \ there
    BY <1>20 DEF loc_agps_init, Servers
  <2>2. ~agps /\ agps' /\ adapter /\ UNCHANGED <<adapter, data, asked>> /\ Elsewhere
    BY <1>1, <1>20 DEF loc_agps_init
  <2> DEFINE Sent(i) == IF i \in there THEN <<Set(i, data[i])>> ELSE <<>>
             msgs == Sent("SUPL") \o Sent("C2K")
  <2>3. queue' = queue \o msgs
    <3>1. Made("SUPL") = Set("SUPL", data["SUPL"]) /\ Made("C2K") = Set("C2K", data["C2K"])
      BY Zenon DEF Made, LocEngSetServerUrl, LocEngSetServerIpv4
    <3>2. QED
      BY <2>1, <3>1 DEF Post
  <2>4. ASSUME NEW x
        PROVE  /\ IsSeq(Sent(x)) /\ LockFollows(Sent(x))
               /\ \A i : i \notin there \/ i # x => NoneOf(Sent(x), i)
               /\ x \in there => LastIs(Sent(x), x, data[x])
    <3>1. CASE x \in there
      <4>1. Sent(x) = <<Set(x, data[x])>>
        BY <3>1
      <4>2. QED
        BY <1>2, <3>1, <4>1, OneMessage
    <3>2. CASE x \notin there
      BY <1>2, <3>2, NoMessage
    <3>3. QED
      BY <3>1, <3>2
  <2> HIDE DEF Sent
  <2>5. /\ IsSeq(msgs) /\ LockFollows(msgs)
        /\ \A i : i \notin there => NoneOf(msgs, i)
        /\ \A i \in there : LastIs(msgs, i, data[i])
    <3>1. \A i : i \notin there => NoneOf(msgs, i)
      BY <2>4, PostedSets
    <3>2. IsSeq(msgs) /\ LockFollows(msgs)
      BY <1>2, <2>4, PostedSets
    <3>3. ASSUME NEW i \in there
          PROVE  LastIs(msgs, i, data[i])
      <4>1. CASE i = "SUPL"
        BY <2>4, <4>1, PostedSets
      <4>2. CASE i = "C2K"
        BY <2>4, <4>2, PostedSets
      <4>3. QED
        BY <4>1, <4>2 DEF Servers
    <3>4. QED
      BY <3>1, <3>2, <3>3
  <2>6. FcnInv' /\ ServersInv'
    BY <1>1, <2>2 DEF FcnInv, ServersInv, Elsewhere
  <2>7. ASSUME NEW i \in Items \ excused'
        PROVE  \/ i \notin excused /\ asked'[i] = asked[i] /\ NoneOf(msgs, i)
               \/ LastIs(msgs, i, asked'[i]) /\ ~(held # NoMsg /\ held.item = i)
    <3>1. CASE i \in there
      <4>1. data[i] = asked[i] /\ ~Holds(work, i)
        BY <1>1, <2>1, <2>2, <3>1 DEF ServersInv
      <4>2. held # NoMsg => Holds(work, Head(work)) /\ held.item = Head(work)
        BY <1>1, HeldIsSet, TakenSets DEF IInv, WorkInv
      <4>3. QED
        BY <2>2, <2>5, <3>1, <4>1, <4>2
    <3>2. CASE i \notin there
      BY <2>1, <2>2, <2>5, <2>7, <3>2
    <3>3. QED
      BY <3>1, <3>2
  <2>8. QED
    BY <2>2, <2>3, <2>5, <2>6, <2>7, CallKeeps
<1>21. QED
  BY <1>10, <1>11, <1>13, <1>15, <1>16, <1>17, <1>18, <1>19, <1>20
     DEF Hal, loc_gps_measurement_init, loc_gps_measurement_close

LEMMA ModemConfig == IInv /\ ConfigInv /\ Modem => ConfigInv'
<1> SUFFICES ASSUME IInv, ConfigInv, Modem
             PROVE  ConfigInv'
  OBVIOUS
<1>1. /\ FcnInv /\ ItemsInv /\ ServersInv /\ LockInv
      /\ ~adapter => queue = <<>> /\ work = <<>> /\ held = NoMsg /\ ~opened
      /\ IsSeq(queue) /\ IsSeq(work)
      /\ \A x : IsSeq(<<x>>)
  BY SomeSeqs DEF ConfigInv, IInv, NoAdapterInv, WorkInv
<1>2. ASSUME NEW msg, Reports(msg), msg.kind \notin {"set", "init"}
      PROVE  ConfigInv'
  <2>1. /\ queue' = queue \o <<msg>> /\ UNCHANGED <<hal, asked, excused>> /\ Elsewhere
        /\ UNCHANGED <<adapter, agps>>
    BY <1>2 DEF Reports, Post, Elsewhere, hal
  <2>2. FcnInv' /\ ServersInv'
    BY <1>1, <2>1 DEF FcnInv, ServersInv, Elsewhere, busy, hal
  <2>3. LockFollows(<<msg>>) /\ \A i : NoneOf(<<msg>>, i)
    BY <1>2, OneMessage
  <2>4. \A i \in Items \ excused' :
          i \notin excused /\ asked'[i] = asked[i] /\ NoneOf(<<msg>>, i)
    BY <2>1, <2>3
  <2>5. QED
    BY <1>1, <2>1, <2>2, <2>3, <2>4, CallKeeps
<1>3. CASE reportPosition \/ reportStatus \/ requestNiNotify
  BY <1>2, <1>3 DEF reportPosition, reportStatus, requestNiNotify, LocEngReportPosition,
     LocEngReportStatus
\* What an announcement leaves as it is.
<1>4. ASSUME NEW msg, Announces(msg), msg.kind \notin {"set", "init"}
      PROVE  /\ UNCHANGED <<adapter, agps, data, asked, work, held>>
             /\ IsSeq(queue') /\ LockFollows(queue')
             /\ \A k : Has(queue, k) => Has(queue', k)
             /\ adapter => Has(queue', msg.kind)
             /\ \A i : NoneOf(queue, i) <=> NoneOf(queue', i)
             /\ \A i, v : LastIs(queue, i, v) => LastIs(queue', i, v)
  <2>1. UNCHANGED <<adapter, agps, data, asked, work, held>>
    BY <1>4 DEF Announces, hal, busy
  <2>2. queue' = queue \o <<msg>> \/ (~adapter /\ queue' = queue)
    BY <1>1, <1>4, AppendSeq DEF Announces
  <2>3. /\ LockFollows(<<msg>>) /\ Has(<<msg>>, msg.kind) /\ \A i : NoneOf(<<msg>>, i)
    <3>1. 1 \in DOMAIN <<msg>> /\ <<msg>>[1] = msg
      OBVIOUS
    <3>2. QED
      BY <1>4, <3>1, OneMessage DEF Has
  <2>4. CASE queue' = queue \o <<msg>>
    BY <1>1, <2>1, <2>3, <2>4, Posted, PostedSets DEF LockInv
  <2>5. CASE ~adapter /\ queue' = queue
    BY <1>1, <2>1, <2>5 DEF LockInv
  <2>6. QED
    BY <2>2, <2>4, <2>5
<1>5. ASSUME NEW msg, Announces(msg), msg.kind \notin {"set", "init"},
             OnItems(set', AllItems), excused \subseteq excused', modem' = "down" => ~opened',
             \A i \in Items \ excused' : Settled(i) => Settled(i)'
      PROVE  ConfigInv'
  <2>1. FcnInv'
    BY <1>1, <1>4, <1>5 DEF FcnInv
  <2>2. ItemsInv'
    BY <1>1, <1>4, <1>5 DEF ItemsInv
  <2>3. ServersInv'
    BY <1>1, <1>4, <1>5 DEF ServersInv
  <2>4. LockInv'
    BY <1>1, <1>4, <1>5 DEF LockInv
  <2>5. ASSUME NEW i \in Items \ excused'
        PROVE  Right(i)'
    <3>1. Right(i) /\ (Settled(i) => Settled(i)')
      BY <1>5, <2>5 DEF ConfigInv
    <3>2. QED
      BY <1>4, <1>5, <3>1 DEF Right
  <2>6. QED
    BY <2>1, <2>2, <2>3, <2>4, <2>5 DEF ConfigInv
\* All is forgotten, and what is not told once only will be told again.
<1>6. CASE handleEngineDownEvent
  <2>1. /\ Announces([kind |-> "down"]) /\ modem' = "down" /\ ~opened'
        /\ set' = [i \in AllItems |-> Unset] /\ excused' = excused \cup Once
    BY <1>6 DEF handleEngineDownEvent
  <2>2. set' \in [AllItems -> {Unset}]
    BY <2>1
  <2>3. OnItems(set', AllItems)
    BY <2>2 DEF OnItems
  <2>4. \A i \in Items \ excused' : Settled(i)'
    BY <2>1 DEF Settled, Resent
  <2>5. QED
    BY <1>5, <2>1, <2>3, <2>4
<1>7. CASE handleEngineUpEvent
  <2>1. /\ Announces([kind |-> "open"]) /\ modem = "down" /\ modem' = "back"
        /\ UNCHANGED <<opened, set, excused>>
    BY <1>7 DEF handleEngineUpEvent
  <2>2. asked' = asked
    BY <2>1 DEF Announces
  <2>3. \A i : Settled(i) => Settled(i)'
    BY <2>1, <2>2 DEF Settled, Resent
  <2>4. QED
    BY <1>1, <1>5, <2>1, <2>3 DEF FcnInv
\* The up is queued, unless there is no engine yet: loc_eng_init will queue an init then.
<1>8. CASE AdapterHears
  <2>1. /\ Announces([kind |-> "up"]) /\ modem' = "up" /\ UNCHANGED <<opened, set, excused>>
    BY <1>8 DEF AdapterHears
  <2>2. /\ UNCHANGED <<adapter, asked, work>>
        /\ adapter => Has(queue', "up")
    BY <1>4, <2>1
  <2>3. ASSUME NEW i \in Items \ excused', Settled(i)
        PROVE  Settled(i)'
    <3>1. i \in Resendable \cup Servers \cup Once
      BY EngineAssumption, ItemKinds
    <3>2. i \in Servers => adapter
      BY <1>1, <2>1, <2>3 DEF ServersInv
    <3>3. QED
      BY <2>1, <2>2, <2>3, <3>1, <3>2 DEF Settled, Resent
  <2>4. modem' = "down" => ~opened'
    BY <2>1
  <2>5. QED
    BY <1>1, <1>5, <2>1, <2>3, <2>4 DEF FcnInv
<1>9. QED
  BY <1>3, <1>6, <1>7, <1>8 DEF Modem

\* The handlers of init and of up work on all that is resent.
LEMMA TurnItems ==
  /\ \A i \in Items : i \in Resendable => Holds(loc_eng_reinit, i)
  /\ \A i \in Items : i \in Servers => Holds(loc_eng_agps_reinit, i)
  /\ Within(loc_eng_reinit, Resendable)
  /\ Within(loc_eng_agps_reinit, Servers)
<1>1. ASSUME NEW x
      PROVE  /\ IsSeq(Turn(x)) /\ (x \in Items => Holds(Turn(x), x))
             /\ \A T : x \in T => Within(Turn(x), T)
  <2>1. CASE x \in Items
    <3>1. Turn(x) = <<x>> /\ DOMAIN <<x>> = {1} /\ <<x>>[1] = x
      BY <2>1 DEF Turn
    <3>2. QED
      BY <3>1, SomeSeqs DEF Holds, Within
  <2>2. CASE x \notin Items
    <3>1. Turn(x) = <<>>
      BY <2>2 DEF Turn
    <3>2. QED
      BY <2>2, <3>1, SomeSeqs DEF Within
  <2>3. QED
    BY <2>1, <2>2
<1>2. /\ \A q, r : IsSeq(q) /\ IsSeq(r) => IsSeq(q \o r)
      /\ \A q, r, x : IsSeq(q) /\ IsSeq(r) /\ (Holds(q, x) \/ Holds(r, x)) => Holds(q \o r, x)
      /\ \A q, r, T : IsSeq(q) /\ IsSeq(r) /\ Within(q, T) /\ Within(r, T) => Within(q \o r, T)
  BY Posted, PostedWithin
<1>3. Resendable = {"SUPL_VER", "LPP_PROFILE", "SENSOR_CONTROL", "A_GLONASS",
                    "SENSOR_PROPERTIES", "SENSOR_PERF", "ENABLE", "XTRA_CHECK"}
  BY DEF Resendable, Settings, Fixed
<1>4. Within(loc_eng_reinit, Resendable) /\ Within(loc_eng_agps_reinit, Servers)
  BY <1>1, <1>2, <1>3 DEF loc_eng_reinit, loc_eng_agps_reinit, Servers
<1>5. ASSUME NEW i \in Items, i \in Resendable
      PROVE  Holds(loc_eng_reinit, i)
  BY <1>1, <1>2, <1>3, <1>5 DEF loc_eng_reinit
<1>6. ASSUME NEW i \in Items, i \in Servers
      PROVE  Holds(loc_eng_agps_reinit, i)
  BY <1>1, <1>2, <1>6 DEF loc_eng_agps_reinit, Servers
<1>7. QED
  BY <1>4, <1>5, <1>6

LEMMA MadeIsSet ==
  ASSUME NEW i \in Resendable \cup Servers
  PROVE  Made(i) = Set(i, data[i])
<1>1. i \in {"SUPL_VER", "LPP_PROFILE", "SENSOR_CONTROL", "A_GLONASS", "SENSOR_PROPERTIES",
             "SENSOR_PERF", "ENABLE", "XTRA_CHECK", "SUPL", "C2K"}
  BY DEF Resendable, Settings, Fixed, Servers
<1> USE Zenon DEF Made, LocEngSuplVer, LocEngLppConfig, LocEngAGlonassProtocol,
    LocEngSensorControlConfig, LocEngSensorProperties, LocEngSensorPerfControlConfig,
    LocEngSetXtraVersionCheck, LocEngEnableData, LocEngSetServerUrl, LocEngSetServerIpv4
<1>2. CASE i = "SUPL_VER"
  BY <1>2
<1>3. CASE i = "LPP_PROFILE"
  BY <1>3
<1>4. CASE i = "SENSOR_CONTROL"
  BY <1>4
<1>5. CASE i = "A_GLONASS"
  BY <1>5
<1>6. CASE i = "SENSOR_PROPERTIES"
  BY <1>6
<1>7. CASE i = "SENSOR_PERF"
  BY <1>7
<1>8. CASE i = "ENABLE"
  BY <1>8
<1>9. CASE i = "XTRA_CHECK"
  BY <1>9
<1>10. CASE i = "SUPL"
  BY <1>10
<1>11. CASE i = "C2K"
  BY <1>11
<1>12. QED
  BY <1>1, <1>2, <1>3, <1>4, <1>5, <1>6, <1>7, <1>8, <1>9, <1>10, <1>11

LEMMA MsgTaskConfig == IInv /\ ConfigInv /\ MsgTask => ConfigInv'
<1> SUFFICES ASSUME IInv, ConfigInv, MsgTask
             PROVE  ConfigInv'
  OBVIOUS
<1>1. /\ FcnInv /\ ItemsInv /\ ServersInv /\ LockInv
      /\ ~adapter => queue = <<>> /\ work = <<>> /\ held = NoMsg /\ ~opened
      /\ IsSeq(queue) /\ IsSeq(work)
      /\ held # NoMsg => work # <<>> /\ Head(work) # "restart"
      /\ \A x : IsSeq(<<x>>)
  BY SomeSeqs DEF ConfigInv, IInv, NoAdapterInv, WorkInv
<1>2. \A i \in Items : i \in Resendable \cup Servers \cup Once /\ i \in AllItems
  BY EngineAssumption, ItemKinds
\* A message is taken.
<1>3. ASSUME NEW kind, Handle(kind)
      PROVE  /\ adapter /\ work = <<>> /\ held = NoMsg /\ Head(queue).kind = kind
             /\ UNCHANGED <<adapter, agps, data, held, modem, asked>>
             /\ IsSeq(queue') /\ LockFollows(queue')
             /\ \A k : Has(queue, k) /\ kind # k => Has(queue', k)
             /\ \A i : NoneOf(queue, i) => NoneOf(queue', i) /\ ~Sets(Head(queue), i)
             /\ \A i, v : LastIs(queue, i, v) =>
                            \/ LastIs(queue', i, v)
                            \/ Head(queue) = Set(i, v) /\ NoneOf(queue', i)
             /\ kind = "init" => ~NoneOf(queue', "LOCK")
             /\ \A x : ~Holds(work, x)
  <2>1. /\ work = <<>> /\ held = NoMsg /\ queue # <<>> /\ Head(queue).kind = kind
        /\ queue' = Tail(queue) /\ UNCHANGED <<adapter, agps, data, held, modem, asked>>
    BY <1>3 DEF Handle, hal
  <2>2. \A x : ~Holds(work, x)
    BY <2>1 DEF Holds
  <2>3. /\ IsSeq(Tail(queue)) /\ LockFollows(Tail(queue))
        /\ \A k : Has(queue, k) /\ kind # k => Has(Tail(queue), k)
    BY <1>1, <2>1, Taken, TakenSets DEF LockInv
  <2>4. \A i : NoneOf(queue, i) => NoneOf(Tail(queue), i) /\ ~Sets(Head(queue), i)
    BY <1>1, <2>1, TakenSets
  <2>5. \A i, v : LastIs(queue, i, v) =>
                    \/ LastIs(Tail(queue), i, v)
                    \/ Head(queue) = Set(i, v) /\ NoneOf(Tail(queue), i)
    BY <1>1, <2>1, TakenSets
  <2>6. kind = "init" => ~NoneOf(Tail(queue), "LOCK")
    BY <1>1, <2>1, TakenSets DEF LockInv
  <2>7. adapter
    BY <1>1, <2>1
  <2>8. QED
    BY <2>1, <2>2, <2>3, <2>4, <2>5, <2>6, <2>7
\* ... and the handler works on no items.
<1>4. ASSUME NEW kind, Handle(kind), excused \subseteq excused', UNCHANGED work,
             OnItems(set', AllItems), modem = "down" => ~opened',
             \A i \in Items \ excused' : Right(i)'
      PROVE  ConfigInv'
  <2>1. FcnInv' /\ ItemsInv'
    BY <1>1, <1>3, <1>4 DEF FcnInv, ItemsInv
  <2>2. ServersInv' /\ LockInv'
    BY <1>1, <1>3, <1>4 DEF ServersInv, LockInv
  <2>3. QED
    BY <1>4, <2>1, <2>2 DEF ConfigInv
\* A message of another kind about none of the items.
<1>5. ASSUME NEW kind, Handle(kind), kind \notin {"set", "up", "init"},
             NEW i \in Items \ excused, opened => opened', set'[i] = set[i]
      PROVE  Right(i)'
  <2>1. Right(i)
    BY <1>5 DEF ConfigInv
  <2>2. \A v : Set(i, v).kind = "set"
    BY DEF Set
  <2>3. Settled(i) => Settled(i)'
    BY <1>3, <1>5 DEF Settled, Resent
  <2>4. QED
    BY <1>3, <1>5, <2>1, <2>2, <2>3 DEF Right
<1>6. ASSUME NEW kind, Handle(kind), kind \notin {"set", "up", "init"},
             UNCHANGED <<work, opened, set, excused>>
      PROVE  ConfigInv'
  <2>1. OnItems(set', AllItems) /\ (modem = "down" => ~opened')
    BY <1>1, <1>6 DEF FcnInv, ItemsInv
  <2>2. \A i \in Items \ excused' : Right(i)'
    BY <1>5, <1>6
  <2>3. QED
    BY <1>4, <1>6, <2>1, <2>2
<1>7. CASE LocEngStartFix \/ LocEngStopFix \/ LocEngPositionMode \/ ReportPosition
             \/ LocEngDelAidData \/ loc_eng_mute_one_session \/ ReportStatus \/ LocEngDown
  BY <1>6, <1>7 DEF LocEngStartFix, LocEngStopFix, LocEngPositionMode, ReportPosition,
     LocEngDelAidData, loc_eng_mute_one_session, ReportStatus, LocEngDown
\* Opening writes the mask, which is excused if the connection was open; and if it was not,
\* no mask was settled.
<1>8. CASE Open
  <2>1. /\ Handle("open") /\ UNCHANGED work /\ opened' = (modem # "down")
        /\ set' = set \/ set' = [set EXCEPT !["MASK"] = 1]
        /\ excused' = IF opened THEN excused \cup {"MASK"} ELSE excused
    BY <1>8 DEF Open
  <2>2. /\ OnItems(set', AllItems)
        /\ \A i \in AllItems : i # "MASK" => set'[i] = set[i]
    <3>1. CASE set' = set
      BY <1>1, <3>1 DEF FcnInv
    <3>2. CASE set' = [set EXCEPT !["MASK"] = 1]
      <4>1. /\ OnItems(set', AllItems)
            /\ \A i \in AllItems : set'[i] = IF i = "MASK" THEN 1 ELSE set[i]
        BY <1>1, <3>2, SetChanged
      <4>2. QED
        BY <4>1
    <3>3. QED
      BY <2>1, <3>1, <3>2
  <2>3. opened => opened'
    BY <1>1, <2>1 DEF ItemsInv
  <2>4. ASSUME NEW i \in Items \ excused'
        PROVE  Right(i)'
    <3>1. CASE i # "MASK"
      BY <1>2, <1>5, <2>1, <2>2, <2>3, <2>4, <3>1
    <3>2. CASE i = "MASK"
      <4>1. ~opened /\ i \notin excused /\ i \in Once
        BY <2>1, <2>4, <3>2 DEF Once
      <4>2. ~Settled(i) /\ Right(i)
        BY <4>1 DEF Settled, ConfigInv
      <4>3. LastIs(queue, i, asked[i])
        BY <1>3, <2>1, <4>2 DEF Right
      <4>4. Set(i, asked[i]).kind = "set"
        BY DEF Set
      <4>5. QED
        BY <1>3, <2>1, <4>3, <4>4 DEF Right
    <3>3. QED
      BY <3>1, <3>2
  <2>5. QED
    BY <1>4, <2>1, <2>2, <2>3, <2>4
\* An item is told, or it is lost: then the modem is away or its up is in the queue.
<1>9. CASE Tell
  <2> DEFINE x == Head(queue).item
             v == Head(queue).value
  <2>1. /\ Handle("set") /\ UNCHANGED <<work, opened>>
        /\ set' = IF opened THEN [set EXCEPT ![x] = v] ELSE set
        /\ excused' = IF ~opened /\ x \in Once THEN excused \cup {x} ELSE excused
    BY <1>9 DEF Tell, Msg
  <2>2. /\ OnItems(set', AllItems)
        /\ \A i \in AllItems : set'[i] = IF opened /\ i = x THEN v ELSE set[i]
    <3>1. CASE opened
      <4>1. OnItems(set', AllItems) /\ \A i \in AllItems : set'[i] = IF i = x THEN v ELSE set[i]
        BY <1>1, <2>1, <3>1, SetChanged
      <4>2. QED
        BY <3>1, <4>1
    <3>2. CASE ~opened
      BY <1>1, <2>1, <3>2 DEF FcnInv
    <3>3. QED
      BY <3>1, <3>2
  <2>3. ~opened => modem # "up" \/ Has(queue', "up")
    BY <1>3, <2>1, UpBehindOpen DEF IInv, OpenInv
  <2>4. ASSUME NEW i \in Items \ excused'
        PROVE  Right(i)'
    <3>1. i \notin excused /\ Right(i) /\ held = NoMsg
      BY <1>3, <2>1, <2>4 DEF ConfigInv
    <3>2. CASE LastIs(queue', i, asked[i])
      BY <1>3, <2>1, <3>1, <3>2 DEF Right
    <3>3. CASE Head(queue) = Set(i, asked[i]) /\ NoneOf(queue', i)
      <4>1. x = i /\ v = asked[i]
        BY <3>3 DEF Set
      <4>2. Settled(i)'
        <5>1. CASE opened
          BY <1>2, <1>3, <2>1, <2>2, <4>1, <5>1 DEF Settled
        <5>2. CASE ~opened
          BY <1>3, <2>1, <2>3, <2>4, <4>1, <5>2 DEF Settled, Resent
        <5>3. QED
          BY <5>1, <5>2
      <4>3. QED
        BY <1>3, <2>1, <3>1, <3>3, <4>2 DEF Right
    <3>4. CASE NoneOf(queue, i) /\ Settled(i)
      <4>1. x # i
        BY <1>3, <2>1, <3>4 DEF Sets
      <4>2. set'[i] = set[i]
        BY <1>2, <2>2, <4>1
      <4>3. Settled(i)'
        BY <1>3, <2>1, <3>4, <4>2 DEF Settled, Resent
      <4>4. QED
        BY <1>3, <2>1, <3>1, <3>4, <4>3 DEF Right
    <3>5. QED
      BY <1>3, <2>1, <3>1, <3>2, <3>3, <3>4 DEF Right
  <2>5. modem = "down" => ~opened'
    BY <1>1, <2>1 DEF ItemsInv
  <2>6. QED
    BY <1>4, <2>1, <2>2, <2>4, <2>5
\* The handler of init or of up, which begins to send all that is resent.
<1>10. ASSUME NEW kind, kind \in {"init", "up"}, Handle(kind), UNCHANGED <<opened, set, excused>>,
              Within(work', Resendable \cup Servers \cup {"LOCK", "restart"}),
              \A i \in Items : i \in Resendable => Holds(work', i),
              kind = "up" /\ agps => \A i \in Items : i \in Servers => Holds(work', i),
              ~agps => \A i \in Servers : ~Holds(work', i),
              kind = "up" => ~Holds(work', "LOCK")
       PROVE  ConfigInv'
  <2>1. FcnInv' /\ ItemsInv'
    BY <1>1, <1>3, <1>10 DEF FcnInv, ItemsInv
  <2>2. ServersInv' /\ LockInv'
    BY <1>1, <1>3, <1>10 DEF ServersInv, LockInv
  <2>3. ASSUME NEW i \in Items \ excused'
        PROVE  Right(i)'
    <3>1. Right(i) /\ i \notin excused
      BY <1>10, <2>3 DEF ConfigInv
    <3>2. \A v : Set(i, v).kind = "set"
      BY DEF Set
    <3>3. Settled(i) => Settled(i)'
      <4>1. CASE opened /\ set[i] = asked[i]
        BY <1>3, <1>10, <4>1 DEF Settled
      <4>2. CASE i \notin Once /\ Resent(i)
        <5>1. CASE i \in Resendable
          BY <1>10, <4>2, <5>1 DEF Settled, Resent
        <5>2. CASE i \in Servers
          <6>1. agps /\ i \notin Resendable
            BY <1>1, <3>1, <5>2, ItemKinds DEF ServersInv
          <6>2. modem # "up" \/ Has(queue, "up")
            BY <1>3, <1>10, <4>2, <6>1 DEF Resent
          <6>3. QED
            BY <1>3, <1>10, <4>2, <5>2, <6>1, <6>2 DEF Settled, Resent
        <5>3. QED
          BY <1>2, <4>2, <5>1, <5>2
      <4>3. QED
        BY <4>1, <4>2 DEF Settled
    <3>4. QED
      BY <1>3, <1>10, <3>1, <3>2, <3>3 DEF Right
  <2>4. QED
    BY <2>1, <2>2, <2>3 DEF ConfigInv
\* What the handlers begin to work on.
<1>11. ASSUME NEW q, IsSeq(q), NEW T, Within(q, T), NEW x,
              T \subseteq Resendable \cup Servers, x \in {"LOCK", "restart"}
       PROVE  /\ Within(q \o <<x>>, Resendable \cup Servers \cup {"LOCK", "restart"})
              /\ \A i : Holds(q, i) => Holds(q \o <<x>>, i)
              /\ \A i : Holds(q \o <<x>>, i) => i \in T \/ i = x
  <2>1. Within(q \o <<x>>, T \cup {x})
    <3>1. Within(q, T \cup {x}) /\ Within(<<x>>, T \cup {x})
      BY <1>11 DEF Within
    <3>2. QED
      BY <1>1, <1>11, <3>1, PostedWithin
  <2>2. \A i : Holds(q, i) => Holds(q \o <<x>>, i)
    BY <1>1, <1>11, Posted
  <2>3. QED
    BY <1>11, <2>1, <2>2 DEF Within, Holds
<1>12. CASE LocEngInit
  <2>1. Handle("init") /\ UNCHANGED <<opened, set, excused>> /\ work' = loc_eng_reinit \o <<"LOCK">>
    BY <1>12 DEF LocEngInit
  <2>2. /\ Within(work', Resendable \cup Servers \cup {"LOCK", "restart"})
        /\ \A i \in Items : i \in Resendable => Holds(work', i)
        /\ \A i : Holds(work', i) => i \in Resendable \/ i = "LOCK"
    BY <1>11, <2>1, TurnSeqs, TurnItems
  <2>3. \A i \in Servers : ~Holds(work', i)
    BY <2>2, ItemKinds
  <2>4. QED
    BY <1>10, <2>1, <2>2, <2>3
<1>13. CASE LocEngUp
  <2> DEFINE again == loc_eng_reinit \o (IF agps THEN loc_eng_agps_reinit ELSE <<>>)
             T == Resendable \cup (IF agps THEN Servers ELSE {})
  <2>1. Handle("up") /\ UNCHANGED <<opened, set, excused>> /\ work' = again \o <<"restart">>
    BY <1>13 DEF LocEngUp
  <2>2. /\ IsSeq(again) /\ Within(again, T) /\ T \subseteq Resendable \cup Servers
        /\ \A i \in Items : i \in Resendable => Holds(again, i)
        /\ agps => \A i \in Items : i \in Servers => Holds(again, i)
    <3>1. CASE agps
      <4>1. Within(loc_eng_reinit, T) /\ Within(loc_eng_agps_reinit, T)
        BY <3>1, TurnItems DEF Within
      <4>2. again = loc_eng_reinit \o loc_eng_agps_reinit /\ T \subseteq Resendable \cup Servers
        BY <3>1
      <4> HIDE DEF again, T
      <4>3. QED
        BY <4>1, <4>2, TurnSeqs, TurnItems, Posted, PostedWithin
    <3>2. CASE ~agps
      <4>1. again = loc_eng_reinit
        BY <3>2, TurnSeqs, ConcatEmptySeq DEF IsSeq
      <4>2. T = Resendable
        BY <3>2
      <4> HIDE DEF again, T
      <4>3. QED
        BY <3>2, <4>1, <4>2, TurnSeqs, TurnItems
    <3>3. QED
      BY <3>1, <3>2
  <2>3. /\ Within(work', Resendable \cup Servers \cup {"LOCK", "restart"})
        /\ \A i : Holds(again, i) => Holds(work', i)
        /\ \A i : Holds(work', i) => i \in T \/ i = "restart"
    <3> HIDE DEF again, T
    <3>1. QED
      BY <1>11, <2>1, <2>2
  <2>4. ~Holds(work', "LOCK") /\ (~agps => \A i \in Servers : ~Holds(work', i))
    BY <2>3, ItemKinds
  <2> HIDE DEF again
  <2>5. QED
    BY <1>10, <2>1, <2>2, <2>3, <2>4
\* The next message is made of what the HAL holds now, which nothing excuses only if it is
\* what was asked for.
<1>14. CASE Make
  <2> DEFINE x == Head(work)
  <2>1. /\ work # <<>> /\ held = NoMsg /\ x \notin {"LOCK", "restart"}
        /\ UNCHANGED <<adapter, agps, data, asked, queue, modem, opened, set>>
        /\ \/ held' = Made(x) /\ work' = work
              /\ excused' = IF asked[x] = data[x] THEN excused \ {x} ELSE excused \cup {x}
           \/ held' = NoMsg /\ work' = Tail(work) /\ excused' = excused \cup {x}
    BY <1>14 DEF Make, hal
  <2>2. /\ x \in Resendable \cup Servers /\ Holds(work, x)
        /\ IsSeq(Tail(work)) /\ Within(Tail(work), Resendable \cup Servers \cup {"LOCK", "restart"})
        /\ \A i : Holds(Tail(work), i) => Holds(work, i)
        /\ \A i : Holds(work, i) /\ i # x => Holds(Tail(work), i)
    BY <1>1, <2>1, Taken, TakenSets DEF ItemsInv
  <2>3. Made(x) = Set(x, data[x])
    BY <2>2, MadeIsSet
  <2>4. FcnInv'
    BY <1>1, <2>1 DEF FcnInv
  <2>5. ItemsInv'
    BY <1>1, <2>1, <2>2, <2>3 DEF ItemsInv
  <2>6. ServersInv'
    BY <1>1, <2>1, <2>2 DEF ServersInv
  <2>7. LockInv'
    BY <1>1, <2>1, <2>2 DEF LockInv
  <2>8. ASSUME NEW i \in Items \ excused'
        PROVE  Right(i)'
    <3>1. CASE i = x
      <4>1. held' = Set(x, data[x]) /\ asked[x] = data[x]
        BY <2>1, <2>3, <2>8, <3>1
      <4>2. held' # NoMsg /\ held'.item = i /\ held'.value = asked'[i]
        BY <2>1, <3>1, <4>1 DEF Set, NoMsg
      <4>3. QED
        BY <4>2 DEF Right
    <3>2. CASE i # x
      <4>1. Right(i)
        BY <2>1, <2>8, <3>2 DEF ConfigInv
      <4>2. ~(held' # NoMsg /\ held'.item = i)
        BY <2>1, <2>3, <3>2 DEF Set
      <4>3. Settled(i) => Settled(i)'
        BY <2>1, <2>2, <3>2 DEF Settled, Resent
      <4>4. QED
        BY <2>1, <4>1, <4>2, <4>3 DEF Right
    <3>3. QED
      BY <3>1, <3>2
  <2>9. QED
    BY <2>4, <2>5, <2>6, <2>7, <2>8 DEF ConfigInv
<1>15. CASE Send
  <2> DEFINE x == Head(work)
  <2>1. /\ held # NoMsg /\ work # <<>> /\ held' = NoMsg /\ work' = Tail(work)
        /\ queue' = queue \o <<held>>
        /\ UNCHANGED <<adapter, agps, data, asked, modem, opened, set, excused>>
    BY <1>1, <1>15 DEF Send, Post, hal
  <2>2. PICK v : held = Set(x, v)
    BY <1>1, <2>1 DEF ItemsInv
  <2>3. /\ IsSeq(Tail(work)) /\ Within(Tail(work), Resendable \cup Servers \cup {"LOCK", "restart"})
        /\ \A i : Holds(Tail(work), i) => Holds(work, i)
        /\ \A i : Holds(work, i) /\ i # x => Holds(Tail(work), i)
    BY <1>1, <2>1, Taken, TakenSets DEF ItemsInv
  <2>4. /\ LastIs(<<held>>, x, v) /\ LockFollows(<<held>>)
        /\ \A i : i # x => NoneOf(<<held>>, i)
    BY <2>2, OneMessage
  <2>5. FcnInv' /\ ItemsInv' /\ ServersInv'
    BY <1>1, <2>1, <2>3 DEF FcnInv, ItemsInv, ServersInv
  <2>6. LockInv'
    BY <1>1, <2>1, <2>3, <2>4, PostedSets DEF LockInv
  <2>7. ASSUME NEW i \in Items \ excused'
        PROVE  Right(i)'
    <3>1. Right(i)
      BY <2>1, <2>7 DEF ConfigInv
    <3>2. CASE i = x
      <4>1. v = asked[i]
        BY <2>1, <2>2, <3>1, <3>2 DEF Right, Set
      <4>2. LastIs(queue', i, asked'[i])
        BY <1>1, <2>1, <2>4, <3>2, <4>1, PostedSets
      <4>3. QED
        BY <2>1, <4>2 DEF Right
    <3>3. CASE i # x
      <4>1. held.item # i
        BY <2>2, <3>3 DEF Set
      <4>2. Settled(i) => Settled(i)'
        BY <1>1, <2>1, <2>3, <3>3, Posted DEF Settled, Resent
      <4>3. QED
        BY <1>1, <2>1, <2>4, <3>1, <3>3, <4>1, <4>2, PostedSets DEF Right
    <3>4. QED
      BY <3>2, <3>3
  <2>8. QED
    BY <2>5, <2>6, <2>7 DEF ConfigInv
\* The last step of a handler, which writes nothing but the lock.
<1>16. ASSUME NEW last \in {"LOCK", "restart"}, work = <<last>>, held = NoMsg, work' = <<>>,
              UNCHANGED <<adapter, agps, data, asked, queue, held, modem, opened, excused>>,
              OnItems(set', AllItems), \A i \in AllItems : i # last => set'[i] = set[i]
       PROVE  ConfigInv'
  <2>1. \A i : Holds(work, i) <=> i = last
    BY <1>16 DEF Holds
  <2>2. \A i : ~Holds(work', i)
    BY <1>16 DEF Holds
  <2>3. FcnInv' /\ ItemsInv'
    BY <1>1, <1>16 DEF FcnInv, ItemsInv, Within
  <2>4. ServersInv' /\ LockInv'
    BY <1>1, <1>16, <2>2 DEF ServersInv, LockInv
  <2>5. ASSUME NEW i \in Items \ excused'
        PROVE  Right(i)'
    <3>1. Right(i)
      BY <1>16, <2>5 DEF ConfigInv
    <3>2. CASE i = last
      <4>1. i = "LOCK" /\ ~NoneOf(queue, i)
        BY <1>1, <1>2, <1>16, <2>1, <3>2, ItemKinds DEF LockInv
      <4>2. QED
        BY <1>16, <3>1, <4>1 DEF Right
    <3>3. CASE i # last
      <4>1. Settled(i) => Settled(i)'
        BY <1>2, <1>16, <2>1, <3>3 DEF Settled, Resent
      <4>2. QED
        BY <1>16, <3>1, <4>1 DEF Right
    <3>4. QED
      BY <3>2, <3>3
  <2>6. QED
    BY <2>3, <2>4, <2>5 DEF ConfigInv
<1>17. CASE SetGpsLock
  <2>1. /\ work = <<"LOCK">> /\ held = NoMsg /\ work' = <<>>
        /\ UNCHANGED <<adapter, agps, data, asked, queue, held, modem, opened, excused>>
        /\ set' = [set EXCEPT !["LOCK"] = 1] \/ set' = set
    BY <1>17 DEF SetGpsLock, hal
  <2>2. OnItems(set', AllItems) /\ \A i \in AllItems : i # "LOCK" => set'[i] = set[i]
    <3>1. CASE set' = set
      BY <1>1, <3>1 DEF FcnInv
    <3>2. CASE set' = [set EXCEPT !["LOCK"] = 1]
      <4>1. /\ OnItems(set', AllItems)
            /\ \A i \in AllItems : set'[i] = IF i = "LOCK" THEN 1 ELSE set[i]
        BY <1>1, <3>2, SetChanged
      <4>2. QED
        BY <4>1
    <3>3. QED
      BY <2>1, <3>1, <3>2
  <2>3. QED
    BY <1>16, <2>1, <2>2
<1>18. CASE Restart
  <2>1. /\ work = <<"restart">> /\ held = NoMsg /\ work' = <<>>
        /\ UNCHANGED <<adapter, agps, data, asked, queue, held, modem, opened, excused, set>>
    BY <1>18 DEF Restart, hal
  <2>2. QED
    BY <1>1, <1>16, <2>1 DEF FcnInv
<1>19. QED
  BY <1>7, <1>8, <1>9, <1>12, <1>13, <1>14, <1>15, <1>17, <1>18 DEF MsgTask

LEMMA ConfigAlways == Spec => []ConfigInv
<1>1. IInv /\ ConfigInv /\ UNCHANGED vars => ConfigInv'
  BY DEF vars, hal, busy, ConfigInv, FcnInv, ItemsInv, ServersInv, LockInv, Right, Settled, Resent
<1>2. IInv /\ ConfigInv /\ [Next]_vars => ConfigInv'
  BY <1>1, HalConfig, ModemConfig, MsgTaskConfig DEF Next
<1>3. QED
  BY <1>2, ConfigInit, Invariant, PTL DEF Spec

\* When all is handled the modem holds every item that nothing excuses as the framework last
\* asked for it, however often it went down and however the handlers that send it again
\* (loc_eng_reinit, loc_eng_agps_reinit) cross with the framework's calls: ModemIsConfigured.
THEOREM ModemAlwaysConfigured == Spec => []ModemIsConfigured
<1>1. IInv /\ ConfigInv => ModemIsConfigured
  <2> SUFFICES ASSUME IInv, ConfigInv, Quiet, NEW i \in Items \ excused
               PROVE  set[i] = asked[i]
    BY DEF ModemIsConfigured
  <2>1. queue = <<>> /\ work = <<>> /\ modem = "up" /\ adapter /\ held = NoMsg
    BY DEF Quiet, IInv, NoAdapterInv, WorkInv
  <2>2. ~LastIs(queue, i, asked[i]) /\ ~Resent(i)
    BY <2>1 DEF LastIs, Resent, Has, Holds
  <2>3. QED
    BY <2>1, <2>2 DEF ConfigInv, Right, Settled
<1>2. QED
  BY <1>1, Invariant, ConfigAlways, PTL
=============================================================================
