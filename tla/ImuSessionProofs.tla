--------------------------- MODULE ImuSessionProofs ---------------------------
(***************************************************************************)
(* Proofs about ImuSession, for any number of late answers, resets and bus *)
(* failures: core 1 is in its loop only with a session that works, and     *)
(* forgets no reset of the sensor.                                         *)
(***************************************************************************)
EXTENDS ImuSession, TLAPS

Message == {"advert", "reset", "prodIds"} \cup Report

-----------------------------------------------------------------------------
(* The queue of the sensor: what appending and removing do to its members. *)

LEMMA AnnouncementQueued ==
  Announcement \in Seq(Message) /\ "reset" \in Range(Announcement)
<1>1. Announcement \in Seq(Message) /\ Announcement[2] = "reset" /\ 2 \in DOMAIN Announcement
  BY DEF Announcement, Message
<1> QED
  BY <1>1 DEF Range

LEMMA AppendKeeps ==
  ASSUME NEW q \in Seq(Message), NEW m \in Message
  PROVE  /\ Append(q, m) \in Seq(Message)
         /\ "reset" \in Range(q) => "reset" \in Range(Append(q, m))
<1>1. Append(q, m) \in Seq(Message)
  OBVIOUS
<1>2. ASSUME NEW i \in DOMAIN q
      PROVE  i \in DOMAIN Append(q, m) /\ Append(q, m)[i] = q[i]
  BY <1>2
<1> QED
  BY <1>1, <1>2, Zenon DEF Range

LEMMA TailKeeps ==
  ASSUME NEW q \in Seq(Message), q # << >>, Head(q) # "reset"
  PROVE  /\ Tail(q) \in Seq(Message) /\ Head(q) \in Message
         /\ "reset" \in Range(q) => "reset" \in Range(Tail(q))
<1>1. Tail(q) \in Seq(Message) /\ Head(q) \in Message
  OBVIOUS
<1>2. ASSUME NEW i \in DOMAIN q, q[i] = "reset"
      PROVE  i - 1 \in DOMAIN Tail(q) /\ Tail(q)[i - 1] = "reset"
  <2>1. i # 1
    BY <1>2
  <2> QED
    BY <1>2, <2>1
<1> QED
  BY <1>1, <1>2, Zenon DEF Range

LEMMA TailInQueue ==
  ASSUME NEW q \in Seq(Message), q # << >>
  PROVE  Tail(q) \in Seq(Message) /\ Head(q) \in Message
  OBVIOUS

(* Reading a message loses no reset: resetOccurred takes its place.        *)
LEMMA DeliverKeeps ==
  ASSUME TypeOK, Deliver
  PROVE  /\ channel' \in BOOLEAN /\ resetComplete' \in BOOLEAN
         /\ op' \in BOOLEAN /\ resetOccurred' \in BOOLEAN
         /\ outbox' \in Seq(Message)
         /\ taken' = taken /\ alive' = alive /\ features' = features /\ sent' = sent
         /\ channel => channel'
         /\ op' => op
         /\ ResetToCome => ResetToCome'
<1>1. outbox \in Seq(Message) /\ outbox # << >> /\ outbox' = Tail(outbox)
  BY DEF TypeOK, Message, Deliver, Readable
<1>2. Tail(outbox) \in Seq(Message)
  BY <1>1, TailInQueue
<1>3. ResetToCome => ResetToCome'
  <2>1. CASE Head(outbox) = "reset"
    BY <2>1, Zenon DEF Deliver, ResetToCome
  <2>2. CASE Head(outbox) # "reset"
    <3>1. "reset" \in Range(outbox) => "reset" \in Range(outbox')
      BY <1>1, <2>2, TailKeeps
    <3>2. resetOccurred => resetOccurred'
      BY Zenon DEF Deliver
    <3> QED
      BY <3>1, <3>2, Zenon DEF ResetToCome
  <2> QED
    BY <2>1, <2>2
<1>4. /\ channel' \in BOOLEAN /\ resetComplete' \in BOOLEAN
      /\ op' \in BOOLEAN /\ resetOccurred' \in BOOLEAN
      /\ channel => channel'
      /\ op' => op
  BY Zenon DEF TypeOK, Deliver
<1> QED
  BY <1>1, <1>2, <1>3, <1>4 DEF Deliver

-----------------------------------------------------------------------------
(* Types.                                                                  *)

LEMMA InitType == Init => TypeOK
<1> SUFFICES ASSUME Init PROVE TypeOK
  OBVIOUS
<1>1. outbox \in Seq({"advert", "reset", "prodIds"} \cup Report)
  BY AnnouncementQueued DEF Init, Message
<1>2. /\ taken \in BOOLEAN /\ channel \in BOOLEAN /\ resetComplete \in BOOLEAN
      /\ op \in BOOLEAN /\ resetOccurred \in BOOLEAN /\ alive \in BOOLEAN
  BY Zenon DEF Init
<1>3. next \in 1 .. Len(EnableOrder)
  BY DEF Init, EnableOrder
<1> QED
  BY <1>1, <1>2, <1>3, BoundsAssumption DEF Init, TypeOK

LEMMA NextType == TypeOK /\ [Next]_vars => TypeOK'
<1> SUFFICES ASSUME TypeOK, [Next]_vars PROVE TypeOK'
  OBVIOUS
<1> USE BoundsAssumption
<1>0. Len(EnableOrder) = 3 /\ \A i \in 1 .. 3 : EnableOrder[i] \in Report
  BY DEF EnableOrder, Report
<1>00. Announcement \in Seq({"advert", "reset", "prodIds"} \cup Report)
  BY AnnouncementQueued DEF Message
<1>1. CASE Absent \/ ServiceNothing \/ UNCHANGED vars
  BY <1>1 DEF Absent, ServiceNothing, vars, library, sensor, bounds, TypeOK
<1>2. CASE Detect \/ Opened \/ RequestRefused \/ Identified \/ PollNothing
  BY <1>2 DEF Detect, Opened, RequestRefused, Identified, PollNothing, library, sensor, bounds, TypeOK
<1>3. CASE OpenRefused
  BY <1>3 DEF OpenRefused, ClearSh2, sensor, bounds, TypeOK
<1>4. CASE Open
  BY <1>4, <1>00 DEF Open, ClearSh2, bounds, TypeOK
<1>5. CASE AwaitTimeout
  BY <1>5 DEF AwaitTimeout, library, sensor, TypeOK
<1>6. CASE Request
  <2>1. outbox' \in Seq({"advert", "reset", "prodIds"} \cup Report)
    BY <1>6, AppendKeeps DEF Request, TypeOK, Message
  <2> QED
    BY <1>6, <2>1 DEF Request, bounds, TypeOK
<1>7. CASE Enable
  BY <1>7, <1>0 DEF Enable, library, bounds, TypeOK
<1>8. CASE Turn
  BY <1>8 DEF Turn, library, bounds, TypeOK
<1>9. CASE Service \/ PollEvent \/ PollNoEvent
  <2>1. Deliver
    BY <1>9 DEF Service, PollEvent, PollNoEvent
  <2>2. /\ next' = next /\ back' = back /\ late' = late /\ resets' = resets /\ drops' = drops
        /\ pc' \in {pc, "event", "outer"}
    BY <1>9 DEF Service, PollEvent, PollNoEvent, bounds
  <2> QED
    BY <2>1, <2>2, DeliverKeeps DEF TypeOK, Message
<1>10. CASE Event
  BY <1>10 DEF Event, sensor, bounds, TypeOK
<1>11. CASE SendReport
  <2>1. PICK r \in features \ (sent \cup Range(outbox)) :
          outbox' = Append(outbox, r) /\ sent' = sent \cup {r}
    BY <1>11 DEF SendReport
  <2>2. r \in Report
    BY DEF TypeOK
  <2>3. outbox' \in Seq({"advert", "reset", "prodIds"} \cup Report)
    BY <2>1, <2>2, AppendKeeps DEF TypeOK, Message
  <2> QED
    BY <1>11, <2>1, <2>2, <2>3 DEF SendReport, library, bounds, TypeOK
<1>12. CASE SensorResets
  BY <1>12, <1>00 DEF SensorResets, library, TypeOK
<1>13. CASE BusFails \/ BusReturns
  <2>1. alive' \in BOOLEAN /\ drops' \in 0 .. MaxDrops
    <3>1. alive' \in BOOLEAN
      BY <1>13, Zenon DEF BusFails, BusReturns
    <3> QED
      BY <1>13, <3>1 DEF BusFails, BusReturns, bounds, TypeOK
  <2> QED
    BY <1>13, <2>1 DEF BusFails, BusReturns, library, bounds, TypeOK
<1> QED
  BY <1>1, <1>2, <1>3, <1>4, <1>5, <1>6, <1>7, <1>8, <1>9, <1>10, <1>11, <1>12, <1>13
  DEF Next, Core1, Begin, Poll, Sensor

(* The variables keep their types; next stays inside EnableOrder.          *)
THEOREM TypeCorrect == Spec => []TypeOK
  BY InitType, NextType, PTL DEF Spec

-----------------------------------------------------------------------------
(* The session.                                                            *)

Session == SessionUp /\ BeginProgress

LEMMA InitSession == Init => Session
  BY DEF Init, Session, SessionUp, BeginProgress, InLoop

LEMMA NextSession == TypeOK /\ Session /\ [Next]_vars => Session'
<1> SUFFICES ASSUME TypeOK, Session, [Next]_vars PROVE Session'
  OBVIOUS
<1> USE DEF Session, SessionUp, BeginProgress, InLoop
<1>1. CASE Absent \/ ServiceNothing \/ UNCHANGED vars
  BY <1>1 DEF Absent, ServiceNothing, vars, library
<1>2. CASE Detect \/ Opened \/ RequestRefused \/ Identified \/ PollNothing
  BY <1>2 DEF Detect, Opened, RequestRefused, Identified, PollNothing, library
<1>3. CASE OpenRefused \/ Open \/ AwaitTimeout \/ Request
  BY <1>3 DEF OpenRefused, Open, AwaitTimeout, Request, ClearSh2, library
<1>4. CASE Enable \/ Turn \/ Event
  BY <1>4 DEF TypeOK, Enable, Turn, Event, library
<1>5. CASE Service \/ PollEvent \/ PollNoEvent
  <2>1. Deliver
    BY <1>5 DEF Service, PollEvent, PollNoEvent
  <2>2. taken' = taken /\ (channel => channel') /\ (op' => op)
    BY <2>1, DeliverKeeps
  <2> QED
    BY <1>5, <2>2 DEF Service, PollEvent, PollNoEvent
<1>6. CASE Sensor
  BY <1>6 DEF Sensor, SendReport, SensorResets, BusFails, BusReturns, library
<1> QED
  BY <1>1, <1>2, <1>3, <1>4, <1>5, <1>6 DEF Next, Core1, Begin, Poll

(* Core 1 enables reports and enters its loop only when it has the SHTP    *)
(* instance and the control channel and no operation is pending.           *)
THEOREM SessionWorks == Spec => []SessionUp
<1>1. Session => SessionUp
  BY DEF Session
<1> QED
  BY InitType, NextType, InitSession, NextSession, <1>1, PTL DEF Spec

-----------------------------------------------------------------------------
(* Resets.                                                                 *)

Resets == NoResetForgotten /\ EnabledSoFar

LEMMA InitResets == Init => Resets
  BY DEF Init, Resets, NoResetForgotten, EnabledSoFar, InLoop

(* Enabling one more report: after the last one all three are on, or core  *)
(* 1 will learn of the reset that turned some off.                         *)
LEMMA EnableOneMore ==
  ASSUME TypeOK, Resets, Enable PROVE Resets'
<1>1. ResetToCome' <=> ResetToCome
  BY Zenon DEF Enable, ResetToCome, library
<1>2. EnableOrder[1] = "rotation" /\ EnableOrder[2] = "gyro" /\ EnableOrder[3] = "acceleration"
      /\ Len(EnableOrder) = 3
  BY DEF EnableOrder
<1>3. features' = features \cup {EnableOrder[next]} /\ features \subseteq Report /\ next \in 1 .. 3
      /\ pc = "enable" /\ back \in {"outer", "poll"}
  BY <1>2 DEF TypeOK, Enable
<1>4. CASE ResetToCome
  BY <1>1, <1>4, <1>3 DEF Enable, Resets, NoResetForgotten, EnabledSoFar, InLoop, ResetToCome
<1>5. CASE ~ResetToCome
  <2>1. \A i \in 1 .. next : EnableOrder[i] \in features'
    BY <1>3, <1>5 DEF Resets, EnabledSoFar
  <2>2. CASE next = 3
    <3>1. features' = Report
      <4>1. EnableOrder[1] \in features' /\ EnableOrder[2] \in features' /\ EnableOrder[3] \in features'
        BY <2>1, <2>2
      <4>2. features' \subseteq Report
        BY <1>2, <1>3, <2>2 DEF Report
      <4> QED
        BY <4>1, <4>2, <1>2 DEF Report
    <3> QED
      BY <1>2, <1>3, <2>2, <3>1 DEF Enable, Resets, NoResetForgotten, EnabledSoFar, InLoop
  <2>3. CASE next # 3
    <3>1. next' = next + 1 /\ pc' = "enable"
      BY <1>2, <1>3, <2>3 DEF Enable
    <3> QED
      BY <1>3, <2>1, <3>1 DEF Resets, NoResetForgotten, EnabledSoFar, InLoop
  <2> QED
    BY <2>2, <2>3
<1> QED
  BY <1>4, <1>5

LEMMA NextResets == TypeOK /\ Resets /\ [Next]_vars => Resets'
<1> SUFFICES ASSUME TypeOK, Resets, [Next]_vars PROVE Resets'
  OBVIOUS
<1> USE DEF Resets, NoResetForgotten, EnabledSoFar, InLoop, ResetToCome
<1>1. CASE Absent \/ ServiceNothing \/ UNCHANGED vars
  BY <1>1 DEF Absent, ServiceNothing, vars, library, sensor
<1>2. CASE Detect \/ Opened \/ RequestRefused \/ PollNothing
  BY <1>2 DEF Detect, Opened, RequestRefused, PollNothing, library, sensor
<1>3. CASE OpenRefused \/ Open \/ AwaitTimeout \/ Request
  BY <1>3 DEF OpenRefused, Open, AwaitTimeout, Request
<1>4. CASE Identified
  BY <1>4 DEF Identified
<1>5. CASE Enable
  BY <1>5, EnableOneMore
<1>6. CASE Turn
  BY <1>6 DEF Turn, library
<1>7. CASE Event
  BY <1>7 DEF Event, sensor
<1>8. CASE Service \/ PollEvent \/ PollNoEvent
  <2>1. Deliver
    BY <1>8 DEF Service, PollEvent, PollNoEvent
  <2>2. (ResetToCome => ResetToCome') /\ features' = features
    BY <2>1, DeliverKeeps
  <2>3. next' = next /\ (pc' = pc \/ (pc = "poll" /\ pc' \in {"event", "outer"}))
    BY <1>8 DEF Service, PollEvent, PollNoEvent
  <2> QED
    BY <2>2, <2>3
<1>9. CASE SendReport
  <2>1. PICK r \in features \ (sent \cup Range(outbox)) : outbox' = Append(outbox, r)
    BY <1>9 DEF SendReport
  <2>2. "reset" \in Range(outbox) => "reset" \in Range(outbox')
    BY <2>1, AppendKeeps DEF TypeOK, Message
  <2> QED
    BY <1>9, <2>2 DEF SendReport, library
<1>10. CASE SensorResets
  BY <1>10, AnnouncementQueued DEF SensorResets
<1>11. CASE BusFails \/ BusReturns
  BY <1>11 DEF BusFails, BusReturns, library
<1> QED
  BY <1>1, <1>2, <1>3, <1>4, <1>5, <1>6, <1>7, <1>8, <1>9, <1>10, <1>11
  DEF Next, Core1, Begin, Poll, Sensor

(* If core 1 is in its loop and a report is off, it knows of a reset or    *)
(* has the notification still to read, however the resets fall.            *)
THEOREM ResetsRemembered == Spec => []NoResetForgotten
<1>1. Resets => NoResetForgotten
  BY DEF Resets
<1> QED
  BY InitType, NextType, InitResets, NextResets, <1>1, PTL DEF Spec

=============================================================================
