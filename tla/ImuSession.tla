----------------------------- MODULE ImuSession -----------------------------
(***************************************************************************)
(* Core 1 and the IMU: BNO08x::begin in a loop until it succeeds, the      *)
(* three reports that are then enabled, and the polling of events in the   *)
(* loop of core1_entry, with the SH-2 and SHTP sessions underneath.        *)
(*                                                                         *)
(* The sensor is the environment: it acknowledges the bus or does not,     *)
(* queues messages for the host, and may reset, which clears its queue and *)
(* the reports it was told to send and queues an advertisement and a reset *)
(* notification.  A message is one payload; of a payload with several      *)
(* reports getSensorEvent sees the last.                                   *)
(***************************************************************************)
EXTENDS Naturals, Sequences, Functions

CONSTANTS
  MaxLate,    (* how often the sensor may answer later than sh2_open waits *)
  MaxResets,  (* how often it may reset by itself                          *)
  MaxDrops    (* how often the bus may fail: these three bound the model   *)

ASSUME BoundsAssumption == MaxLate \in Nat /\ MaxResets \in Nat /\ MaxDrops \in Nat

(* The reports in the order core 1 enables them.                           *)
EnableOrder == << "rotation", "gyro", "acceleration" >>
Report == {"rotation", "gyro", "acceleration"}

VARIABLES
  pc,             (* where core 1 is                                       *)
  back,           (* where it goes on after enabling the reports           *)
  next,           (* the place in EnableOrder of the next one to enable    *)
  taken,          (* instances[0].pHal # 0: the only SHTP instance is used *)
  channel,        (* controlChan is known (it is not 0xFF)                 *)
  resetComplete,  (* _sh2.resetComplete                                    *)
  op,             (* _sh2.pOp # 0                                          *)
  resetOccurred,  (* _reset_occurred                                       *)
  alive,          (* the sensor acknowledges the bus                       *)
  outbox,         (* its messages for the host                             *)
  features,       (* the reports it sends                                  *)
  sent,           (* those it has sent in this turn of the loop of core 1  *)
  late, resets, drops

library == << taken, channel, resetComplete, op, resetOccurred >>
sensor == << alive, outbox, features, sent >>
bounds == << late, resets, drops >>
vars == << pc, back, next, library, sensor, bounds >>

(* What the sensor queues after a reset.                                   *)
Announcement == << "advert", "reset" >>

Init ==
  /\ pc = "begin"
  /\ back = "outer"
  /\ next = 1
  /\ taken = FALSE
  /\ channel = FALSE
  /\ resetComplete = FALSE
  /\ op = FALSE
  /\ resetOccurred = FALSE
  /\ alive \in BOOLEAN
  /\ outbox = Announcement
  /\ features = {}
  /\ sent = {}
  /\ late = 0
  /\ resets = 0
  /\ drops = 0

-----------------------------------------------------------------------------
(* BNO08x::begin.                                                          *)

(* isConnected: begin returns false if the address is not acknowledged.    *)
Absent ==
  /\ pc = "begin"
  /\ ~alive
  /\ UNCHANGED vars

Detect ==
  /\ pc = "begin"
  /\ alive
  /\ pc' = "open"
  /\ UNCHANGED << back, next, library, sensor, bounds >>

(* sh2_open clears the SH-2 state before it asks for an SHTP instance.     *)
ClearSh2 ==
  /\ channel' = FALSE
  /\ resetComplete' = FALSE
  /\ op' = FALSE

(* getInstance finds none free: sh2_open and begin fail.                   *)
OpenRefused ==
  /\ pc = "open"
  /\ taken
  /\ ClearSh2
  /\ pc' = "begin"
  /\ UNCHANGED << back, next, taken, resetOccurred, sensor, bounds >>

(* shtp_open takes the instance and opens the HAL, which soft-resets the   *)
(* sensor; whether that worked is ignored.                                 *)
Open ==
  /\ pc = "open"
  /\ ~taken
  /\ taken' = TRUE
  /\ ClearSh2
  /\ IF alive THEN outbox' = Announcement /\ features' = {}
              ELSE UNCHANGED << outbox, features >>
  /\ pc' = "await"
  /\ UNCHANGED << back, next, resetOccurred, alive, sent, bounds >>

(* sh2_open returns SH2_OK when the reset was reported, or when it has     *)
(* waited ADVERT_TIMEOUT_US for that.                                      *)
Opened ==
  /\ pc = "await"
  /\ resetComplete
  /\ pc' = "request"
  /\ UNCHANGED << back, next, library, sensor, bounds >>

AwaitTimeout ==
  /\ pc = "await"
  /\ ~resetComplete
  /\ IF alive /\ outbox # << >> THEN late < MaxLate /\ late' = late + 1
                                ELSE UNCHANGED late
  /\ pc' = "request"
  /\ UNCHANGED << back, next, library, sensor, resets, drops >>

(* Mutant: the channel is not checked, nor the status of the operation.    *)
RequestUnsent ==
  /\ pc = "request"
  /\ ~channel
  /\ pc' = "enable"
  /\ UNCHANGED << back, next, library, sensor, bounds >>

(* sh2_getProdIds without a control channel: shtp_send refuses, and begin  *)
(* returns false.                                                          *)
RequestRefused ==
  /\ pc = "request"
  /\ ~channel
  /\ pc' = "begin"
  /\ UNCHANGED << back, next, library, sensor, bounds >>

(* The request is written once the sensor acknowledges it.                 *)
Request ==
  /\ pc = "request"
  /\ channel
  /\ alive
  /\ outbox' = Append(outbox, "prodIds")
  /\ op' = TRUE
  /\ pc' = "identify"
  /\ UNCHANGED << back, next, taken, channel, resetComplete, resetOccurred,
                  alive, features, sent, bounds >>

(* opProcess returns when the last identifier has completed the operation; *)
(* its timeout is 0, so it waits as long as that takes.  begin registers   *)
(* the callback for the reports and returns true.                          *)
Identified ==
  /\ pc = "identify"
  /\ ~op
  /\ pc' = "enable"
  /\ UNCHANGED << back, next, library, sensor, bounds >>

-----------------------------------------------------------------------------
(* Enabling the reports: enableRotationVector, enableGyro,                 *)
(* enableLinearAccelerometer.                                              *)

(* Mutants: a reset is acknowledged once the reports are enabled; the      *)
(* place in the order is not set back.                                     *)
EnableClearsReset ==
  /\ pc = "enable"
  /\ alive
  /\ features' = features \cup {EnableOrder[next]}
  /\ IF next = Len(EnableOrder) THEN next' = 1 /\ pc' = back /\ resetOccurred' = FALSE
                                ELSE next' = next + 1 /\ UNCHANGED << pc, resetOccurred >>
  /\ UNCHANGED << back, taken, channel, resetComplete, op, alive, outbox, sent, bounds >>

EnableRunsOver ==
  /\ pc = "enable"
  /\ alive
  /\ features' = features \cup {EnableOrder[next]}
  /\ next' = next + 1
  /\ IF next = Len(EnableOrder) THEN pc' = back ELSE UNCHANGED pc
  /\ UNCHANGED << back, library, alive, outbox, sent, bounds >>

(* sh2_setSensorConfig writes until the sensor acknowledges; the operation *)
(* is complete as soon as it has started.                                  *)
Enable ==
  /\ pc = "enable"
  /\ alive
  /\ features' = features \cup {EnableOrder[next]}
  /\ IF next = Len(EnableOrder) THEN next' = 1 /\ pc' = back
                                ELSE next' = next + 1 /\ UNCHANGED pc
  /\ UNCHANGED << back, library, alive, outbox, sent, bounds >>

-----------------------------------------------------------------------------
(* The loop of core1_entry.                                                *)

(* The GNSS bytes, and the servo at the end of the turn before.            *)
Turn ==
  /\ pc = "outer"
  /\ pc' = "poll"
  /\ sent' = {}
  /\ UNCHANGED << back, next, library, alive, outbox, features, bounds >>

Readable == alive /\ outbox # << >>

(* What shtp_service does with the message at the head of the queue; a     *)
(* report is for getSensorEvent only, and lost to everyone else.           *)
Deliver ==
  /\ Readable
  /\ outbox' = Tail(outbox)
  /\ channel' = (channel \/ Head(outbox) = "advert")
  /\ resetComplete' = (resetComplete \/ Head(outbox) = "reset")
  /\ resetOccurred' = (resetOccurred \/ Head(outbox) = "reset")
  /\ op' = (op /\ Head(outbox) # "prodIds")
  /\ UNCHANGED << taken, alive, features, sent >>

(* The calls that wait for the sensor, to answer or to acknowledge what is *)
(* written, read what it has queued meanwhile.                             *)
Waiting == pc \in {"await", "identify", "enable"} \/ (pc = "request" /\ channel)

Service ==
  /\ Waiting
  /\ Deliver
  /\ UNCHANGED << pc, back, next, bounds >>

ServiceNothing ==
  /\ Waiting
  /\ ~Readable
  /\ UNCHANGED vars

(* getSensorEvent returns true: a report with a timestamp.                 *)
PollEvent ==
  /\ pc = "poll"
  /\ Readable
  /\ Head(outbox) \in Report
  /\ Deliver
  /\ pc' = "event"
  /\ UNCHANGED << back, next, bounds >>

(* It returns false after any other message, and after a report whose      *)
(* timestamp comes out as 0: the HAL gives it none to count from.          *)
PollNoEvent ==
  /\ pc = "poll"
  /\ Deliver
  /\ pc' = "outer"
  /\ UNCHANGED << back, next, bounds >>

(* Mutant: the read waits until the sensor has something to say.           *)
PollNothingWaits ==
  /\ pc = "poll"
  /\ ~Readable
  /\ UNCHANGED vars

(* The read gives up after two milliseconds.                               *)
PollNothing ==
  /\ pc = "poll"
  /\ ~Readable
  /\ pc' = "outer"
  /\ UNCHANGED << back, next, library, sensor, bounds >>

(* Mutant: the reset is acknowledged only.                                 *)
EventOnlyClears ==
  /\ pc = "event"
  /\ pc' = "poll"
  /\ resetOccurred' = FALSE
  /\ UNCHANGED << back, next, taken, channel, resetComplete, op, sensor, bounds >>

(* The event is handled; if wasReset, the reports are enabled again.       *)
Event ==
  /\ pc = "event"
  /\ IF resetOccurred THEN pc' = "enable" /\ back' = "poll"
                      ELSE pc' = "poll" /\ UNCHANGED back
  /\ resetOccurred' = FALSE
  /\ UNCHANGED << next, taken, channel, resetComplete, op, sensor, bounds >>

-----------------------------------------------------------------------------
(* The sensor.                                                             *)

(* The period of a report is far longer than a turn of the loop of core 1, *)
(* and than the time it takes to read what is queued.                      *)
SendReport ==
  /\ alive
  /\ \E r \in features \ (sent \cup Range(outbox)) :
       outbox' = Append(outbox, r) /\ sent' = sent \cup {r}
  /\ UNCHANGED << pc, back, next, library, alive, features, bounds >>

SensorResets ==
  /\ resets < MaxResets
  /\ resets' = resets + 1
  /\ outbox' = Announcement
  /\ features' = {}
  /\ UNCHANGED << pc, back, next, library, alive, sent, late, drops >>

BusFails ==
  /\ alive
  /\ drops < MaxDrops
  /\ drops' = drops + 1
  /\ alive' = FALSE
  /\ UNCHANGED << pc, back, next, library, outbox, features, sent, late, resets >>

BusReturns ==
  /\ ~alive
  /\ alive' = TRUE
  /\ UNCHANGED << pc, back, next, library, outbox, features, sent, bounds >>

-----------------------------------------------------------------------------

Begin == Absent \/ Detect \/ OpenRefused \/ Open \/ Opened \/ AwaitTimeout
         \/ RequestRefused \/ Request \/ Identified

Poll == Turn \/ PollEvent \/ PollNoEvent \/ PollNothing \/ Event

Core1 == Begin \/ Enable \/ Service \/ ServiceNothing \/ Poll

Sensor == SendReport \/ SensorResets \/ BusFails \/ BusReturns

Next == Core1 \/ Sensor

Spec == Init /\ [][Next]_vars

(* Core 1 never stops; the sensor sends the reports it was told to send,   *)
(* and not every one of them has the timestamp 0.  Nothing is assumed of   *)
(* its resets, nor of the bus.                                             *)
Fairness == WF_vars(Core1) /\ WF_vars(SendReport) /\ SF_vars(PollEvent)

FairSpec == Spec /\ Fairness

-----------------------------------------------------------------------------

TypeOK ==
  /\ pc \in {"begin", "open", "await", "request", "identify", "enable",
             "outer", "poll", "event"}
  /\ back \in {"outer", "poll"}
  /\ next \in 1 .. Len(EnableOrder)
  /\ taken \in BOOLEAN /\ channel \in BOOLEAN /\ resetComplete \in BOOLEAN
  /\ op \in BOOLEAN /\ resetOccurred \in BOOLEAN /\ alive \in BOOLEAN
  /\ outbox \in Seq({"advert", "reset", "prodIds"} \cup Report)
  /\ features \subseteq Report
  /\ sent \subseteq Report
  /\ late \in 0 .. MaxLate
  /\ resets \in 0 .. MaxResets
  /\ drops \in 0 .. MaxDrops

InLoop == pc \in {"outer", "poll", "event"}

(* In its loop core 1 has a session that works: it knows the channel each  *)
(* enabling of a report needs, and no operation is pending, which would    *)
(* have every other one refused.                                           *)
SessionUp == InLoop \/ pc = "enable" => taken /\ channel /\ ~op

(* No reset is forgotten: if the sensor does not send all three reports    *)
(* although core 1 is in its loop, core 1 knows that there was a reset or  *)
(* the notification is still to be read.                                   *)
NoResetForgotten ==
  InLoop /\ features # Report =>
    resetOccurred \/ "reset" \in Range(outbox)

(* The strengthening that makes these two inductive: what begin has by     *)
(* then, that only the product-id request is an operation that waits, and  *)
(* that a report core 1 has enabled already is off only for a reset it     *)
(* will learn of.                                                          *)
ResetToCome == resetOccurred \/ "reset" \in Range(outbox)

BeginProgress ==
  /\ pc \in {"await", "request", "identify"} => taken
  /\ pc = "identify" => channel
  /\ op => pc = "identify"

EnabledSoFar ==
  /\ pc # "enable" => next = 1
  /\ pc = "enable" => ResetToCome \/ \A i \in 1 .. next - 1 : EnableOrder[i] \in features

(* An event seen after a reset notification makes core 1 enable all three  *)
(* reports again.                                                          *)
Quiet == alive /\ resets = MaxResets

EventReconfigures == (pc = "event" /\ resetOccurred /\ []Quiet) ~> features = Report

(* In its loop core 1 is kept from the GNSS bytes and the servo only as    *)
(* long as the bus fails.                                                  *)
LoopGoesOn == (InLoop /\ []alive) ~> pc = "outer"

(* bno08x.cpp, "Returns false if sensor is not detected": a sensor that is *)
(* detected from some time on is initialised.                              *)
DetectedIsInitialised == <>[]alive => <>InLoop

(* bno08x.cpp, "If we see a reset, set a flag so that sensors will be      *)
(* reconfigured."                                                          *)
ResetReconfigures == (InLoop /\ resetOccurred /\ []Quiet) ~> features = Report

=============================================================================
