------------------------------ MODULE CopPulse ------------------------------
(***************************************************************************)
(* The COP light and its pattern pulse: the subscription callback          *)
(* (subscription_callback_cop and cop_trigger_pattern_pulse), which runs   *)
(* in the executor on core 0, and the alarm that ends a pulse              *)
(* (cop_pattern_off_cb), which interrupts it on the same core.             *)
(*                                                                         *)
(* The alarm callback runs to its end wherever it interrupts, so it is one *)
(* step; each access of the subscription callback to the volatile          *)
(* cop_pattern_alarm, each pin and each call of the alarm pool is a step   *)
(* of its own.  The pool (external) gives a new number to each alarm, and  *)
(* fires an alarm some time after it was added unless it is cancelled      *)
(* first; it has room for more alarms than the firmware ever adds.         *)
(***************************************************************************)
EXTENDS Integers, FiniteSets

CONSTANT MaxPulses   (* how many pulses are started: bounds the model      *)

ASSUME MaxPulsesAssumption == MaxPulses \in Nat

Alarm == 1 .. MaxPulses
None  == -1

VARIABLES
  led,       (* the COP_LED pin                                            *)
  pattern,   (* the COP_PATHERN pin                                        *)
  alarm,     (* cop_pattern_alarm                                          *)
  armed,     (* the alarms in the pool                                     *)
  pc,        (* where the subscription callback is                         *)
  arg,       (* the alarm it is about to cancel                            *)
  resp,      (* COP_resp_msg.data                                          *)
  pulses     (* how many pulses have been started                          *)

vars == << led, pattern, alarm, armed, pc, arg, resp, pulses >>

Init ==
  /\ led = FALSE
  /\ pattern = FALSE
  /\ alarm = None
  /\ armed = {}
  /\ pc = "idle"
  /\ arg = None
  /\ resp = FALSE
  /\ pulses = 0

-----------------------------------------------------------------------------
(* subscription_callback_cop.                                              *)

(* Messages 0 and 1 switch the light.                                      *)
Switch ==
  /\ pc = "idle"
  /\ led' \in BOOLEAN
  /\ resp' = TRUE
  /\ UNCHANGED << pattern, alarm, armed, pc, arg, pulses >>

(* Message 2 while the light is on.                                        *)
Pulse ==
  /\ pc = "idle"
  /\ led
  /\ pulses < MaxPulses
  /\ pc' = "check"
  /\ UNCHANGED << led, pattern, alarm, armed, arg, resp, pulses >>

(* Message 2 while the light is off, or any other message.                 *)
Refuse ==
  /\ pc = "idle"
  /\ resp' = FALSE
  /\ UNCHANGED << led, pattern, alarm, armed, pc, arg, pulses >>

(* cop_trigger_pattern_pulse: is there an alarm?                           *)
Check ==
  /\ pc = "check"
  /\ pc' = IF alarm >= 0 THEN "read" ELSE "on"
  /\ UNCHANGED << led, pattern, alarm, armed, arg, resp, pulses >>

(* cop_pattern_alarm is read again, as the argument of cancel_alarm; the   *)
(* alarm may have fired meanwhile.                                         *)
Read ==
  /\ pc = "read"
  /\ arg' = alarm
  /\ pc' = "cancel"
  /\ UNCHANGED << led, pattern, alarm, armed, resp, pulses >>

(* Mutant: the old alarm is left in the pool.                              *)
CancelNothing ==
  /\ pc = "cancel"
  /\ pc' = "clear"
  /\ UNCHANGED << led, pattern, alarm, armed, arg, resp, pulses >>

(* cancel_alarm, which does nothing if the alarm is not in the pool.       *)
Cancel ==
  /\ pc = "cancel"
  /\ armed' = armed \ {arg}
  /\ pc' = "clear"
  /\ UNCHANGED << led, pattern, alarm, arg, resp, pulses >>

Clear ==
  /\ pc = "clear"
  /\ alarm' = None
  /\ pc' = "on"
  /\ UNCHANGED << led, pattern, armed, arg, resp, pulses >>

(* gpio_put(COP_PATHERN, 1): the pulse begins.                             *)
On ==
  /\ pc = "on"
  /\ pattern' = TRUE
  /\ pulses' = pulses + 1
  /\ pc' = "arm"
  /\ UNCHANGED << led, alarm, armed, arg, resp >>

(* Mutant: a running pulse is not given a new alarm.                       *)
ArmFirstOnly ==
  /\ pc = "arm"
  /\ armed' = IF arg = None THEN armed \cup {pulses} ELSE armed
  /\ pc' = "keep"
  /\ UNCHANGED << led, pattern, alarm, arg, resp, pulses >>

(* add_alarm_in_ms.                                                        *)
Arm ==
  /\ pc = "arm"
  /\ armed' = armed \cup {pulses}
  /\ pc' = "keep"
  /\ UNCHANGED << led, pattern, alarm, arg, resp, pulses >>

(* Mutant: the number of the alarm is not kept.                            *)
StoreForgotten ==
  /\ pc = "keep"
  /\ resp' = TRUE
  /\ pc' = "idle"
  /\ UNCHANGED << led, pattern, alarm, armed, arg, pulses >>

(* Its result is stored, after the alarm itself perhaps, and the response  *)
(* is sent.                                                                *)
Store ==
  /\ pc = "keep"
  /\ alarm' = pulses
  /\ resp' = TRUE
  /\ pc' = "idle"
  /\ UNCHANGED << led, pattern, armed, arg, pulses >>

-----------------------------------------------------------------------------
(* Mutant: the pin is left on.                                             *)
FireKeepsPattern ==
  \E a \in armed :
    /\ armed' = armed \ {a}
    /\ alarm' = None
    /\ UNCHANGED << led, pattern, pc, arg, resp, pulses >>

(* cop_pattern_off_cb.                                                     *)
Fire ==
  \E a \in armed :
    /\ armed' = armed \ {a}
    /\ pattern' = FALSE
    /\ alarm' = None
    /\ UNCHANGED << led, pc, arg, resp, pulses >>

-----------------------------------------------------------------------------

Trigger == Check \/ Read \/ Cancel \/ Clear \/ On \/ Arm \/ Store

Next == Switch \/ Pulse \/ Refuse \/ Trigger \/ Fire

Spec == Init /\ [][Next]_vars

(* A callback that has begun runs to its end, and an alarm fires in time.  *)
Fairness == WF_vars(Trigger) /\ WF_vars(Fire)

FairSpec == Spec /\ Fairness

-----------------------------------------------------------------------------

TypeOK ==
  /\ led \in BOOLEAN /\ pattern \in BOOLEAN /\ resp \in BOOLEAN
  /\ alarm \in Alarm \cup {None}
  /\ arg \in Alarm \cup {None}
  /\ armed \subseteq Alarm /\ Cardinality(armed) <= 1
  /\ pc \in {"idle", "check", "read", "cancel", "clear", "on", "arm", "keep"}
  /\ pulses \in 0 .. MaxPulses

(* The pattern is never on without an alarm that will turn it off, except  *)
(* while a new pulse is between cancelling the old alarm and adding its    *)
(* own.                                                                    *)
PulseHasAlarm == pattern => armed # {} \/ pc \in {"clear", "on", "arm"}

(* No pulse is cut short by the alarm of an earlier one: the pattern goes  *)
(* off only by the alarm of the latest pulse.                              *)
NoPulseCutShort == [][pattern /\ ~pattern' => armed = {pulses}]_vars

(* cop_pattern_alarm may be stale (the alarm fired before its number was   *)
(* stored), but it never misses an alarm: one that is in the pool is the   *)
(* one it names, unless the callback has still to store it.                *)
AlarmKnown == armed # {} => armed = {alarm} \/ pc = "keep"

(* Once the messages stop, the pattern ends up off.                        *)
PatternEnds == <>[]~pattern

-----------------------------------------------------------------------------
(* The inductive invariant.                                                *)

(* Only the latest pulse can have an alarm, none when the next one begins. *)
OneAlarm ==
  /\ armed \subseteq {pulses}
  /\ pc \in {"clear", "on", "arm"} => armed = {}

(* What the callback knows: the alarm it is about to cancel is the one in  *)
(* the pool, if there is any; its pulse is within the bound.               *)
CallbackKnows ==
  /\ pc = "cancel" => armed \subseteq {arg}
  /\ pc \in {"check", "read", "cancel", "clear", "on"} => pulses < MaxPulses
  /\ pc \in {"arm", "keep"} => pulses > 0

IInv == TypeOK /\ PulseHasAlarm /\ AlarmKnown /\ OneAlarm /\ CallbackKnows

=============================================================================
