---------------------------- MODULE CopPulseProofs ----------------------------
(***************************************************************************)
(* Proofs about CopPulse, for any number of pulses: the pattern is never   *)
(* left on without an alarm, and no alarm ends a pulse but its own.        *)
(***************************************************************************)
EXTENDS CopPulse, FiniteSetTheorems, TLAPS

(* The pool holds at most one alarm if it holds only the latest.           *)
LEMMA AtMostOne ==
  ASSUME NEW S, NEW e, S \subseteq {e}
  PROVE  Cardinality(S) <= 1
<1>1. CASE S = {}
  BY <1>1, FS_EmptySet
<1>2. CASE S = {e}
  <2>1. Cardinality({e}) = 1
    BY FS_Singleton
  <2> QED
    BY <1>2, <2>1
<1> QED
  BY <1>1, <1>2

(* The state after power-on satisfies the invariant.                       *)
LEMMA InitIInv == Init => IInv
<1> SUFFICES ASSUME Init PROVE IInv
  OBVIOUS
<1>1. Cardinality(armed) <= 1
  BY AtMostOne DEF Init
<1>2. TypeOK
  <2>1. led \in BOOLEAN /\ pattern \in BOOLEAN /\ resp \in BOOLEAN
    BY Zenon DEF Init
  <2>2. pulses \in 0 .. MaxPulses /\ armed \subseteq Alarm
    BY MaxPulsesAssumption DEF Init
  <2> QED
    BY <1>1, <2>1, <2>2 DEF Init, TypeOK
<1> QED
  BY <1>2, MaxPulsesAssumption
  DEF Init, IInv, PulseHasAlarm, AlarmKnown, OneAlarm, CallbackKnows

(* Every step of the callback and of the alarm keeps it.                   *)
LEMMA NextIInv == IInv /\ [Next]_vars => IInv'
<1> SUFFICES ASSUME IInv, [Next]_vars PROVE IInv'
  OBVIOUS
<1> USE MaxPulsesAssumption
    DEF IInv, TypeOK, PulseHasAlarm, AlarmKnown, OneAlarm, CallbackKnows, Alarm, None
<1>1. armed' \subseteq {pulses'} => IInv'
  <2> SUFFICES ASSUME armed' \subseteq {pulses'} PROVE IInv'
    OBVIOUS
  <2>0. Cardinality(armed') <= 1
    BY AtMostOne
  <2>1. CASE Switch
    BY <2>0, <2>1 DEF Switch
  <2>2. CASE Pulse
    BY <2>0, <2>2 DEF Pulse
  <2>3. CASE Refuse
    BY <2>0, <2>3 DEF Refuse
  <2>4. CASE Check
    BY <2>0, <2>4 DEF Check
  <2>5. CASE Read
    BY <2>0, <2>5 DEF Read
  <2>6. CASE Cancel
    BY <2>0, <2>6 DEF Cancel
  <2>7. CASE Clear
    BY <2>0, <2>7 DEF Clear
  <2>8. CASE On
    BY <2>0, <2>8 DEF On
  <2>9. CASE Arm
    BY <2>0, <2>9 DEF Arm
  <2>10. CASE Store
    <3>1. alarm' = pulses /\ armed' = armed /\ pulses' = pulses /\ pc' = "idle"
      BY <2>10 DEF Store
    <3>2. armed = {} \/ armed = {pulses}
      OBVIOUS
    <3>3. AlarmKnown'
      BY <3>1, <3>2
    <3>4. PulseHasAlarm'
      BY <2>10 DEF Store
    <3>5. TypeOK'
      BY <2>0, <2>10 DEF Store
    <3>6. OneAlarm' /\ CallbackKnows'
      BY <3>1
    <3> QED
      BY <3>3, <3>4, <3>5, <3>6
  <2>11. CASE Fire
    BY <2>0, <2>11 DEF Fire
  <2>12. CASE UNCHANGED vars
    BY <2>0, <2>12 DEF vars
  <2> QED
    BY <2>1, <2>2, <2>3, <2>4, <2>5, <2>6, <2>7, <2>8, <2>9, <2>10, <2>11, <2>12
    DEF Next, Trigger
<1>2. armed' \subseteq {pulses'}
  BY DEF Next, Trigger, Switch, Pulse, Refuse, Check, Read, Cancel, Clear, On, Arm, Store, Fire, vars
<1> QED
  BY <1>1, <1>2

LEMMA Invariance == Spec => []IInv
  BY InitIInv, NextIInv, PTL DEF Spec

(* The variables keep their types; the pool never holds two alarms.        *)
THEOREM TypeCorrect == Spec => []TypeOK
<1>1. IInv => TypeOK
  BY DEF IInv
<1> QED
  BY Invariance, <1>1, PTL

(* The pattern pin is never left on with no alarm to turn it off.          *)
THEOREM PatternGuarded == Spec => []PulseHasAlarm
<1>1. IInv => PulseHasAlarm
  BY DEF IInv
<1> QED
  BY Invariance, <1>1, PTL

(* cop_pattern_alarm never misses an alarm that is in the pool.            *)
THEOREM AlarmNeverMissed == Spec => []AlarmKnown
<1>1. IInv => AlarmKnown
  BY DEF IInv
<1> QED
  BY Invariance, <1>1, PTL

(* A pulse is ended by its own alarm only, wherever the alarm interrupt    *)
(* hits the callback that prolongs it.                                     *)
THEOREM OwnAlarmOnly == Spec => NoPulseCutShort
<1> DEFINE Ends == pattern /\ ~pattern' => armed = {pulses}
<1>1. IInv /\ [Next]_vars => [Ends]_vars
  <2> SUFFICES ASSUME IInv, Next, pattern, ~pattern' PROVE armed = {pulses}
    OBVIOUS
  <2>1. Fire
    BY DEF Next, Trigger, Switch, Pulse, Refuse, Check, Read, Cancel, Clear, On, Arm, Store
  <2>2. PICK a \in armed : TRUE
    BY <2>1 DEF Fire
  <2> QED
    BY <2>2 DEF IInv, OneAlarm
<1> QED
  BY Invariance, <1>1, PTL DEF Spec, NoPulseCutShort

=============================================================================
