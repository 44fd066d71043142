------------------------ MODULE AgentSupervisorProofs ------------------------
(***************************************************************************)
(* Proofs about AgentSupervisor, for every number of entities and every    *)
(* number of agent restarts and network failures: its type invariant, its  *)
(* safety invariants, and that a reboot of the main loop is justified.     *)
(***************************************************************************)
EXTENDS AgentSupervisor, TLAPS

(* The order of main, phase by phase.                                      *)
LEMMA BootSequence ==
  /\ After("net") = "waiting"    /\ After("waiting") = "queues"
  /\ After("queues") = "launch"  /\ After("launch") = "support"
  /\ After("support") = "node"   /\ After("node") = "sync"
  /\ After("sync") = "create"    /\ After("create") = "run"
  BY DEF After

LEMMA Constants == Entities \in Nat /\ MaxRestarts \in Nat /\ MaxOutages \in Nat
  BY BoundsAssumption

(* What the invariant says of a state that differs only in the agent.      *)
LEMMA AgentStep ==
  ASSUME IInv, UNCHANGED << phase, bootVars, answers >>,
         reachable' \in BOOLEAN, session' \in BOOLEAN,
         restarts' \in 0 .. MaxRestarts, outages' \in 0 .. MaxOutages
  PROVE  IInv'
  BY DEF IInv, TypeOK, LoopIsReady, QueuesBeforeUse, BootOrder, FailuresRecorded, bootVars

(* A boot that begins satisfies the invariant.                             *)
LEMMA FreshBoot ==
  ASSUME phase = "net", created = 0, pingFail = 0, synced = FALSE, queues = FALSE,
         core1 = "off", session = FALSE, answers = << TRUE, TRUE, TRUE >>,
         reachable \in BOOLEAN, restarts \in 0 .. MaxRestarts, outages \in 0 .. MaxOutages
  PROVE  IInv
<1>1. /\ synced \in BOOLEAN /\ queues \in BOOLEAN /\ session \in BOOLEAN
      /\ << TRUE, TRUE, TRUE >> \in BOOLEAN \X BOOLEAN \X BOOLEAN
  BY Zenon
<1>2. phase \in Phase /\ created \in 0 .. Entities /\ pingFail \in 0 .. MaxPingFail
  BY Constants DEF Phase, MaxPingFail
<1>3. TypeOK
  BY <1>1, <1>2 DEF TypeOK
<1>4. QED
  BY <1>3 DEF IInv, LoopIsReady, QueuesBeforeUse, BootOrder, FailuresRecorded

LEMMA InitIInv == Init => IInv
<1> SUFFICES ASSUME Init PROVE IInv
  OBVIOUS
<1>1. restarts \in 0 .. MaxRestarts /\ outages \in 0 .. MaxOutages
  BY Constants DEF Init
<1>2. QED
  BY <1>1, FreshBoot, Zenon DEF Init

(* The steps that take main from one phase of the boot to the next.        *)
LEMMA BootIInv == IInv /\ Boot => IInv'
<1> SUFFICES ASSUME IInv, Boot PROVE IInv'
  OBVIOUS
<1> USE DEF IInv, TypeOK, LoopIsReady, QueuesBeforeUse, BootOrder, FailuresRecorded,
           bootVars, agentVars, Proceed, Phase
<1>1. CASE InitNetwork
  BY <1>1, BootSequence DEF InitNetwork
<1>2. CASE AgentFound
  BY <1>2, BootSequence DEF AgentFound
<1>3. CASE InitQueues
  BY <1>3, BootSequence DEF InitQueues
<1>4. CASE LaunchCore1
  BY <1>4, BootSequence DEF LaunchCore1
<1>5. CASE OpenSession
  <2>1. CASE reachable
    BY <1>5, <2>1, BootSequence DEF OpenSession
  <2>2. CASE ~reachable
    BY <1>5, <2>2 DEF OpenSession, Abort
  <2>3. QED
    BY <2>1, <2>2
<1>6. CASE CreateNode
  BY <1>6, BootSequence DEF CreateNode, Abort
<1>7. CASE SyncTime
  BY <1>7, BootSequence DEF SyncTime
<1>8. CASE SyncRetry
  BY <1>8 DEF SyncRetry, vars
<1>9. CASE Create
  <2>1. created' \in 0 .. Entities
    BY <1>9, Constants DEF Create
  <2>2. QED
    BY <1>9, <2>1 DEF Create, Abort
<1>10. CASE EnterLoop
  BY <1>10, BootSequence DEF EnterLoop
<1>11. QED
  BY <1>1, <1>2, <1>3, <1>4, <1>5, <1>6, <1>7, <1>8, <1>9, <1>10 DEF Boot

LEMMA PingIInv == IInv /\ PingRound => IInv'
<1> SUFFICES ASSUME IInv, PingRound PROVE IInv'
  OBVIOUS
<1> USE DEF IInv
<1>1. pingFail \in 0 .. MaxPingFail - 1
  BY DEF PingRound, TypeOK, FailuresRecorded, MaxPingFail
<1>2. answers' \in BOOLEAN \X BOOLEAN \X BOOLEAN /\ answers'[2] = answers[3]
      /\ answers'[3] = reachable
  BY DEF PingRound, Recorded, TypeOK
<1>3. /\ pingFail' = IF reachable THEN 0 ELSE pingFail + 1
      /\ pingFail' \in 0 .. MaxPingFail
      /\ phase' = IF pingFail' >= MaxPingFail THEN "reboot" ELSE "run"
      /\ UNCHANGED << created, synced, queues, core1, agentVars >>
  BY <1>1 DEF PingRound, Abort, MaxPingFail
<1>4. TypeOK'
  BY <1>2, <1>3 DEF TypeOK, agentVars, Phase
<1>5. LoopIsReady' /\ BootOrder'
  BY <1>3 DEF PingRound, LoopIsReady, QueuesBeforeUse, BootOrder
<1>6. FailuresRecorded'
  BY <1>1, <1>2, <1>3 DEF FailuresRecorded, MaxPingFail
<1>7. QED
  BY <1>4, <1>5, <1>6

(* The invariant is inductive.                                             *)
LEMMA NextIInv == IInv /\ [Next]_vars => IInv'
<1> SUFFICES ASSUME IInv, [Next]_vars PROVE IInv'
  OBVIOUS
<1> USE DEF IInv, bootVars, agentVars
<1>1. CASE Resync
  <2>1. synced' \in BOOLEAN
    BY <1>1 DEF Resync, TypeOK
  <2>2. QED
    BY <1>1, <2>1 DEF Resync, TypeOK, LoopIsReady, QueuesBeforeUse, BootOrder,
                      FailuresRecorded
<1>2. CASE Reboot
  <2>1. /\ synced' \in BOOLEAN /\ queues' \in BOOLEAN /\ session' \in BOOLEAN
        /\ answers' \in BOOLEAN \X BOOLEAN \X BOOLEAN
    BY <1>2, Zenon DEF Reboot
  <2>2. phase' \in Phase /\ created' \in 0 .. Entities /\ pingFail' \in 0 .. MaxPingFail
    BY <1>2, Constants DEF Reboot, Phase, MaxPingFail
  <2>3. TypeOK'
    BY <1>2, <2>1, <2>2 DEF Reboot, TypeOK
  <2>4. QED
    BY <1>2, <2>3 DEF Reboot, LoopIsReady, QueuesBeforeUse, BootOrder, FailuresRecorded
<1>3. CASE EnterCore1Loop
  BY <1>3 DEF EnterCore1Loop, TypeOK, LoopIsReady, QueuesBeforeUse, BootOrder,
              FailuresRecorded
<1>4. CASE AgentRestarts
  <2>1. UNCHANGED << phase, bootVars, answers >>
    BY <1>4 DEF AgentRestarts
  <2>2. reachable' \in BOOLEAN /\ session' \in BOOLEAN
    BY <1>4, Zenon DEF AgentRestarts, TypeOK
  <2>3. restarts' \in 0 .. MaxRestarts /\ outages' \in 0 .. MaxOutages
    BY <1>4, Constants DEF AgentRestarts, TypeOK
  <2>4. QED
    BY <2>1, <2>2, <2>3, AgentStep
<1>5. CASE NetworkFails
  <2>1. UNCHANGED << phase, bootVars, answers >>
    BY <1>5 DEF NetworkFails
  <2>2. reachable' \in BOOLEAN /\ session' \in BOOLEAN
    BY <1>5, Zenon DEF NetworkFails, TypeOK
  <2>3. restarts' \in 0 .. MaxRestarts /\ outages' \in 0 .. MaxOutages
    BY <1>5, Constants DEF NetworkFails, TypeOK
  <2>4. QED
    BY <2>1, <2>2, <2>3, AgentStep
<1>6. CASE Return
  <2>1. UNCHANGED << phase, bootVars, answers >>
    BY <1>6 DEF Return
  <2>2. reachable' \in BOOLEAN /\ session' \in BOOLEAN
    BY <1>6, Zenon DEF Return, TypeOK
  <2>3. restarts' \in 0 .. MaxRestarts /\ outages' \in 0 .. MaxOutages
    BY <1>6, Constants DEF Return, TypeOK
  <2>4. QED
    BY <2>1, <2>2, <2>3, AgentStep
<1>7. CASE UNCHANGED vars
  <2>1. UNCHANGED << phase, bootVars, answers >>
    BY <1>7 DEF vars
  <2>2. reachable' \in BOOLEAN /\ session' \in BOOLEAN
    BY <1>7, Zenon DEF vars, TypeOK
  <2>3. restarts' \in 0 .. MaxRestarts /\ outages' \in 0 .. MaxOutages
    BY <1>7, Constants DEF vars, TypeOK
  <2>4. QED
    BY <2>1, <2>2, <2>3, AgentStep
<1>8. QED
  BY <1>1, <1>2, <1>3, <1>4, <1>5, <1>6, <1>7, BootIInv, PingIInv DEF Next, Environment

LEMMA Invariance == Spec => []IInv
  BY InitIInv, NextIInv, PTL DEF Spec

(* The type invariant, for every value of the constants.                   *)
THEOREM TypeCorrect == Spec => []TypeOK
<1>1. IInv => TypeOK
  BY DEF IInv
<1>2. QED
  BY <1>1, Invariance, PTL

(* Neither core ever uses a queue before queue_init, in no boot.           *)
THEOREM QueuesReady == Spec => []QueuesBeforeUse
<1>1. IInv => QueuesBeforeUse
  BY DEF IInv, QueuesBeforeUse, BootOrder
<1>2. QED
  BY <1>1, Invariance, PTL

(* The main loop is only reached with every entity of this boot.           *)
THEOREM LoopReady == Spec => []LoopIsReady
<1>1. IInv => LoopIsReady
  BY DEF IInv
<1>2. QED
  BY <1>1, Invariance, PTL

(* However the agent and the network behave, the main loop reboots only    *)
(* after three consecutive ping rounds without an answer.                  *)
THEOREM RebootOnlyWhenSilent == Spec => RebootJustified
<1>1. ASSUME IInv, [Next]_vars, phase = "run", phase' = "reboot"
      PROVE  answers' = << FALSE, FALSE, FALSE >>
  <2>1. PingRound
    BY <1>1, BootSequence
       DEF Next, Boot, InitNetwork, AgentFound, InitQueues, LaunchCore1, OpenSession,
           CreateNode, SyncTime, SyncRetry, Create, EnterLoop, Resync, Reboot,
           EnterCore1Loop, Environment, AgentRestarts, NetworkFails, Return, vars
  <2>2. pingFail' >= MaxPingFail
    BY <1>1, <2>1 DEF PingRound
  <2>3. ~reachable /\ pingFail >= 2
    BY <1>1, <2>1, <2>2 DEF PingRound, MaxPingFail, IInv, TypeOK
  <2>4. reachable = FALSE /\ answers[2] = FALSE /\ answers[3] = FALSE
    BY <1>1, <2>3 DEF IInv, TypeOK, FailuresRecorded
  <2>5. QED
    BY <2>1, <2>4 DEF PingRound, Recorded
<1>2. IInv /\ [Next]_vars =>
        [phase = "run" /\ phase' = "reboot" => answers' = << FALSE, FALSE, FALSE >>]_vars
  BY <1>1
<1>3. QED
  BY <1>2, Invariance, PTL DEF Spec, RebootJustified

=============================================================================
