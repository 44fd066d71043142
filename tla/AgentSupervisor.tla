--------------------------- MODULE AgentSupervisor ---------------------------
(***************************************************************************)
(* Core 0 from reset to the main loop (main of src/main.cpp) and its       *)
(* supervision of the micro-ROS agent: the boot ping loop, the start of    *)
(* core 1, the creation of the session and of the entities (RCABORT), the  *)
(* time-synchronisation loop, and in the main loop the ping of each second *)
(* with the watchdog reboot after three rounds without an answer, and the  *)
(* new synchronisation every thirty seconds.                               *)
(*                                                                         *)
(* The agent and the network are the environment.  The agent answers pings *)
(* when it is reachable; it answers synchronisation and creation requests  *)
(* only if it also knows the session, which a restart makes it forget.     *)
(***************************************************************************)
EXTENDS Naturals

CONSTANTS
  Entities,    (* how many publishers and subscriptions are created        *)
  MaxRestarts, (* how many times the agent may restart: bounds the model   *)
  MaxOutages   (* how often the network may fail: bounds the model         *)

ASSUME BoundsAssumption == {Entities, MaxRestarts, MaxOutages} \subseteq Nat

MaxPingFail == 3

VARIABLES
  phase,      (* where main is                                             *)
  created,    (* entities created                                          *)
  pingFail,   (* ping_fail                                                 *)
  synced,     (* rmw_uros_epoch_synchronized(): without it                 *)
              (* stamp_from_ros_time fails and no sample is published      *)
  queues,     (* queue_init has been called on the three queues            *)
  core1,      (* core 1: off, initialising the IMU, or in its loop         *)
  reachable,  (* the agent runs and the network carries its answers        *)
  session,    (* the agent knows the session of this boot                  *)
  restarts, outages,
  answers     (* ghost: whether the last three ping rounds were answered;  *)
              (* a boot begins as if they had been                         *)

bootVars == << created, pingFail, synced, queues, core1 >>
agentVars == << reachable, session, restarts, outages >>
vars == << phase, bootVars, agentVars, answers >>

(* Mutant: core 1 is launched before the queues are initialised.           *)
AfterLaunchesEarly(p) ==
  CASE p = "net"     -> "waiting"
    [] p = "waiting" -> "launch"
    [] p = "launch"  -> "queues"
    [] p = "queues"  -> "support"
    [] p = "support" -> "node"
    [] p = "node"    -> "sync"
    [] p = "sync"    -> "create"
    [] p = "create"  -> "run"

(* The order of main.                                                      *)
After(p) ==
  CASE p = "net"     -> "waiting"
    [] p = "waiting" -> "queues"
    [] p = "queues"  -> "launch"
    [] p = "launch"  -> "support"
    [] p = "support" -> "node"
    [] p = "node"    -> "sync"
    [] p = "sync"    -> "create"
    [] p = "create"  -> "run"

Phase == {"net", "waiting", "queues", "launch", "support", "node", "sync",
          "create", "run", "reboot"}

Proceed == phase' = After(phase)
Abort   == phase' = "reboot"

(* The agent confirms what the client asks of its session.                 *)
Confirmed == reachable /\ session

Init ==
  /\ phase = "net"
  /\ created = 0
  /\ pingFail = 0
  /\ synced = FALSE
  /\ queues = FALSE
  /\ core1 = "off"
  /\ reachable \in BOOLEAN
  /\ session = FALSE
  /\ restarts = 0
  /\ outages = 0
  /\ answers = << TRUE, TRUE, TRUE >>

-----------------------------------------------------------------------------
(* Boot.                                                                   *)

(* wiznet_init, the transport and the LED.                                 *)
InitNetwork ==
  /\ phase = "net"
  /\ Proceed
  /\ UNCHANGED << bootVars, agentVars, answers >>

(* while (rmw_uros_ping_agent(100, 1) != RCL_RET_OK): the loop ends with   *)
(* the first answer; the extra ping in its body ignores its result.        *)
AgentFound ==
  /\ phase = "waiting"
  /\ reachable
  /\ Proceed
  /\ UNCHANGED << bootVars, agentVars, answers >>

(* The pins, the UARTs and their interrupt, then queue_init.               *)
InitQueues ==
  /\ phase = "queues"
  /\ queues' = TRUE
  /\ Proceed
  /\ UNCHANGED << created, pingFail, synced, core1, agentVars, answers >>

LaunchCore1 ==
  /\ phase = "launch"
  /\ core1' = "imu"
  /\ Proceed
  /\ UNCHANGED << created, pingFail, synced, queues, agentVars, answers >>

(* rclc_support_init opens the session.                                    *)
OpenSession ==
  /\ phase = "support"
  /\ IF reachable THEN Proceed /\ session' = TRUE
                  ELSE Abort /\ UNCHANGED session
  /\ UNCHANGED << bootVars, reachable, restarts, outages, answers >>

CreateNode ==
  /\ phase = "node"
  /\ IF Confirmed THEN Proceed ELSE Abort
  /\ UNCHANGED << bootVars, agentVars, answers >>

(* while (!time_synced): a failed rmw_uros_sync_session is simply retried. *)
SyncTime ==
  /\ phase = "sync"
  /\ Confirmed
  /\ synced' = TRUE
  /\ Proceed
  /\ UNCHANGED << created, pingFail, queues, core1, agentVars, answers >>

SyncRetry ==
  /\ phase = "sync"
  /\ ~Confirmed
  /\ UNCHANGED vars

(* One RCABORT call after the other.                                       *)
Create ==
  /\ phase = "create"
  /\ created < Entities
  /\ IF Confirmed THEN created' = created + 1 /\ UNCHANGED phase
                  ELSE Abort /\ UNCHANGED created
  /\ UNCHANGED << pingFail, synced, queues, core1, agentVars, answers >>

(* Mutant: the main loop is entered with entities missing.                 *)
EnterLoopEarly ==
  /\ phase = "create"
  /\ Proceed
  /\ UNCHANGED << bootVars, agentVars, answers >>

(* The messages and the executor are set up, which asks nothing of the     *)
(* agent, and the main loop begins.                                        *)
EnterLoop ==
  /\ phase = "create"
  /\ created = Entities
  /\ Proceed
  /\ UNCHANGED << bootVars, agentVars, answers >>

-----------------------------------------------------------------------------
(* The main loop.                                                          *)

Recorded(ok) == << answers[2], answers[3], ok >>

(* Mutants: failures are counted since boot; the counter starts again      *)
(* before it is compared; a fourth failure is waited for.                  *)
PingRoundNoReset ==
  /\ phase = "run"
  /\ answers' = Recorded(reachable)
  /\ pingFail' = IF reachable THEN pingFail ELSE pingFail + 1
  /\ IF pingFail' >= MaxPingFail THEN Abort ELSE UNCHANGED phase
  /\ UNCHANGED << created, synced, queues, core1, agentVars >>

PingRoundWraps ==
  /\ phase = "run"
  /\ answers' = Recorded(reachable)
  /\ pingFail' = IF reachable THEN 0 ELSE (pingFail + 1) % MaxPingFail
  /\ IF pingFail' >= MaxPingFail THEN Abort ELSE UNCHANGED phase
  /\ UNCHANGED << created, synced, queues, core1, agentVars >>

PingRoundLate ==
  /\ phase = "run"
  /\ answers' = Recorded(reachable)
  /\ pingFail' = IF reachable THEN 0 ELSE pingFail + 1
  /\ IF pingFail' > MaxPingFail THEN Abort ELSE UNCHANGED phase
  /\ UNCHANGED << created, synced, queues, core1, agentVars >>

(* Each second, up to ten pings, the first answer ending the round; after  *)
(* three rounds without an answer, watchdog_reboot.                        *)
PingRound ==
  /\ phase = "run"
  /\ answers' = Recorded(reachable)
  /\ pingFail' = IF reachable THEN 0 ELSE pingFail + 1
  /\ IF pingFail' >= MaxPingFail THEN Abort ELSE UNCHANGED phase
  /\ UNCHANGED << created, synced, queues, core1, agentVars >>

(* Mutant: what the synchronisation returned is not kept.                  *)
ResyncForgotten ==
  /\ phase = "run"
  /\ synced' \in IF Confirmed THEN {synced} ELSE {synced, FALSE}
  /\ UNCHANGED << phase, created, pingFail, queues, core1, agentVars, answers >>

(* Every thirty seconds, rmw_uros_sync_session.  Its failure is only       *)
(* printed; whether the session then still counts as synchronised is up    *)
(* to the library.                                                         *)
Resync ==
  /\ phase = "run"
  /\ synced' \in IF Confirmed THEN {TRUE} ELSE {synced, FALSE}
  /\ UNCHANGED << phase, created, pingFail, queues, core1, agentVars, answers >>

(* The watchdog resets both cores and all of their memory; main runs again *)
(* from its start.  RCABORT and the main loop come here.                   *)
Reboot ==
  /\ phase = "reboot"
  /\ phase' = "net"
  /\ created' = 0
  /\ pingFail' = 0
  /\ synced' = FALSE
  /\ queues' = FALSE
  /\ core1' = "off"
  /\ session' = FALSE
  /\ answers' = << TRUE, TRUE, TRUE >>
  /\ UNCHANGED << reachable, restarts, outages >>

-----------------------------------------------------------------------------
(* Core 1 has initialised the IMU (this may take any time) and begins to   *)
(* use the queues.                                                         *)
EnterCore1Loop ==
  /\ core1 = "imu"
  /\ core1' = "loop"
  /\ UNCHANGED << phase, created, pingFail, synced, queues, agentVars, answers >>

-----------------------------------------------------------------------------
(* The environment.                                                        *)

AgentRestarts ==
  /\ restarts < MaxRestarts
  /\ restarts' = restarts + 1
  /\ reachable' = FALSE
  /\ session' = FALSE
  /\ UNCHANGED << phase, bootVars, outages, answers >>

NetworkFails ==
  /\ reachable
  /\ outages < MaxOutages
  /\ outages' = outages + 1
  /\ reachable' = FALSE
  /\ UNCHANGED << phase, bootVars, session, restarts, answers >>

Return ==
  /\ ~reachable
  /\ reachable' = TRUE
  /\ UNCHANGED << phase, bootVars, session, restarts, outages, answers >>

-----------------------------------------------------------------------------

Boot == InitNetwork \/ AgentFound \/ InitQueues \/ LaunchCore1 \/ OpenSession
        \/ CreateNode \/ SyncTime \/ SyncRetry \/ Create \/ EnterLoop

Environment == AgentRestarts \/ NetworkFails \/ Return

Next == Boot \/ PingRound \/ Resync \/ Reboot \/ EnterCore1Loop \/ Environment

Spec == Init /\ [][Next]_vars

(* Core 0 keeps running: each call of the boot returns, the timers of the  *)
(* ping and of the synchronisation expire, and the watchdog acts.  Nothing *)
(* is assumed of core 1, nor of the agent and the network.                 *)
Fairness == WF_vars(Boot) /\ WF_vars(PingRound) /\ WF_vars(Resync) /\ WF_vars(Reboot)

FairSpec == Spec /\ Fairness

-----------------------------------------------------------------------------

TypeOK ==
  /\ phase \in Phase
  /\ created \in 0 .. Entities
  /\ pingFail \in 0 .. MaxPingFail
  /\ synced \in BOOLEAN
  /\ queues \in BOOLEAN
  /\ core1 \in {"off", "imu", "loop"}
  /\ reachable \in BOOLEAN
  /\ session \in BOOLEAN
  /\ restarts \in 0 .. MaxRestarts
  /\ outages \in 0 .. MaxOutages
  /\ answers \in BOOLEAN \X BOOLEAN \X BOOLEAN

(* Core 1 and the callbacks of the main loop find the queues initialised.  *)
QueuesBeforeUse == core1 = "loop" \/ phase = "run" => queues

(* No core comes to the queues before they are initialised.  Entities are  *)
(* created once the clock is synchronised; the main loop has every entity  *)
(* of this boot, and was reached with core 1 launched.                     *)
LoopIsReady ==
  /\ QueuesBeforeUse
  /\ phase = "create" => synced
  /\ phase = "run" => created = Entities /\ core1 # "off"

(* The main loop reboots only after three consecutive rounds without an    *)
(* answer: a slow agent that answers now and then is kept.                 *)
RebootJustified ==
  [][phase = "run" /\ phase' = "reboot" =>
       answers' = << FALSE, FALSE, FALSE >>]_vars

(* An agent that goes away for good while the entities are created or in   *)
(* the main loop is noticed: the program reboots and waits for it.         *)
DeadAgentReboots ==
  (phase \in {"support", "node", "create", "run"} /\ []~reachable) ~> phase = "waiting"

(* Once the agent is reachable for good the program ends in its main loop, *)
(* publishing (its clock is synchronised) unless the agent has forgotten   *)
(* the session meanwhile, which no ping tells; or it ends in the           *)
(* time-synchronisation loop with such a session.                          *)
Recovers ==
  <>[]reachable =>
    \/ <>[](phase = "run" /\ (session => synced))
    \/ <>[](phase = "sync" /\ ~session)

(* README.md, "Recuperacion ante fallos": an agent lost after the program  *)
(* connected makes it reboot by watchdog.                                  *)
LostAgentReboots ==
  (phase \notin {"net", "waiting"} /\ []~reachable) ~> phase = "waiting"

-----------------------------------------------------------------------------
(* The inductive invariant.                                                *)

(* What a phase has behind it: from LaunchCore1 on the queues are there,   *)
(* from OpenSession on core 1 runs; nothing is left of the boot before.    *)
BootOrder ==
  /\ phase \notin {"net", "waiting", "queues", "reboot"} => queues
  /\ phase \in {"net", "waiting", "queues", "launch"} => core1 = "off"
  /\ phase \notin {"net", "waiting", "queues", "launch", "reboot"} => core1 # "off"
  /\ core1 # "off" => queues

(* ping_fail never counts a round that was answered.                       *)
FailuresRecorded ==
  /\ pingFail >= 1 => ~answers[3]
  /\ pingFail >= 2 => ~answers[2]
  /\ pingFail >= 3 => phase = "reboot"

IInv == TypeOK /\ LoopIsReady /\ BootOrder /\ FailuresRecorded

=============================================================================
