-------------------------- MODULE MCAgentSupervisor --------------------------
(* AgentSupervisor with three creation calls instead of fifteen, three     *)
(* restarts of the agent and three network failures: each can hit any      *)
(* phase, also of the boot after a reboot.                                 *)
EXTENDS AgentSupervisor

=============================================================================
