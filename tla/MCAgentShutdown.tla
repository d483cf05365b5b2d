--------------------------- MODULE MCAgentShutdown ---------------------------
(***************************************************************************)
(* Values for the constants of AgentShutdown: those of MCAgent.            *)
(***************************************************************************)
EXTENDS MCAgent, AgentShutdown
=============================================================================
