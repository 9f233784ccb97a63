----------------------------- MODULE MCAgentRun -----------------------------
(* Instances of AgentRun for TLC: the bounds are in the .cfg files.           *)
EXTENDS AgentRun
=============================================================================
