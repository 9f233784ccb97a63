-------------------------- MODULE MCAgentLifecycle --------------------------
(* Instances of AgentLifecycle for TLC.                                       *)
EXTENDS AgentLifecycle

CONSTANTS p1, p2
MCCallers == {p1, p2}
=============================================================================
