----------------------------- MODULE MCToolExec -----------------------------
(* An instance of ToolExec for TLC: two calls, one of a tool nobody           *)
(* registered.                                                                *)
EXTENDS ToolExec, TLC

CONSTANTS c1, c2
MCTwo == {c1, c2}
MCOneKnown == {c1}
=============================================================================
