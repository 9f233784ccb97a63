---------------------------- MODULE MCSupervisor ----------------------------
(* One extension; a change of its files gives its tool another name, which  *)
(* may be that of a built-in tool.                                          *)
EXTENDS Supervisor, TLC

CONSTANTS e1, t1, t2
OneExt == {e1}
TwoTools == {t1, t2}
ItsTools == e1 :> [v \in 0..MaxChanges |-> IF v % 2 = 0 THEN {t1} ELSE {t2}]
=============================================================================
