------------------------------ MODULE MCShellBg ------------------------------
(* An instance of Shell with a background task.                               *)
EXTENDS Shell

CONSTANT t1
MCTasks == {t1}
=============================================================================
