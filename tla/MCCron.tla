------------------------------- MODULE MCCron -------------------------------
(* An instance of Cron for TLC: schedules of every kind.                     *)
EXTENDS Cron, TLC

CONSTANTS p1, p2, t1, t2
MCProcs == {p1, p2}
MCTasks == {t1, t2}
MCByHand == {t1}
MCSchedules ==
    (t1 :> {[kind |-> "daily", at |-> 1], [kind |-> "weekly", day |-> 1, at |-> 0]})
    @@ (t2 :> {[kind |-> "every", n |-> 1]})
Symmetry == Permutations(MCProcs)

\* Nothing is promised once a lock file was removed under another process.
NotStolen == ~stolen
=============================================================================
