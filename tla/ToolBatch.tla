----------------------------- MODULE ToolBatch -----------------------------
(***************************************************************************)
(* What executeTools (core/tool_executor.go) promises the run loop, without *)
(* goroutines, semaphore, gate or channels: every call ends with one        *)
(* outcome, outcomes become answers one by one and for good, the batch      *)
(* closes when all are in, or when the run was cancelled, and it hands over *)
(* at most one of the bundles of steering messages that tools picked up.    *)
(* ToolExec is shown to implement it.                                       *)
(***************************************************************************)
EXTENDS Sequences

CONSTANTS Calls, Messages

VARIABLES
    queue,      \* steering messages nobody has picked up
    cancelled,  \* the run is cancelled
    outcome,    \* how each call ended, "none" while it has not
    bundles,    \* the bundles that were picked up
    answers,    \* what the batch says of each call so far, "nil" for nothing
    steering,   \* the bundle it hands over
    closed      \* it has returned

vars == <<queue, cancelled, outcome, bundles, answers, steering, closed>>

Init ==
    /\ queue = <<>> /\ cancelled = FALSE
    /\ outcome = [c \in Calls |-> "none"] /\ bundles = {}
    /\ answers = [c \in Calls |-> "nil"] /\ steering = <<>>
    /\ closed = FALSE

\* The user steers or cancels the run.
Ask(m) ==
    /\ queue' = Append(queue, m)
    /\ UNCHANGED <<cancelled, outcome, bundles, answers, steering, closed>>

Cancel ==
    /\ cancelled' = TRUE
    /\ UNCHANGED <<queue, outcome, bundles, answers, steering, closed>>

\* A tool that succeeded picks up all that is queued.
PickUp ==
    /\ queue # <<>> /\ bundles' = bundles \cup {queue} /\ queue' = <<>>
    /\ UNCHANGED <<cancelled, outcome, answers, steering, closed>>

\* A call ends, once; "nil" when its tool was not run.
End(c, r) ==
    /\ outcome[c] = "none" /\ outcome' = [outcome EXCEPT ![c] = r]
    /\ UNCHANGED <<queue, cancelled, bundles, answers, steering, closed>>

\* An open batch learns how a call ended, perhaps with a bundle, of which it
\* keeps the first.
Answer(c) ==
    /\ ~closed /\ answers[c] = "nil" /\ outcome[c] \in {"ok", "error"}
    /\ answers' = [answers EXCEPT ![c] = outcome[c]]
    /\ \/ UNCHANGED steering
       \/ steering = <<>> /\ steering' \in bundles
    /\ UNCHANGED <<queue, cancelled, outcome, bundles, closed>>

\* The batch returns: every call that ended has its answer, and only a
\* cancelled run leaves a call that has not.
Close ==
    /\ ~closed /\ closed' = TRUE
    /\ cancelled \/ \A c \in Calls : \/ answers[c] # "nil" /\ answers[c] = outcome[c]
                                     \/ outcome[c] = "nil"
    /\ answers' = [c \in Calls |-> IF answers[c] = "nil" THEN "cancelled"
                                   ELSE answers[c]]
    /\ UNCHANGED <<queue, cancelled, outcome, bundles, steering>>

Next ==
    \/ \E m \in Messages : Ask(m)
    \/ Cancel
    \/ PickUp
    \/ \E c \in Calls, r \in {"nil", "ok", "error"} : End(c, r)
    \/ \E c \in Calls : Answer(c)
    \/ Close

Spec == Init /\ [][Next]_vars
=============================================================================
