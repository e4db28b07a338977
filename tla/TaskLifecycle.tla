---------------------------- MODULE TaskLifecycle ----------------------------
(***************************************************************************)
(* What a task runner promises, without rows, leases or processes: the     *)
(* contract of task.Runner (task/runner.go) as its users rely on it.       *)
(*                                                                         *)
(* A task is submitted once, waits, is executed by at most one worker at a *)
(* time, goes back to waiting only when nobody executes it any more, and   *)
(* ends once and for all.  It may end while it is still executed: its      *)
(* executor then goes on until it notices, without effect on the task.     *)
(***************************************************************************)
CONSTANTS Tasks, Workers

VARIABLES status,     \* [Tasks -> status of the task]
          executors   \* [Tasks -> SUBSET Workers]

vars == <<status, executors>>

Ended == {"succeeded", "failed"}

Init ==
    /\ status = [t \in Tasks |-> "absent"]
    /\ executors = [t \in Tasks |-> {}]

\* ScheduleTask, accepted (pending) or refused because the queue is full (failed).
Submit(t, s) ==
    /\ status[t] = "absent"
    /\ s \in {"pending", "failed"}
    /\ status' = [status EXCEPT ![t] = s]
    /\ UNCHANGED executors

\* A worker takes a waiting task.
Take(t, w) ==
    /\ status[t] = "pending"
    /\ executors[t] = {}
    /\ status' = [status EXCEPT ![t] = "running"]
    /\ executors' = [executors EXCEPT ![t] = {w}]

\* A task is reserved for a worker that never hears of it.
TakeInVain(t) ==
    /\ status[t] = "pending"
    /\ status' = [status EXCEPT ![t] = "running"]
    /\ UNCHANGED executors

\* The executor ends a task.
End(t, w, s) ==
    /\ w \in executors[t]
    /\ status[t] = "running"
    /\ s \in Ended
    /\ status' = [status EXCEPT ![t] = s]
    /\ executors' = [executors EXCEPT ![t] = @ \ {w}]

\* Executors leave their tasks without a word: a crash, a lost write, or the
\* task ended without them.
Leave(W) ==
    /\ executors' = [t \in Tasks |-> executors[t] \ W]
    /\ UNCHANGED status

\* Tasks that nobody executes any more wait again.
Requeue(S) ==
    /\ \A t \in S : status[t] = "running" /\ executors[t] = {}
    /\ status' = [t \in Tasks |-> IF t \in S THEN "pending" ELSE status[t]]
    /\ UNCHANGED executors

\* A task that has not ended fails by another hand than its executor's:
\* CancelTask, a channel that is full, a type without a handler.
Abort(t) ==
    /\ status[t] \in {"pending", "running"}
    /\ status' = [status EXCEPT ![t] = "failed"]
    /\ UNCHANGED executors

\* Ended tasks are forgotten.
Purge(S) ==
    /\ \A t \in S : status[t] \in Ended
    /\ status' = [t \in Tasks |-> IF t \in S THEN "purged" ELSE status[t]]
    /\ UNCHANGED executors

Next ==
    \/ \E t \in Tasks : \/ \E s \in {"pending", "failed"} : Submit(t, s)
                        \/ TakeInVain(t)
                        \/ Abort(t)
    \/ \E t \in Tasks, w \in Workers : Take(t, w) \/ \E s \in Ended : End(t, w, s)
    \/ \E W \in SUBSET Workers : Leave(W)
    \/ \E S \in SUBSET Tasks : Requeue(S) \/ Purge(S)

Spec == Init /\ [][Next]_vars
=============================================================================
