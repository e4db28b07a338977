----------------------------- MODULE MemoryRunner -----------------------------
(***************************************************************************)
(* The in-memory task runner (task/memory): a bounded channel feeds a pool *)
(* of workers, and a map keeps the state of every task.  The map, the      *)
(* channel and the cancel functions are three structures without a common  *)
(* lock, so every access to one of them is a step.                         *)
(***************************************************************************)
EXTENDS Naturals, Sequences

CONSTANTS
    Tasks,
    Workers,
    Handled,      \* the tasks whose type has a handler
    QueueSize,    \* capacity of the channel
    ErrOnFull,
    Cancellable,  \* the tasks CancelTask may be called for (bound)
    CleanupOn,    \* the cleanup goroutine runs (bound)
    Stoppable,    \* Run's context may be canceled (bound)
    NoTask

ASSUME MemoryRunnerAssumption ==
    /\ Handled \subseteq Tasks
    /\ Cancellable \subseteq Tasks
    /\ QueueSize \in Nat \ {0}
    /\ ErrOnFull \in BOOLEAN
    /\ CleanupOn \in BOOLEAN
    /\ Stoppable \in BOOLEAN
    /\ NoTask \notin Tasks

VARIABLES
    entry,     \* r.tasks: [Tasks -> Entry]
    canceler,  \* r.cancelFuncs: the tasks that have one
    ctxDone,   \* the tasks whose context is canceled
    queue,     \* r.queue
    call,      \* where the ScheduleTask call of each task is
    cancel,    \* where the CancelTask call of each task is
    pc,        \* what each worker is doing
    cur,       \* the task it took from the channel
    outcome,   \* what the handler returned
    reporting, \* the tasks whose events are still read by a goroutine
    run,       \* where Run is
    doomed     \* idsToDelete of the cleanup goroutine

vars == <<entry, canceler, ctxDone, queue, call, cancel, pc, cur, outcome, reporting, run, doomed>>

workerVars == <<pc, cur, outcome, reporting>>

\* finished: FinishedAt is set.  scheduled: the entry carries the type and
\* scheduled_at that only ScheduleTask writes.
Entry == [status    : {"absent", "unset", "pending", "running", "succeeded", "failed"},
          error     : {"none", "canceled", "queue full", "no handler", "handler"},
          finished  : BOOLEAN,
          scheduled : BOOLEAN]

NoEntry == [status |-> "absent", error |-> "none", finished |-> FALSE, scheduled |-> FALSE]

\* updateState: an entry that is not there is created first, with no status.
Updated(t) == IF entry[t].status = "absent" THEN [NoEntry EXCEPT !.status = "unset"] ELSE entry[t]

UpdateState(t, new) == entry' = [entry EXCEPT ![t] = new]

\* The outcome of a task, as all four places that end one write it.
Ended(t, status, error) ==
    [Updated(t) EXCEPT !.status = status, !.finished = TRUE,
                       !.error = IF status = "failed" THEN error ELSE @]

(***************************************************************************)
(* ScheduleTask                                                            *)
(***************************************************************************)
Schedule(t) ==
    /\ call[t] = "idle"
    /\ UpdateState(t, [Updated(t) EXCEPT !.status = "pending", !.scheduled = TRUE])
    /\ call' = [call EXCEPT ![t] = "pending"]
    /\ UNCHANGED <<canceler, ctxDone, queue, cancel, workerVars, run, doomed>>

Arm(t) ==
    /\ call[t] = "pending"
    /\ canceler' = canceler \union {t}
    /\ call' = [call EXCEPT ![t] = "armed"]
    /\ UNCHANGED <<entry, ctxDone, queue, cancel, workerVars, run, doomed>>

Closed == run \in {"closed", "stopped"}

\* Mutation of Send: the channel holds one more.
SendOneMore(t) ==
    /\ call[t] = "armed"
    /\ ~Closed
    /\ Len(queue) <= QueueSize
    /\ queue' = Append(queue, t)
    /\ call' = [call EXCEPT ![t] = "sent"]
    /\ UNCHANGED <<entry, canceler, ctxDone, cancel, workerVars, run, doomed>>

Send(t) ==
    /\ call[t] = "armed"
    /\ ~Closed
    /\ Len(queue) < QueueSize
    /\ queue' = Append(queue, t)
    /\ call' = [call EXCEPT ![t] = "sent"]
    /\ UNCHANGED <<entry, canceler, ctxDone, cancel, workerVars, run, doomed>>

\* Mutation of SendFull: the task is refused, and queued all the same.
SendFullQueues(t) ==
    /\ call[t] = "armed"
    /\ ErrOnFull
    /\ ~Closed
    /\ Len(queue) = QueueSize
    /\ queue' = Append(queue, t)
    /\ ctxDone' = ctxDone \union {t}
    /\ canceler' = canceler \ {t}
    /\ call' = [call EXCEPT ![t] = "full"]
    /\ UNCHANGED <<entry, cancel, workerVars, run, doomed>>

SendFull(t) ==
    /\ call[t] = "armed"
    /\ ErrOnFull
    /\ ~Closed
    /\ Len(queue) = QueueSize
    /\ ctxDone' = ctxDone \union {t}
    /\ canceler' = canceler \ {t}
    /\ call' = [call EXCEPT ![t] = "full"]
    /\ UNCHANGED <<entry, queue, cancel, workerVars, run, doomed>>

Refuse(t) ==
    /\ call[t] = "full"
    /\ UpdateState(t, Ended(t, "failed", "queue full"))
    /\ call' = [call EXCEPT ![t] = "refused"]
    /\ UNCHANGED <<canceler, ctxDone, queue, cancel, workerVars, run, doomed>>

\* Sending on the channel Run has closed panics, in the caller's goroutine.
SendPanics(t) ==
    /\ call[t] = "armed"
    /\ Closed
    /\ call' = [call EXCEPT ![t] = "panicked"]
    /\ UNCHANGED <<entry, canceler, ctxDone, queue, cancel, workerVars, run, doomed>>

(***************************************************************************)
(* CancelTask                                                              *)
(***************************************************************************)
CancelLoad(t) ==
    /\ t \in Cancellable
    /\ cancel[t] = "idle"
    /\ entry[t].status # "absent"
    /\ cancel' = [cancel EXCEPT ![t] =
                    IF entry[t].status \in {"pending", "running"} THEN "loaded" ELSE "refused"]
    /\ UNCHANGED <<entry, canceler, ctxDone, queue, call, workerVars, run, doomed>>

\* Mutation of CancelContext: a missing cancel function is not an error.
CancelContextAnyway(t) ==
    /\ cancel[t] = "loaded"
    /\ ctxDone' = IF t \in canceler THEN ctxDone \union {t} ELSE ctxDone
    /\ cancel' = [cancel EXCEPT ![t] = "called"]
    /\ UNCHANGED <<entry, canceler, queue, call, workerVars, run, doomed>>

CancelContext(t) ==
    /\ cancel[t] = "loaded"
    /\ IF t \in canceler
       THEN /\ ctxDone' = ctxDone \union {t}
            /\ cancel' = [cancel EXCEPT ![t] = "called"]
       ELSE /\ cancel' = [cancel EXCEPT ![t] = "refused"]
            /\ UNCHANGED ctxDone
    /\ UNCHANGED <<entry, canceler, queue, call, workerVars, run, doomed>>

\* It is not checked again that the task has not ended since CancelLoad.
CancelMark(t) ==
    /\ cancel[t] = "called"
    /\ UpdateState(t, Ended(t, "failed", "canceled"))
    /\ canceler' = canceler \ {t}
    /\ cancel' = [cancel EXCEPT ![t] = "done"]
    /\ UNCHANGED <<ctxDone, queue, call, workerVars, run, doomed>>

(***************************************************************************)
(* The workers                                                             *)
(***************************************************************************)

\* Both branches of the select are ready when the context is done and the
\* channel is not empty, and either may be taken.
Take(w) ==
    /\ run # "new"
    /\ pc[w] = "waiting"
    /\ queue # <<>>
    /\ cur' = [cur EXCEPT ![w] = Head(queue)]
    /\ queue' = Tail(queue)
    /\ pc' = [pc EXCEPT ![w] = "taken"]
    /\ UNCHANGED <<entry, canceler, ctxDone, call, cancel, outcome, reporting, run, doomed>>

\* Mutation of Leave: a worker does not wake up on the closed channel.
LeaveUnlessClosed(w) ==
    /\ run = "stopping"
    /\ pc[w] = "waiting"
    /\ pc' = [pc EXCEPT ![w] = "gone"]
    /\ UNCHANGED <<entry, canceler, ctxDone, queue, call, cancel, cur, outcome, reporting, run, doomed>>

Leave(w) ==
    /\ run \in {"stopping", "closed"}
    /\ pc[w] = "waiting"
    /\ pc' = [pc EXCEPT ![w] = "gone"]
    /\ UNCHANGED <<entry, canceler, ctxDone, queue, call, cancel, cur, outcome, reporting, run, doomed>>

\* A task canceled while it waited in the channel is executed all the same. A
\* goroutine begins to read the events of the handler.
Begin(w) ==
    LET t == cur[w]
    IN  /\ pc[w] = "taken"
        /\ IF t \in Handled
           THEN /\ UpdateState(t, [Updated(t) EXCEPT !.status = "running"])
                /\ pc' = [pc EXCEPT ![w] = "handling"]
                /\ reporting' = reporting \union {t}
           ELSE /\ UpdateState(t, Ended(t, "failed", "no handler"))
                /\ pc' = [pc EXCEPT ![w] = "ending"]
                /\ UNCHANGED reporting
        /\ UNCHANGED <<canceler, ctxDone, queue, call, cancel, cur, outcome, run, doomed>>

\* An event is read; only that it touches the entry is kept. A panic leaves the
\* goroutine behind, with what the handler had sent.
Progress(t) ==
    /\ t \in reporting
    /\ UpdateState(t, Updated(t))
    /\ UNCHANGED <<canceler, ctxDone, queue, call, cancel, workerVars, run, doomed>>

Return(w) ==
    /\ pc[w] = "handling"
    /\ \E o \in {"succeeded", "handler"} \union (IF cur[w] \in ctxDone THEN {"canceled"} ELSE {}) :
          outcome' = [outcome EXCEPT ![w] = o]
    /\ pc' = [pc EXCEPT ![w] = "returned"]
    /\ UNCHANGED <<entry, canceler, ctxDone, queue, call, cancel, cur, reporting, run, doomed>>

\* The events are read to the last one before the outcome is written, but after
\* it when the handler says it was canceled.
Finish(w) ==
    /\ pc[w] = "returned"
    /\ UpdateState(cur[w], IF outcome[w] = "succeeded"
                           THEN Ended(cur[w], "succeeded", "none")
                           ELSE Ended(cur[w], "failed", outcome[w]))
    /\ reporting' = IF outcome[w] = "canceled" THEN reporting ELSE reporting \ {cur[w]}
    /\ pc' = [pc EXCEPT ![w] = "ending"]
    /\ UNCHANGED <<canceler, ctxDone, queue, call, cancel, cur, outcome, run, doomed>>

ToWaiting(w) ==
    /\ pc' = [pc EXCEPT ![w] = "waiting"]
    /\ cur' = [cur EXCEPT ![w] = NoTask]
    /\ outcome' = [outcome EXCEPT ![w] = "none"]

\* The deferred function of executeTask.
End(w) ==
    /\ pc[w] = "ending"
    /\ canceler' = canceler \ {cur[w]}
    /\ reporting' = reporting \ {cur[w]}
    /\ ToWaiting(w)
    /\ UNCHANGED <<entry, ctxDone, queue, call, cancel, run, doomed>>

Panic(w) ==
    /\ pc[w] = "handling"
    /\ canceler' = canceler \ {cur[w]}
    /\ pc' = [pc EXCEPT ![w] = "recovered"]
    /\ UNCHANGED <<entry, ctxDone, queue, call, cancel, cur, outcome, reporting, run, doomed>>

\* Mutation of Recover: the panic is swallowed, and the entry stays running.
RecoverSilently(w) ==
    /\ pc[w] = "recovered"
    /\ ToWaiting(w)
    /\ UNCHANGED <<entry, canceler, ctxDone, queue, call, cancel, reporting, run, doomed>>

Recover(w) ==
    /\ pc[w] = "recovered"
    /\ UpdateState(cur[w], Ended(cur[w], "failed", "handler"))
    /\ ToWaiting(w)
    /\ UNCHANGED <<canceler, ctxDone, queue, call, cancel, reporting, run, doomed>>

(***************************************************************************)
(* Run and its cleanup goroutine                                           *)
(***************************************************************************)
RunMoves(from, to) ==
    /\ run = from
    /\ run' = to
    /\ UNCHANGED <<entry, canceler, ctxDone, queue, call, cancel, workerVars, doomed>>

RunStarts == RunMoves("new", "running")
RunStops  == Stoppable /\ RunMoves("running", "stopping")
RunCloses == RunMoves("stopping", "closed")
\* Mutation of RunReturns: the wait group is not waited for.
RunReturnsAtOnce == RunMoves("closed", "stopped")

RunReturns == (\A w \in Workers : pc[w] = "gone") /\ RunMoves("closed", "stopped")

\* Mutation of CleanupChooses: FinishedAt is not looked at.
CleanupChoosesAny ==
    /\ CleanupOn
    /\ run = "running"
    /\ doomed = {}
    /\ doomed' \in SUBSET {t \in Tasks : entry[t].status # "absent"} \ {{}}
    /\ UNCHANGED <<entry, canceler, ctxDone, queue, call, cancel, workerVars, run>>

\* Entries are chosen by their FinishedAt first, and deleted afterwards.
CleanupChooses ==
    /\ CleanupOn
    /\ run = "running"
    /\ doomed = {}
    /\ doomed' \in SUBSET {t \in Tasks : entry[t].finished} \ {{}}
    /\ UNCHANGED <<entry, canceler, ctxDone, queue, call, cancel, workerVars, run>>

CleanupDeletes(t) ==
    /\ t \in doomed
    /\ UpdateState(t, NoEntry)
    /\ canceler' = canceler \ {t}
    /\ doomed' = doomed \ {t}
    /\ UNCHANGED <<ctxDone, queue, call, cancel, workerVars, run>>

-----------------------------------------------------------------------------
Init ==
    /\ entry = [t \in Tasks |-> NoEntry]
    /\ canceler = {}
    /\ ctxDone = {}
    /\ queue = <<>>
    /\ call = [t \in Tasks |-> "idle"]
    /\ cancel = [t \in Tasks |-> "idle"]
    /\ pc = [w \in Workers |-> "waiting"]
    /\ cur = [w \in Workers |-> NoTask]
    /\ outcome = [w \in Workers |-> "none"]
    /\ reporting = {}
    /\ run = "new"
    /\ doomed = {}

ScheduleGoesOn(t) == Arm(t) \/ Send(t) \/ SendFull(t) \/ Refuse(t) \/ SendPanics(t)
CancelGoesOn(t)   == CancelContext(t) \/ CancelMark(t)
Works(w) == Take(w) \/ Begin(w) \/ Return(w) \/ Finish(w) \/ End(w) \/ Recover(w)
RunGoesOn == RunStarts \/ RunCloses \/ RunReturns

Next ==
    \/ \E t \in Tasks : Schedule(t) \/ ScheduleGoesOn(t) \/ CancelLoad(t) \/ CancelGoesOn(t)
                        \/ CleanupDeletes(t) \/ Progress(t)
    \/ \E w \in Workers : Works(w) \/ Leave(w) \/ Panic(w)
    \/ RunGoesOn \/ RunStops \/ CleanupChooses

Spec == Init /\ [][Next]_vars

\* Goroutines go on, handlers return, and a worker that finds its context done
\* time after time returns at last: select picks among ready cases at random.
\* A full channel may always make its sender wait, whether or not it may refuse
\* it: what is shown under ErrOnFull holds without it.
Fairness ==
    /\ \A t \in Tasks : WF_vars(Arm(t) \/ Send(t) \/ Refuse(t) \/ SendPanics(t)) /\ WF_vars(CancelGoesOn(t))
    /\ \A w \in Workers : WF_vars(Works(w)) /\ SF_vars(Leave(w))
    /\ WF_vars(RunGoesOn)

FairSpec == Spec /\ Fairness

-----------------------------------------------------------------------------
\* Every variable has its type.
TypeOK ==
    /\ entry \in [Tasks -> Entry]
    /\ canceler \subseteq Tasks
    /\ ctxDone \subseteq Tasks
    /\ queue \in Seq(Tasks) /\ Len(queue) <= QueueSize
    /\ call \in [Tasks -> {"idle", "pending", "armed", "sent", "full", "refused", "panicked"}]
    /\ cancel \in [Tasks -> {"idle", "loaded", "called", "done", "refused"}]
    /\ pc \in [Workers -> {"waiting", "taken", "handling", "returned", "ending", "recovered", "gone"}]
    /\ cur \in [Workers -> Tasks \union {NoTask}]
    /\ outcome \in [Workers -> {"none", "succeeded", "handler", "canceled"}]
    /\ reporting \subseteq Tasks
    /\ run \in {"new", "running", "stopping", "closed", "stopped"}
    /\ doomed \subseteq Tasks

Terminal == {"succeeded", "failed"}

Executing(w) == pc[w] \in {"taken", "handling", "returned", "recovered"}

\* A task nobody cancels keeps the promises of TaskLifecycle, whatever
\* is done to the others: it waits, is executed by one worker, and ends once.  A
\* worker that took a task from the channel executes it from the moment it
\* marks it running.  An event read after the cleanup makes an entry without a
\* status again: the task is gone all the same.
Kept == Tasks \ Cancellable

statusBar == [t \in Kept |-> IF entry[t].status \in {"absent", "unset"} /\ call[t] # "idle"
                            THEN "purged" ELSE entry[t].status]

executorsBar ==
    [t \in Kept |-> {w \in Workers : pc[w] \in {"handling", "returned", "recovered"} /\ cur[w] = t}]

Lifecycle == INSTANCE TaskLifecycle WITH
    Tasks <- Kept, status <- statusBar, executors <- executorsBar

LifecycleSpec == Lifecycle!Spec

\* Every task ScheduleTask accepts ends as long as Run goes on: no interleaving
\* of a full channel with the workers, the cancellations and the cleanup loses
\* or blocks one.
AcceptedEnds ==
    \A t \in Tasks : call[t] \in {"armed", "sent"}
                    ~> (entry[t].status \notin {"pending", "running"} \/ run \notin {"new", "running"})

\* A task ScheduleTask refused because the channel was full is never executed.
RefusedNeverRuns ==
    \A t \in Tasks : call[t] \in {"full", "refused"} =>
        /\ \A i \in 1 .. Len(queue) : queue[i] # t
        /\ \A w \in Workers : cur[w] # t

\* The task waits in the channel or is in the hands of a worker that may yet
\* call its handler, or has.
Underway(t) ==
    \/ \E i \in 1 .. Len(queue) : queue[i] = t
    \/ \E w \in Workers : cur[w] = t /\ pc[w] \in {"taken", "handling", "returned"}

\* No handler runs out of reach: while a task waits or is executed, either its
\* context is done already, or CancelTask finds all it needs, an entry in
\* progress and the cancel function, whatever the callers, the cleanup and the
\* late events have done to both meanwhile.
WithinReach ==
    \A t \in Tasks : Underway(t) =>
        t \in ctxDone \/ (t \in canceler /\ entry[t].status \in {"pending", "running"})

\* "CancelTask cancels a scheduled or running task" (task/runner.go:75,
\* amoxtli.go:591): a task it succeeded for does not end as a success. The code
\* does not keep this for a task canceled in the channel.
CanceledStaysCanceled == \A t \in Tasks : cancel[t] = "done" => entry[t].status # "succeeded"

\* When Run returns no handler is running any more and none will start.
StoppedIsQuiet == run = "stopped" => \A w \in Workers : ~Executing(w)

\* Once its context is done Run returns, however many tasks still wait.
RunEnds == run = "stopping" ~> run = "stopped"

\* A task CancelTask succeeded for is over at last and stays so, though it may
\* be marked running once more after it was marked canceled.
CanceledEnds ==
    \A t \in Tasks : cancel[t] = "done"
                    ~> ([](entry[t].status \notin {"pending", "running"}) \/ run \notin {"new", "running"})

\* No call of the runner waits for ever: accepted tasks end while Run goes on,
\* canceled ones for good, and Run returns when it is told to stop.
RunsEnd ==
    /\ AcceptedEnds
    /\ CanceledEnds
    /\ RunEnds
=============================================================================
