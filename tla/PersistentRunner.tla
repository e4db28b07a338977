--------------------------- MODULE PersistentRunner ---------------------------
(***************************************************************************)
(* The persistent task runner (task/gorm).  Several runners, each with a   *)
(* pool of workers, share one database table of tasks.  The table is the   *)
(* only queue: a worker claims a pending row by a conditional update that  *)
(* puts it under a lease of its runner, extends the lease by heartbeats    *)
(* while the handler runs, and writes the outcome only while the row is    *)
(* still leased to its runner.  A row whose lease ran out goes back to     *)
(* pending.  What a runner keeps in memory (the tasks it scheduled, the    *)
(* cancel functions of the ones it runs) is lost when its process stops.   *)
(*                                                                         *)
(* Every access to the database is one step; what a goroutine does in      *)
(* memory between two accesses is part of the step before or after it,     *)
(* unless another goroutine can tell the difference.                       *)
(***************************************************************************)
EXTENDS Integers, FiniteSets

CONSTANTS
    Tasks,          \* task ids; their order is the order of scheduled_at
    Runners,        \* the runners sharing the database (their lease owners)
    Slots,          \* the workers of one runner's pool (r.parallelism)
    CanHandle,      \* [Runners -> SUBSET Tasks]: a handler of its type is registered
    CanRebuild,     \* [Runners -> SUBSET Tasks]: a factory can rebuild it
    LeaseDuration,  \* in ticks of the clock
    MaxGap,         \* longest time a live worker goes without extending its lease
    Batch,          \* claim candidates read by one query
    ErrOnFull,      \* ScheduleTask refuses when the queue is full
    QueueSize,
    Cancellable,    \* the tasks CancelTask may be called for (bound)
    CleanupOn,      \* cleanupExpired runs (bound)
    MaxFaults,      \* crashes, shutdowns and database errors (bound)
    None            \* no runner, no worker, no task

Workers == Runners \X Slots

ASSUME PersistentRunnerAssumption ==
    /\ Tasks \subseteq Nat
    /\ IsFiniteSet(Tasks)
    /\ CanHandle \in [Runners -> SUBSET Tasks]
    /\ CanRebuild \in [Runners -> SUBSET Tasks]
    /\ LeaseDuration \in Nat
    /\ MaxGap \in Nat
    /\ Batch \in Nat
    /\ QueueSize \in Nat
    /\ MaxFaults \in Nat
    /\ ErrOnFull \in BOOLEAN
    /\ CleanupOn \in BOOLEAN
    /\ Cancellable \subseteq Tasks
    /\ None \notin Tasks \union Runners \union Workers

VARIABLES
    row,        \* the table: [Tasks -> Row]
    up,         \* [Runners -> {"up", "draining", "down"}]
    local,      \* r.local: the tasks the runner keeps in memory
    cancelFn,   \* r.cancelFuncs: the worker a task's cancel function stops
    call,       \* where the ScheduleTask call of each task is
    home,       \* the runner ScheduleTask was called on
    cancel,     \* where the CancelTask call of each task is, and on which runner
    pc,         \* what each worker is doing
    cur,        \* the task it has claimed
    cand,       \* the candidates its last query returned and it has not tried
    ctx,        \* context of the running task: "live", "canceled", or "lost"
                \* (canceled by its heartbeat, which then stopped)
    age,        \* ticks since the worker last extended its lease
    outcome,    \* what the handler returned
    old,        \* [Tasks -> {"fresh", "scheduled", "finished"}]: which of
                \* scheduled_at and finished_at lie before the cleanup cutoff
    faults      \* faults so far

vars == <<row, up, local, cancelFn, call, home, cancel, pc, cur, cand, ctx,
          age, outcome, old, faults>>

callVars   == <<call, home>>
workerVars == <<pc, cur, cand, ctx, age, outcome>>
memoryVars == <<local, cancelFn>>

Active   == {"pending", "running"}
Terminal == {"succeeded", "failed"}

\* lease is lease_until minus the present time; a negative one has expired.
\* A row without lease_until counts as expired, as in reclaimExpired.
NoLease == -1

Row == [status : {"absent", "purged"} \union Active \union Terminal,
        owner  : Runners \union {None},
        lease  : NoLease .. LeaseDuration,
        error  : {"none", "canceled", "queue full", "no factory", "handler"}]

CancelCall == [step : {"idle", "checked", "marked", "done", "refused", "lost"},
               at   : Runners \union {None}]

WorkerStep == {"idle", "claiming", "claimed", "ready", "handling", "returned", "recovered",
               "finished"}

Unleased(status, error) ==
    [status |-> status, owner |-> None, lease |-> NoLease, error |-> error]

\* Mutation of Owned: the owner is not compared.
OwnedByAnyone(r, t) == row[t].status = "running"

Owned(r, t) == row[t].status = "running" /\ row[t].owner = r

\* Mutation of FinishOwned: the update is unconditional.
FinishUnconditionally(r, t, status, error) ==
    row' = [row EXCEPT ![t] = Unleased(status, error)]

\* The conditional update of finishOwned: it changes nothing when the row is
\* no longer running under r's lease.
FinishOwned(r, t, status, error) ==
    row' = IF Owned(r, t) THEN [row EXCEPT ![t] = Unleased(status, error)] ELSE row

Pending == {t \in Tasks : row[t].status = "pending"}

Fault == faults < MaxFaults /\ faults' = faults + 1

(***************************************************************************)
(* ScheduleTask: count the pending rows (when the queue is bounded), save  *)
(* the row, then keep the task in memory.                                  *)
(***************************************************************************)
ScheduleCount(r, t) ==
    /\ call[t] = "idle"
    /\ \A u \in Tasks : u < t => call[u] # "idle"
    /\ up[r] # "down"
    /\ home' = [home EXCEPT ![t] = r]
    /\ call' = [call EXCEPT ![t] =
                  IF ErrOnFull /\ Cardinality(Pending) >= QueueSize THEN "full" ELSE "room"]
    /\ UNCHANGED <<row, up, memoryVars, cancel, workerVars, old, faults>>

ScheduleSave(t) ==
    /\ call[t] = "room"
    /\ row' = [row EXCEPT ![t] = Unleased("pending", "none")]
    /\ call' = [call EXCEPT ![t] = "saved"]
    /\ UNCHANGED <<up, memoryVars, home, cancel, workerVars, old, faults>>

ScheduleReject(t) ==
    /\ call[t] = "full"
    /\ row' = [row EXCEPT ![t] = Unleased("failed", "queue full")]
    /\ call' = [call EXCEPT ![t] = "refused"]
    /\ UNCHANGED <<up, memoryVars, home, cancel, workerVars, old, faults>>

ScheduleSaveFails(t) ==
    /\ call[t] \in {"room", "full"}
    /\ Fault
    /\ call' = [call EXCEPT ![t] = "refused"]
    /\ UNCHANGED <<row, up, memoryVars, home, cancel, workerVars, old>>

ScheduleStoreLocal(t) ==
    /\ call[t] = "saved"
    /\ local' = [local EXCEPT ![home[t]] = @ \union {t}]
    /\ call' = [call EXCEPT ![t] = "done"]
    /\ UNCHANGED <<row, up, cancelFn, home, cancel, workerVars, old, faults>>

(***************************************************************************)
(* A worker: claimNext, rebuild, executeTask.                              *)
(***************************************************************************)
Candidates(r) ==
    LET P == Pending \intersect CanHandle[r]
    IN  {t \in P : Cardinality({u \in P : u < t}) < Batch}

\* Worker w goes on with the candidates in C, or back to polling.
NextCandidate(w, C) ==
    /\ cand' = [cand EXCEPT ![w] = C]
    /\ pc' = [pc EXCEPT ![w] = IF C = {} THEN "idle" ELSE "claiming"]

ToIdle(w) ==
    /\ pc' = [pc EXCEPT ![w] = "idle"]
    /\ cur' = [cur EXCEPT ![w] = None]
    /\ cand' = [cand EXCEPT ![w] = {}]
    /\ ctx' = [ctx EXCEPT ![w] = "live"]
    /\ age' = [age EXCEPT ![w] = 0]
    /\ outcome' = [outcome EXCEPT ![w] = "none"]

Poll(w) ==
    /\ up[w[1]] = "up"
    /\ pc[w] = "idle"
    /\ Candidates(w[1]) # {}
    /\ NextCandidate(w, Candidates(w[1]))
    /\ UNCHANGED <<row, up, memoryVars, callVars, cancel, cur, ctx, age, outcome, old, faults>>

IsOldest(t, C) == t \in C /\ \A u \in C : t <= u

\* Mutation of Claim: WHERE status = 'pending' is left out.
ClaimUnguarded(w, t) ==
    /\ up[w[1]] = "up"
    /\ pc[w] = "claiming"
    /\ IsOldest(t, cand[w])
    /\ row' = [row EXCEPT ![t] = [@ EXCEPT !.status = "running", !.owner = w[1],
                                           !.lease = LeaseDuration]]
    /\ pc' = [pc EXCEPT ![w] = "claimed"]
    /\ cur' = [cur EXCEPT ![w] = t]
    /\ cand' = [cand EXCEPT ![w] = @ \ {t}]
    /\ age' = [age EXCEPT ![w] = 0]
    /\ UNCHANGED <<up, memoryVars, callVars, cancel, ctx, outcome, old, faults>>

\* Mutation of Claim: lease_until is not set.
ClaimWithoutLease(w, t) ==
    /\ up[w[1]] = "up"
    /\ pc[w] = "claiming"
    /\ IsOldest(t, cand[w])
    /\ row[t].status = "pending"
    /\ row' = [row EXCEPT ![t] = [@ EXCEPT !.status = "running", !.owner = w[1]]]
    /\ pc' = [pc EXCEPT ![w] = "claimed"]
    /\ cur' = [cur EXCEPT ![w] = t]
    /\ cand' = [cand EXCEPT ![w] = @ \ {t}]
    /\ age' = [age EXCEPT ![w] = 0]
    /\ UNCHANGED <<up, memoryVars, callVars, cancel, ctx, outcome, old, faults>>

\* The conditional update pending -> running finds the row still pending.
Claim(w, t) ==
    /\ up[w[1]] = "up"
    /\ pc[w] = "claiming"
    /\ IsOldest(t, cand[w])
    /\ row[t].status = "pending"
    /\ row' = [row EXCEPT ![t] = [@ EXCEPT !.status = "running", !.owner = w[1],
                                           !.lease = LeaseDuration]]
    /\ pc' = [pc EXCEPT ![w] = "claimed"]
    /\ cur' = [cur EXCEPT ![w] = t]
    /\ cand' = [cand EXCEPT ![w] = @ \ {t}]
    /\ age' = [age EXCEPT ![w] = 0]
    /\ UNCHANGED <<up, memoryVars, callVars, cancel, ctx, outcome, old, faults>>

\* Another worker won the row, or it was canceled, since the query.
ClaimMisses(w, t) ==
    /\ up[w[1]] = "up"
    /\ pc[w] = "claiming"
    /\ IsOldest(t, cand[w])
    /\ row[t].status # "pending"
    /\ NextCandidate(w, cand[w] \ {t})
    /\ UNCHANGED <<row, up, memoryVars, callVars, cancel, cur, ctx, age, outcome, old, faults>>

\* The update commits but its answer is lost: claimNext returns the error and
\* the row stays leased to a runner that does not run it.
ClaimAnswerLost(w, t) ==
    /\ up[w[1]] # "down"
    /\ pc[w] = "claiming"
    /\ IsOldest(t, cand[w])
    /\ row[t].status = "pending"
    /\ Fault
    /\ row' = [row EXCEPT ![t] = [@ EXCEPT !.status = "running", !.owner = w[1],
                                           !.lease = LeaseDuration]]
    /\ NextCandidate(w, {})
    /\ UNCHANGED <<up, memoryVars, callVars, cancel, cur, ctx, age, outcome, old>>

\* The claim fails: Run's context is done, or the database is at fault.
ClaimFails(w) ==
    /\ pc[w] = "claiming"
    /\ \/ up[w[1]] = "draining" /\ UNCHANGED faults
       \/ up[w[1]] = "up" /\ Fault
    /\ NextCandidate(w, {})
    /\ UNCHANGED <<row, up, memoryVars, callVars, cancel, cur, ctx, age, outcome, old>>

Rebuild(w) ==
    /\ pc[w] = "claimed"
    /\ cur[w] \in local[w[1]] \union CanRebuild[w[1]]
    /\ pc' = [pc EXCEPT ![w] = "ready"]
    /\ cand' = [cand EXCEPT ![w] = {}]
    /\ UNCHANGED <<row, up, memoryVars, callVars, cancel, cur, ctx, age, outcome, old, faults>>

\* finishOwned runs under Run's context here: once that is done it fails, as it
\* does when the database is at fault, and the row stays leased.
RebuildFails(w) ==
    /\ pc[w] = "claimed"
    /\ cur[w] \notin local[w[1]] \union CanRebuild[w[1]]
    /\ \/ /\ up[w[1]] = "up"
          /\ FinishOwned(w[1], cur[w], "failed", "no factory")
          /\ NextCandidate(w, cand[w])
          /\ UNCHANGED faults
       \/ /\ up[w[1]] = "up" /\ Fault
          /\ row' = row
          /\ NextCandidate(w, cand[w])
       \/ /\ up[w[1]] # "up"
          /\ row' = row
          /\ NextCandidate(w, {})
          /\ UNCHANGED faults
    /\ cur' = [cur EXCEPT ![w] = None]
    /\ age' = [age EXCEPT ![w] = 0]
    /\ UNCHANGED <<up, memoryVars, callVars, cancel, ctx, outcome, old>>

Start(w) ==
    /\ pc[w] = "ready"
    /\ pc' = [pc EXCEPT ![w] = "handling"]
    /\ cancelFn' = [cancelFn EXCEPT ![w[1]][cur[w]] = w]
    /\ UNCHANGED <<row, up, local, callVars, cancel, cur, cand, ctx, age, outcome, old, faults>>

\* Mutation of Heartbeat: RowsAffected is not looked at.
HeartbeatDeaf(w) ==
    /\ pc[w] \in {"handling", "returned"}
    /\ ctx[w] # "lost"
    /\ age[w] >= LeaseDuration \div 3
    /\ row' = IF Owned(w[1], cur[w]) THEN [row EXCEPT ![cur[w]].lease = LeaseDuration] ELSE row
    /\ age' = [age EXCEPT ![w] = 0]
    /\ UNCHANGED <<up, memoryVars, callVars, cancel, pc, cur, cand, ctx, outcome, old, faults>>

\* The heartbeat ticks every third of the lease, from Start until the deferred
\* function of executeTask; a failed update only leaves age growing.
Heartbeat(w) ==
    /\ pc[w] \in {"handling", "returned"}
    /\ ctx[w] # "lost"
    /\ age[w] >= LeaseDuration \div 3
    /\ IF Owned(w[1], cur[w])
       THEN /\ row' = [row EXCEPT ![cur[w]].lease = LeaseDuration]
            /\ ctx' = ctx
       ELSE /\ row' = row
            /\ ctx' = [ctx EXCEPT ![w] = "lost"]
    /\ age' = [age EXCEPT ![w] = 0]
    /\ UNCHANGED <<up, memoryVars, callVars, cancel, pc, cur, cand, outcome, old, faults>>

\* handler.Handle returns; it may finish its work, or fail, canceled or not.
Return(w) ==
    /\ pc[w] = "handling"
    /\ \E o \in {"succeeded", "handler"} \union (IF ctx[w] # "live" THEN {"canceled"} ELSE {}) :
          outcome' = [outcome EXCEPT ![w] = o]
    /\ pc' = [pc EXCEPT ![w] = "returned"]
    /\ UNCHANGED <<row, up, memoryVars, callVars, cancel, cur, cand, ctx, age, old, faults>>

Finish(w) ==
    /\ pc[w] = "returned"
    /\ IF outcome[w] = "succeeded"
       THEN FinishOwned(w[1], cur[w], "succeeded", "none")
       ELSE FinishOwned(w[1], cur[w], "failed", outcome[w])
    /\ pc' = [pc EXCEPT ![w] = "finished"]
    /\ UNCHANGED <<up, memoryVars, callVars, cancel, cur, cand, ctx, age, outcome, old, faults>>

FinishFails(w) ==
    /\ pc[w] = "returned"
    /\ Fault
    /\ pc' = [pc EXCEPT ![w] = "finished"]
    /\ UNCHANGED <<row, up, memoryVars, callVars, cancel, cur, cand, ctx, age, outcome, old>>

\* Mutation of Forget: the cancel function stays.
ForgetLocalOnly(w) ==
    /\ local' = [local EXCEPT ![w[1]] = @ \ {cur[w]}]
    /\ UNCHANGED cancelFn

\* The deferred function: it forgets the task, whoever runs it now.
Forget(w) ==
    /\ cancelFn' = [cancelFn EXCEPT ![w[1]][cur[w]] = None]
    /\ local' = [local EXCEPT ![w[1]] = @ \ {cur[w]}]

Release(w) ==
    /\ pc[w] = "finished"
    /\ Forget(w)
    /\ ToIdle(w)
    /\ UNCHANGED <<row, up, callVars, cancel, old, faults>>

\* The handler panics: the deferred function forgets the task before it
\* writes the failure.
Panic(w) ==
    /\ pc[w] = "handling"
    /\ Forget(w)
    /\ pc' = [pc EXCEPT ![w] = "recovered"]
    /\ UNCHANGED <<row, up, callVars, cancel, cur, cand, ctx, age, outcome, old, faults>>

Recover(w) ==
    /\ pc[w] = "recovered"
    /\ FinishOwned(w[1], cur[w], "failed", "handler")
    /\ ToIdle(w)
    /\ UNCHANGED <<up, memoryVars, callVars, cancel, old, faults>>

RecoverFails(w) ==
    /\ pc[w] = "recovered"
    /\ Fault
    /\ ToIdle(w)
    /\ UNCHANGED <<row, up, memoryVars, callVars, cancel, old>>

(***************************************************************************)
(* CancelTask: read the row, mark it, then stop the task if it runs here.  *)
(***************************************************************************)
CancelCheck(r, t) ==
    /\ t \in Cancellable
    /\ cancel[t].step = "idle"
    /\ up[r] # "down"
    /\ row[t].status \notin {"absent", "purged"}
    /\ cancel' = [cancel EXCEPT ![t] =
                    [step |-> IF row[t].status \in Active THEN "checked" ELSE "refused",
                     at   |-> r]]
    /\ UNCHANGED <<row, up, memoryVars, callVars, workerVars, old, faults>>

\* Conditional, yet its result is not looked at.
CancelMark(t) ==
    /\ cancel[t].step = "checked"
    /\ row' = IF row[t].status \in Active
              THEN [row EXCEPT ![t] = Unleased("failed", "canceled")] ELSE row
    /\ cancel' = [cancel EXCEPT ![t].step = "marked"]
    /\ UNCHANGED <<up, memoryVars, callVars, workerVars, old, faults>>

CancelFails(t) ==
    /\ cancel[t].step = "checked"
    /\ Fault
    /\ cancel' = [cancel EXCEPT ![t].step = "refused"]
    /\ UNCHANGED <<row, up, memoryVars, callVars, workerVars, old>>

CancelLocal(t) ==
    LET r == cancel[t].at
        w == cancelFn[r][t]
    IN  /\ cancel[t].step = "marked"
        /\ ctx' = IF w # None /\ ctx[w] = "live" THEN [ctx EXCEPT ![w] = "canceled"] ELSE ctx
        /\ local' = [local EXCEPT ![r] = @ \ {t}]
        /\ cancel' = [cancel EXCEPT ![t].step = "done"]
        /\ UNCHANGED <<row, up, cancelFn, callVars, pc, cur, cand, age, outcome, old, faults>>

(***************************************************************************)
(* maintain: reclaimExpired and cleanupExpired.                            *)
(***************************************************************************)
\* Mutation of Expired: every running task is taken back.
ExpiredAnyway(t) == row[t].status = "running"

\* Mutation of Expired: the bound is off by one.
ExpiredTooLate(t) == row[t].status = "running" /\ row[t].lease < NoLease

Expired(t) == row[t].status = "running" /\ row[t].lease < 0

Reclaim(r) ==
    /\ up[r] = "up"
    /\ \E t \in Tasks : Expired(t)
    /\ row' = [t \in Tasks |->
                 IF Expired(t) THEN [row[t] EXCEPT !.status = "pending", !.owner = None]
                 ELSE row[t]]
    /\ UNCHANGED <<up, memoryVars, callVars, cancel, workerVars, old, faults>>

\* Mutation of Cleanup: only the table is cleaned.
CleanupRowsOnly(r) ==
    LET gone == {t \in Tasks : old[t] = "finished" /\ row[t].status \in Terminal}
    IN  /\ up[r] = "up"
        /\ CleanupOn
        /\ gone # {}
        /\ row' = [t \in Tasks |-> IF t \in gone THEN Unleased("purged", "none") ELSE row[t]]
        /\ UNCHANGED <<up, memoryVars, callVars, cancel, workerVars, old, faults>>

Cleanup(r) ==
    LET gone == {t \in Tasks : old[t] = "finished" /\ row[t].status \in Terminal}
        aged == {t \in Tasks : old[t] # "fresh"}
    IN  /\ up[r] = "up"
        /\ CleanupOn
        /\ gone # {} \/ local[r] \intersect aged # {}
        /\ row' = [t \in Tasks |-> IF t \in gone THEN Unleased("purged", "none") ELSE row[t]]
        /\ local' = [local EXCEPT ![r] = @ \ aged]
        /\ UNCHANGED <<up, cancelFn, callVars, cancel, workerVars, old, faults>>

(***************************************************************************)
(* Processes: shutdown lets the workers finish, a crash does not.          *)
(***************************************************************************)
WorkersOf(r) == {w \in Workers : w[1] = r}

Shutdown(r) ==
    /\ up[r] = "up"
    /\ Fault
    /\ up' = [up EXCEPT ![r] = "draining"]
    /\ UNCHANGED <<row, memoryVars, callVars, cancel, workerVars, old>>

\* The process is gone: its memory, its workers and the calls made to it.
Stops(r) ==
    LET mine == WorkersOf(r)
    IN  /\ up' = [up EXCEPT ![r] = "down"]
        /\ local' = [local EXCEPT ![r] = {}]
        /\ cancelFn' = [cancelFn EXCEPT ![r] = [t \in Tasks |-> None]]
        /\ pc' = [w \in Workers |-> IF w \in mine THEN "idle" ELSE pc[w]]
        /\ cur' = [w \in Workers |-> IF w \in mine THEN None ELSE cur[w]]
        /\ cand' = [w \in Workers |-> IF w \in mine THEN {} ELSE cand[w]]
        /\ ctx' = [w \in Workers |-> IF w \in mine THEN "live" ELSE ctx[w]]
        /\ age' = [w \in Workers |-> IF w \in mine THEN 0 ELSE age[w]]
        /\ outcome' = [w \in Workers |-> IF w \in mine THEN "none" ELSE outcome[w]]
        /\ call' = [t \in Tasks |-> IF home[t] = r /\ call[t] \in {"full", "room", "saved"}
                                    THEN "lost" ELSE call[t]]
        /\ cancel' = [t \in Tasks |-> IF cancel[t].at = r /\ cancel[t].step \in {"checked", "marked"}
                                      THEN [cancel[t] EXCEPT !.step = "lost"] ELSE cancel[t]]
        /\ UNCHANGED <<row, home, old>>

\* Run returns once its workers have, and the process exits.
Exit(r) ==
    /\ up[r] = "draining"
    /\ \A w \in WorkersOf(r) : pc[w] = "idle"
    /\ Stops(r)
    /\ UNCHANGED faults

Crash(r) ==
    /\ up[r] # "down"
    /\ Fault
    /\ Stops(r)

Restart(r) ==
    /\ up[r] = "down"
    /\ up' = [up EXCEPT ![r] = "up"]
    /\ UNCHANGED <<row, memoryVars, callVars, cancel, workerVars, old, faults>>

(***************************************************************************)
(* The clock.  A live worker that holds a claim reaches the database at    *)
(* least every MaxGap ticks; nothing else is assumed about its speed.      *)
(***************************************************************************)
Executing(w) == pc[w] \in {"claimed", "ready", "handling", "returned", "recovered"}
Holding(w)   == Executing(w) /\ ctx[w] # "lost"

Tick ==
    /\ \A w \in Workers : Holding(w) => age[w] < MaxGap
    /\ row' = [t \in Tasks |-> IF row[t].status = "running" /\ row[t].lease >= 0
                               THEN [row[t] EXCEPT !.lease = @ - 1] ELSE row[t]]
    /\ age' = [w \in Workers |-> IF Holding(w) THEN age[w] + 1 ELSE age[w]]
    /\ UNCHANGED <<up, memoryVars, callVars, cancel, pc, cur, cand, ctx, outcome, old, faults>>

\* scheduled_at, then finished_at, falls behind the cleanup cutoff.
Ages(t) ==
    /\ CleanupOn
    /\ \/ /\ old[t] = "fresh" /\ call[t] # "idle"
          /\ old' = [old EXCEPT ![t] = "scheduled"]
       \/ /\ old[t] = "scheduled" /\ row[t].status \in Terminal
          /\ old' = [old EXCEPT ![t] = "finished"]
    /\ UNCHANGED <<row, up, memoryVars, callVars, cancel, workerVars, faults>>

-----------------------------------------------------------------------------
Init ==
    /\ row = [t \in Tasks |-> Unleased("absent", "none")]
    /\ up = [r \in Runners |-> "up"]
    /\ local = [r \in Runners |-> {}]
    /\ cancelFn = [r \in Runners |-> [t \in Tasks |-> None]]
    /\ call = [t \in Tasks |-> "idle"]
    /\ home = [t \in Tasks |-> None]
    /\ cancel = [t \in Tasks |-> [step |-> "idle", at |-> None]]
    /\ pc = [w \in Workers |-> "idle"]
    /\ cur = [w \in Workers |-> None]
    /\ cand = [w \in Workers |-> {}]
    /\ ctx = [w \in Workers |-> "live"]
    /\ age = [w \in Workers |-> 0]
    /\ outcome = [w \in Workers |-> "none"]
    /\ old = [t \in Tasks |-> "fresh"]
    /\ faults = 0

ScheduleGoesOn(t) == ScheduleSave(t) \/ ScheduleReject(t) \/ ScheduleStoreLocal(t)
CancelGoesOn(t)   == CancelMark(t) \/ CancelFails(t) \/ CancelLocal(t)

Claims(w) ==
    \/ Poll(w)
    \/ \E t \in Tasks : Claim(w, t) \/ ClaimMisses(w, t)
    \/ ClaimFails(w)
    \/ Rebuild(w)
    \/ RebuildFails(w)

Executes(w) == Start(w) \/ Finish(w) \/ Release(w) \/ Recover(w)

Next ==
    \/ \E r \in Runners, t \in Tasks : ScheduleCount(r, t) \/ CancelCheck(r, t)
    \/ \E t \in Tasks : ScheduleGoesOn(t) \/ ScheduleSaveFails(t) \/ CancelGoesOn(t) \/ Ages(t)
    \/ \E w \in Workers : Claims(w) \/ Executes(w) \/ Return(w) \/ Heartbeat(w) \/ Panic(w)
    \/ \E w \in Workers : FinishFails(w) \/ RecoverFails(w)
                          \/ \E t \in Tasks : ClaimAnswerLost(w, t)
    \/ \E r \in Runners : Reclaim(r) \/ Cleanup(r) \/ Shutdown(r) \/ Exit(r)
                          \/ Crash(r) \/ Restart(r)
    \/ Tick

Spec == Init /\ [][Next]_vars

\* Calls in progress return, workers keep polling, timers fire, and a runner
\* that went down is started again.
Fairness ==
    /\ \A t \in Tasks : WF_vars(ScheduleGoesOn(t)) /\ WF_vars(CancelGoesOn(t)) /\ WF_vars(Ages(t))
    /\ \A w \in Workers : WF_vars(Claims(w)) /\ WF_vars(Executes(w)) /\ WF_vars(Heartbeat(w))
    /\ \A r \in Runners : /\ WF_vars(Reclaim(r)) /\ WF_vars(Cleanup(r))
                          /\ WF_vars(Exit(r)) /\ WF_vars(Restart(r))
    /\ WF_vars(Tick)

\* Handlers come to an end by themselves.
HandlersReturn == \A w \in Workers : WF_vars(Return(w))

FairSpec == Spec /\ Fairness /\ HandlersReturn

\* The runner's own duties do not depend on handlers that return.
StubbornSpec == Spec /\ Fairness

-----------------------------------------------------------------------------
\* Every variable has its type.
TypeOK ==
    /\ row \in [Tasks -> Row]
    /\ up \in [Runners -> {"up", "draining", "down"}]
    /\ local \in [Runners -> SUBSET Tasks]
    /\ cancelFn \in [Runners -> [Tasks -> Workers \union {None}]]
    /\ call \in [Tasks -> {"idle", "room", "full", "saved", "done", "refused", "lost"}]
    /\ home \in [Tasks -> Runners \union {None}]
    /\ cancel \in [Tasks -> CancelCall]
    /\ pc \in [Workers -> WorkerStep]
    /\ cur \in [Workers -> Tasks \union {None}]
    /\ cand \in [Workers -> SUBSET Tasks]
    /\ ctx \in [Workers -> {"live", "canceled", "lost"}]
    /\ age \in [Workers -> 0 .. MaxGap]
    /\ outcome \in [Workers -> {"none", "succeeded", "handler", "canceled"}]
    /\ old \in [Tasks -> {"fresh", "scheduled", "finished"}]
    /\ faults \in 0 .. MaxFaults

\* No task is executed by two workers at a time, as long as live workers reach
\* the database within the lease: whatever crashes, shutdowns, lost answers and
\* cancellations, a claim, a reclaim and a heartbeat never hand the same task
\* to a second worker while the first one still has it.
ExclusiveExecution ==
    \A v, w \in Workers :
        (Executing(v) /\ Executing(w) /\ cur[v] = cur[w]) => v = w

\* What carries it: the worker that has a task either still holds an unexpired
\* lease, renewed at most age ticks ago, or the task ended under it.
Covered(w) ==
    /\ cur[w] \in Tasks
    /\ \/ /\ row[cur[w]].status = "running"
          /\ row[cur[w]].owner = w[1]
          /\ row[cur[w]].lease + age[w] >= LeaseDuration
          /\ ctx[w] # "lost"
       \/ row[cur[w]].status \in Terminal \union {"purged"}

LeaseCovers == \A w \in Workers : Executing(w) => Covered(w)

\* Only a handler that runs can lose its lease to its heartbeat.
LostOnceStarted ==
    \A w \in Workers :
        pc[w] \in {"idle", "claiming", "claimed", "ready"} => ctx[w] # "lost"

\* A row appears only when its ScheduleTask call saves it.
FreshRows ==
    \A t \in Tasks : call[t] \in {"idle", "room", "full"} => row[t].status = "absent"

IInv == TypeOK /\ FreshRows /\ LostOnceStarted /\ LeaseCovers /\ ExclusiveExecution

\* A task that ended stays as it ended until it is purged: neither a late
\* finish, a cancellation, a reclaim nor a claim from an outdated query can
\* bring it back or change its outcome.
TerminalIsFinal ==
    [][\A t \in Tasks : row[t].status \in Terminal =>
          row'[t] \in {row[t], Unleased("purged", "none")}]_vars

\* A task only succeeds by the hand of a worker of the runner that holds its
\* lease and whose own run of the handler succeeded: the outcome of a run that
\* lost its lease to another runner is discarded.
OnlyHolderSucceeds ==
    [][\A t \in Tasks : row[t].status # "succeeded" /\ row'[t].status = "succeeded" =>
          \E w \in Workers : /\ w[1] = row[t].owner /\ cur[w] = t
                             /\ pc[w] = "returned" /\ outcome[w] = "succeeded"]_vars

\* A cancel function stops the worker that runs that task now, never one that
\* has moved on to another task.
CancelFnCurrent ==
    \A r \in Runners, t \in Tasks :
        LET w == cancelFn[r][t]
        IN  w # None => w[1] = r /\ cur[w] = t /\ pc[w] \in {"handling", "returned", "finished"}

\* A handler whose task was canceled, or taken over by another runner, is told
\* to stop, wherever CancelTask was called.
LostTaskIsStopped ==
    \A w \in Workers, t \in Tasks :
        (pc[w] = "handling" /\ cur[w] = t /\ ~Owned(w[1], t))
            ~> (ctx[w] # "live" \/ pc[w] # "handling" \/ Owned(w[1], t))

\* No accepted task is lost: it ends, although runners crash and shut down in
\* the middle of it and database answers get lost.
NoTaskLost ==
    \A t \in Tasks : row[t].status \in Active ~> row[t].status \in Terminal \union {"purged"}

\* Memory of a task does not outlive it for ever, even when it ran elsewhere.
LocalIsDropped ==
    \A r \in Runners, t \in Tasks :
        (t \in local[r] /\ row[t].status \in Terminal) ~> t \notin local[r]

\* How a reader of the table sees the tasks, and the workers that have them.
statusBar == [t \in Tasks |-> row[t].status]

executorsBar == [t \in Tasks |-> {w \in Workers : Executing(w) /\ cur[w] = t}]

\* The runner keeps the promises of TaskLifecycle, a task being executed by the
\* workers that have it.
Lifecycle == INSTANCE TaskLifecycle WITH status <- statusBar, executors <- executorsBar

LifecycleSpec == Lifecycle!Spec
=============================================================================
