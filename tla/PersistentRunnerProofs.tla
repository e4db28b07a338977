------------------------ MODULE PersistentRunnerProofs ------------------------
(***************************************************************************)
(* Proofs about PersistentRunner, for every number of tasks, runners and   *)
(* workers, every lease duration and every number of faults.               *)
(***************************************************************************)
EXTENDS PersistentRunner, TLAPS

USE DEF WorkerStep, CancelCall

\* The leases the code writes: none, a full one, one tick less.
LEMMA LeaseRange ==
    /\ NoLease \in NoLease .. LeaseDuration
    /\ LeaseDuration \in NoLease .. LeaseDuration
    /\ \A l \in NoLease .. LeaseDuration : l >= 0 => l - 1 \in NoLease .. LeaseDuration
  BY PersistentRunnerAssumption DEF NoLease

\* The counters start within their bounds and stay there.
LEMMA CounterRange ==
    /\ 0 \in 0 .. MaxGap
    /\ 0 \in 0 .. MaxFaults
    /\ \A n \in 0 .. MaxGap : n < MaxGap => n + 1 \in 0 .. MaxGap
    /\ \A n \in 0 .. MaxFaults : n < MaxFaults => n + 1 \in 0 .. MaxFaults
  BY PersistentRunnerAssumption

\* The rows the code writes are rows.
LEMMA UnleasedRow ==
    ASSUME NEW s \in {"absent", "purged"} \union Active \union Terminal,
           NEW e \in {"none", "canceled", "queue full", "no factory", "handler"}
    PROVE  Unleased(s, e) \in Row
  BY LeaseRange DEF Unleased, Row

\* What claim writes is a row.
LEMMA LeasedRow ==
    ASSUME NEW x \in Row, NEW r \in Runners
    PROVE  [x EXCEPT !.status = "running", !.owner = r, !.lease = LeaseDuration] \in Row
  BY LeaseRange DEF Row, Active

\* What a heartbeat or a tick of the clock writes is a row.
LEMMA LeaseUpdate ==
    ASSUME NEW x \in Row, NEW l \in NoLease .. LeaseDuration
    PROVE  [x EXCEPT !.lease = l] \in Row
  BY DEF Row

\* What reclaimExpired writes is a row.
LEMMA RequeuedRow ==
    ASSUME NEW x \in Row
    PROVE  [x EXCEPT !.status = "pending", !.owner = None] \in Row
  BY DEF Row, Active

\* Every variable keeps its type: in particular leases stay within
\* LeaseDuration and no live worker exceeds MaxGap.
LEMMA TypeInit == Init => TypeOK
<1> SUFFICES ASSUME Init PROVE TypeOK
  OBVIOUS
<1>1. row \in [Tasks -> Row]
  <2>1. Unleased("absent", "none") \in Row
    BY UnleasedRow
  <2> QED
    BY <2>1 DEF Init
<1>2. age \in [Workers -> 0 .. MaxGap] /\ faults \in 0 .. MaxFaults
  BY CounterRange DEF Init
<1> QED
  BY <1>1, <1>2 DEF Init, TypeOK

\* The steps of ScheduleTask keep the types.
LEMMA ScheduleType ==
    ASSUME TypeOK, NEW t \in Tasks,
           \/ \E r \in Runners : ScheduleCount(r, t)
           \/ ScheduleGoesOn(t) \/ ScheduleSaveFails(t)
    PROVE  TypeOK'
<1>1. ASSUME NEW r \in Runners, ScheduleCount(r, t)
      PROVE  TypeOK'
  BY <1>1 DEF TypeOK, ScheduleCount, memoryVars, workerVars
<1>2. CASE ScheduleSave(t)
  BY <1>2, UnleasedRow DEF TypeOK, ScheduleSave, memoryVars, workerVars, Active
<1>3. CASE ScheduleReject(t)
  BY <1>3, UnleasedRow DEF TypeOK, ScheduleReject, memoryVars, workerVars, Terminal
<1>4. CASE ScheduleSaveFails(t)
  BY <1>4, CounterRange DEF TypeOK, ScheduleSaveFails, Fault, memoryVars, workerVars
<1>5. CASE ScheduleStoreLocal(t)
  BY <1>5 DEF TypeOK, ScheduleStoreLocal, memoryVars, workerVars
<1> QED
  BY <1>1, <1>2, <1>3, <1>4, <1>5 DEF ScheduleGoesOn

\* A row that keeps its place in the table: what FinishOwned writes.
LEMMA FinishOwnedType ==
    ASSUME TypeOK, NEW r \in Runners, NEW t \in Tasks \union {None},
           NEW s \in Terminal, NEW e \in {"none", "canceled", "no factory", "handler"},
           FinishOwned(r, t, s, e)
    PROVE  row' \in [Tasks -> Row]
  BY UnleasedRow DEF TypeOK, FinishOwned

\* Going on with the remaining candidates keeps the types of a worker.
LEMMA NextCandidateType ==
    ASSUME TypeOK, NEW w \in Workers, NEW C \in SUBSET Tasks, NextCandidate(w, C)
    PROVE  /\ cand' \in [Workers -> SUBSET Tasks]
           /\ pc' \in [Workers -> WorkerStep]
  BY DEF TypeOK, NextCandidate

\* The steps of claimNext keep the types, an update whose answer is lost included.
LEMMA ClaimsType ==
    ASSUME TypeOK, NEW w \in Workers,
           Claims(w) \/ \E t \in Tasks : ClaimAnswerLost(w, t)
    PROVE  TypeOK'
<1> USE DEF NextCandidate, memoryVars, callVars
<1>1. CASE Poll(w)
  BY <1>1 DEF TypeOK, Poll, Candidates, Pending
<1>2. ASSUME NEW t \in Tasks, Claim(w, t)
      PROVE  TypeOK'
  BY <1>2, LeasedRow, CounterRange DEF TypeOK, Claim, Workers
<1>3. ASSUME NEW t \in Tasks, ClaimMisses(w, t)
      PROVE  TypeOK'
  BY <1>3 DEF TypeOK, ClaimMisses
<1>4. ASSUME NEW t \in Tasks, ClaimAnswerLost(w, t)
      PROVE  TypeOK'
  BY <1>4, LeasedRow, CounterRange DEF TypeOK, ClaimAnswerLost, Fault, Workers
<1>5. CASE ClaimFails(w)
  BY <1>5, CounterRange DEF TypeOK, ClaimFails, Fault
<1>6. CASE Rebuild(w)
  BY <1>6 DEF TypeOK, Rebuild
<1>7. CASE RebuildFails(w)
  <2>1. row' \in [Tasks -> Row]
    BY <1>7, FinishOwnedType DEF TypeOK, RebuildFails, Terminal, Workers
  <2>2. /\ cand' \in [Workers -> SUBSET Tasks]
        /\ pc' \in [Workers -> WorkerStep]
    <3>1. cand[w] \in SUBSET Tasks /\ {} \in SUBSET Tasks
      BY DEF TypeOK
    <3>2. NextCandidate(w, cand[w]) \/ NextCandidate(w, {})
      BY <1>7 DEF RebuildFails
    <3> QED
      BY <3>1, <3>2, NextCandidateType
  <2>3. /\ cur' \in [Workers -> Tasks \union {None}]
        /\ age' \in [Workers -> 0 .. MaxGap]
    BY <1>7, CounterRange DEF TypeOK, RebuildFails
  <2>4. faults' \in 0 .. MaxFaults
    <3>1. faults' = faults \/ Fault
      BY <1>7 DEF RebuildFails
    <3> QED
      BY <3>1, CounterRange DEF TypeOK, Fault
  <2>5. UNCHANGED <<up, local, cancelFn, call, home, cancel, ctx, outcome, old>>
    BY <1>7 DEF RebuildFails
  <2> QED
    BY <2>1, <2>2, <2>3, <2>4, <2>5 DEF TypeOK
<1> QED
  BY <1>1, <1>2, <1>3, <1>4, <1>5, <1>6, <1>7 DEF Claims

\* The steps of executeTask and of its heartbeat keep the types.
LEMMA ExecutesType ==
    ASSUME TypeOK, NEW w \in Workers,
           \/ Executes(w) \/ Return(w) \/ Heartbeat(w) \/ Panic(w)
           \/ FinishFails(w) \/ RecoverFails(w)
    PROVE  TypeOK'
<1> USE DEF memoryVars, callVars
<1>0. w[1] \in Runners /\ cur[w] \in Tasks \union {None}
  BY DEF TypeOK, Workers
<1>1. CASE Start(w)
  BY <1>1 DEF TypeOK, Start
<1>2. CASE Heartbeat(w)
  <2>1. row' \in [Tasks -> Row]
    <3>1. CASE Owned(w[1], cur[w])
      <4>1. cur[w] \in Tasks => [row[cur[w]] EXCEPT !.lease = LeaseDuration] \in Row
        BY LeaseRange, LeaseUpdate DEF TypeOK
      <4> QED
        BY <1>0, <1>2, <3>1, <4>1 DEF TypeOK, Heartbeat
    <3> QED
      BY <1>2, <3>1 DEF TypeOK, Heartbeat
  <2>2. /\ ctx' \in [Workers -> {"live", "canceled", "lost"}]
        /\ age' \in [Workers -> 0 .. MaxGap]
    BY <1>2, CounterRange DEF TypeOK, Heartbeat
  <2> QED
    BY <1>2, <2>1, <2>2 DEF TypeOK, Heartbeat
<1>3. CASE Return(w)
  BY <1>3 DEF TypeOK, Return
<1>4. CASE Finish(w)
  <2>1. row' \in [Tasks -> Row]
    <3>1. outcome[w] = "succeeded" => FinishOwned(w[1], cur[w], "succeeded", "none")
      BY <1>4 DEF Finish
    <3>2. outcome[w] # "succeeded" => /\ FinishOwned(w[1], cur[w], "failed", outcome[w])
                                      /\ outcome[w] \in {"none", "canceled", "handler"}
      BY <1>4 DEF TypeOK, Finish
    <3> QED
      BY <1>0, <3>1, <3>2, FinishOwnedType DEF Terminal
  <2> QED
    BY <1>4, <2>1 DEF TypeOK, Finish
<1>5. CASE FinishFails(w)
  BY <1>5, CounterRange DEF TypeOK, FinishFails, Fault
<1>6. CASE Release(w)
  BY <1>6, CounterRange DEF TypeOK, Release, Forget, ToIdle
<1>7. CASE Panic(w)
  BY <1>7 DEF TypeOK, Panic, Forget
<1>8. CASE Recover(w)
  <2>1. row' \in [Tasks -> Row]
    BY <1>0, <1>8, FinishOwnedType DEF Recover, Terminal
  <2> QED
    BY <1>8, <2>1, CounterRange DEF TypeOK, Recover, ToIdle
<1>9. CASE RecoverFails(w)
  BY <1>9, CounterRange DEF TypeOK, RecoverFails, Fault, ToIdle
<1> QED
  BY <1>1, <1>2, <1>3, <1>4, <1>5, <1>6, <1>7, <1>8, <1>9 DEF Executes

\* The steps of CancelTask keep the types.
LEMMA CancelType ==
    ASSUME TypeOK, NEW t \in Tasks,
           (\E r \in Runners : CancelCheck(r, t)) \/ CancelGoesOn(t)
    PROVE  TypeOK'
<1> USE DEF memoryVars, callVars, workerVars
<1>0. ASSUME NEW s \in {"marked", "done", "refused"}
      PROVE  [cancel EXCEPT ![t].step = s] \in [Tasks -> CancelCall]
  <2>1. cancel \in [Tasks -> CancelCall]
    BY DEF TypeOK
  <2>2. [cancel[t] EXCEPT !.step = s] \in CancelCall
    BY <2>1 DEF CancelCall
  <2> QED
    BY <2>1, <2>2
<1>1. ASSUME NEW r \in Runners, CancelCheck(r, t)
      PROVE  TypeOK'
  BY <1>1 DEF TypeOK, CancelCheck
<1>2. CASE CancelMark(t)
  <2>1. Unleased("failed", "canceled") \in Row
    BY UnleasedRow DEF Terminal
  <2>2. row' \in [Tasks -> Row]
    BY <1>2, <2>1 DEF TypeOK, CancelMark
  <2>3. cancel' \in [Tasks -> CancelCall]
    BY <1>0, <1>2 DEF CancelMark
  <2> QED
    BY <1>2, <2>2, <2>3 DEF TypeOK, CancelMark
<1>3. CASE CancelLocal(t)
  <2>1. cancel' \in [Tasks -> CancelCall]
    BY <1>0, <1>3 DEF CancelLocal
  <2>2. ctx' \in [Workers -> {"live", "canceled", "lost"}]
    BY <1>3 DEF TypeOK, CancelLocal
  <2>3. local' \in [Runners -> SUBSET Tasks]
    BY <1>3 DEF TypeOK, CancelLocal
  <2> QED
    BY <1>3, <2>1, <2>2, <2>3 DEF TypeOK, CancelLocal
<1>4. CASE CancelFails(t)
  <2>1. cancel' \in [Tasks -> CancelCall]
    BY <1>0, <1>4 DEF CancelFails
  <2>2. faults' \in 0 .. MaxFaults
    BY <1>4, CounterRange DEF TypeOK, CancelFails, Fault
  <2> QED
    BY <1>4, <2>1, <2>2 DEF TypeOK, CancelFails
<1> QED
  BY <1>1, <1>2, <1>3, <1>4 DEF CancelGoesOn

\* reclaimExpired and cleanupExpired keep the types.
LEMMA MaintainType ==
    ASSUME TypeOK, NEW r \in Runners, Reclaim(r) \/ Cleanup(r)
    PROVE  TypeOK'
<1> USE DEF memoryVars, callVars, workerVars
<1>1. CASE Reclaim(r)
  BY <1>1, RequeuedRow DEF TypeOK, Reclaim
<1>2. CASE Cleanup(r)
  <2>1. Unleased("purged", "none") \in Row
    BY UnleasedRow
  <2> QED
    BY <1>2, <2>1 DEF TypeOK, Cleanup
<1> QED
  BY <1>1, <1>2

\* The clock keeps the types: leases only run down to NoLease, and ages stop at
\* MaxGap.
LEMMA ClockType ==
    ASSUME TypeOK, Tick \/ \E t \in Tasks : Ages(t)
    PROVE  TypeOK'
<1> USE DEF memoryVars, callVars, workerVars
<1>3. CASE Tick
  <2>1. row' \in [Tasks -> Row]
    <3>1. \A t \in Tasks : row[t].lease >= 0 => [row[t] EXCEPT !.lease = @ - 1] \in Row
      <4>1. \A t \in Tasks : row[t] \in Row /\ row[t].lease \in NoLease .. LeaseDuration
        BY DEF TypeOK, Row
      <4> QED
        BY <4>1, LeaseRange, LeaseUpdate
    <3> QED
      BY <1>3, <3>1 DEF TypeOK, Tick
  <2>2. age' \in [Workers -> 0 .. MaxGap]
    BY <1>3, CounterRange DEF TypeOK, Tick
  <2> QED
    BY <1>3, <2>1, <2>2 DEF TypeOK, Tick
<1>4. ASSUME NEW t \in Tasks, Ages(t)
      PROVE  TypeOK'
  <2>1. old' = [old EXCEPT ![t] = "scheduled"] \/ old' = [old EXCEPT ![t] = "finished"]
    BY <1>4 DEF Ages
  <2>2. old' \in [Tasks -> {"fresh", "scheduled", "finished"}]
    BY <2>1 DEF TypeOK
  <2> QED
    BY <1>4, <2>2 DEF TypeOK, Ages
<1> QED
  BY <1>3, <1>4

\* Shutdowns, crashes and restarts keep the types.
LEMMA ProcessType ==
    ASSUME TypeOK, NEW r \in Runners,
           Shutdown(r) \/ Exit(r) \/ Crash(r) \/ Restart(r)
    PROVE  TypeOK'
<1> USE DEF memoryVars, callVars, workerVars
<1>1. CASE Shutdown(r)
  BY <1>1, CounterRange DEF TypeOK, Shutdown, Fault
<1>2. CASE Restart(r)
  BY <1>2 DEF TypeOK, Restart
<1>3. ASSUME Stops(r), faults' \in 0 .. MaxFaults
      PROVE  TypeOK'
  <2>1. /\ up' \in [Runners -> {"up", "draining", "down"}]
        /\ local' \in [Runners -> SUBSET Tasks]
        /\ cancelFn' \in [Runners -> [Tasks -> Workers \union {None}]]
        /\ row' \in [Tasks -> Row]
        /\ home' \in [Tasks -> Runners \union {None}]
        /\ old' \in [Tasks -> {"fresh", "scheduled", "finished"}]
    BY <1>3 DEF TypeOK, Stops
  <2>2. /\ pc' \in [Workers -> WorkerStep]
        /\ cur' \in [Workers -> Tasks \union {None}]
        /\ cand' \in [Workers -> SUBSET Tasks]
        /\ ctx' \in [Workers -> {"live", "canceled", "lost"}]
        /\ outcome' \in [Workers -> {"none", "succeeded", "handler", "canceled"}]
    BY <1>3 DEF TypeOK, Stops
  <2>3. age' \in [Workers -> 0 .. MaxGap]
    BY <1>3, CounterRange DEF TypeOK, Stops
  <2>4. call' \in [Tasks -> {"idle", "room", "full", "saved", "done", "refused", "lost"}]
    BY <1>3 DEF TypeOK, Stops
  <2>5. cancel' \in [Tasks -> CancelCall]
    <3>1. \A c \in CancelCall : [c EXCEPT !.step = "lost"] \in CancelCall
      BY DEF CancelCall
    <3> QED
      BY <1>3, <3>1 DEF TypeOK, Stops
  <2> QED
    BY <1>3, <2>1, <2>2, <2>3, <2>4, <2>5 DEF TypeOK
<1>4. CASE Exit(r)
  BY <1>3, <1>4 DEF TypeOK, Exit
<1>5. CASE Crash(r)
  BY <1>3, <1>5, CounterRange DEF TypeOK, Crash, Fault
<1> QED
  BY <1>1, <1>2, <1>4, <1>5

\* Every step keeps the types.
LEMMA TypeNext == TypeOK /\ [Next]_vars => TypeOK'
<1> SUFFICES ASSUME TypeOK, [Next]_vars PROVE TypeOK'
  OBVIOUS
<1>1. CASE Next
  BY <1>1, ScheduleType, CancelType, ClaimsType, ExecutesType, MaintainType, ClockType,
     ProcessType DEF Next
<1>2. CASE UNCHANGED vars
  BY <1>2 DEF vars, memoryVars, callVars, workerVars, TypeOK
<1> QED
  BY <1>1, <1>2

\* Type correctness of the runner, for every instance.
THEOREM TypeCorrect == Spec => []TypeOK
<1>1. Init => TypeOK
  BY TypeInit
<1>2. TypeOK /\ [Next]_vars => TypeOK'
  BY TypeNext
<1> QED
  BY <1>1, <1>2, PTL DEF Spec

-----------------------------------------------------------------------------
(* Rows that have not been saved and rows that ended. *)

Early == {"idle", "room", "full"}

\* What no step may do to a row: touch it before it is saved, or change it
\* once it ended other than by purging it, once.
Settled(t) ==
    /\ row[t].status = "absent" /\ call'[t] \in Early => row'[t] = row[t]
    /\ row[t].status \in Terminal => row'[t] \in {row[t], Unleased("purged", "none")}
    /\ row[t].status = "purged" => row'[t] = row[t]
    /\ call'[t] \in Early => call[t] \in Early

\* finishOwned leaves every row alone that is not running.
LEMMA FinishOwnedSettles ==
    ASSUME TypeOK, NEW r \in Runners, NEW t, NEW s, NEW e, FinishOwned(r, t, s, e)
    PROVE  \A u \in Tasks : row[u].status # "running" => row'[u] = row[u]
  BY DEF TypeOK, FinishOwned, Owned

\* finishOwned changes a row only to end it.
LEMMA FinishOwnedEnds ==
    ASSUME TypeOK, NEW r \in Runners, NEW t, NEW s \in Terminal, NEW e, FinishOwned(r, t, s, e)
    PROVE  \A u \in Tasks : row'[u] = row[u] \/ row'[u].status \in Terminal
  BY DEF TypeOK, FinishOwned, Unleased

\* No step changes a row that has ended, except to purge it, nor a purged one;
\* and a ScheduleTask call that has saved its row never does so again.
LEMMA SettledRows == TypeOK /\ FreshRows /\ [Next]_vars => \A u \in Tasks : Settled(u)
<1> SUFFICES ASSUME TypeOK, FreshRows, [Next]_vars, NEW u \in Tasks
             PROVE  Settled(u)
  OBVIOUS
<1> USE DEF Settled, Early, Terminal, memoryVars, callVars, workerVars
<1>0. ASSUME row' = row, call' = call PROVE Settled(u)
  BY <1>0
<1>1. ASSUME NEW t \in Tasks,
             \/ \E r \in Runners : ScheduleCount(r, t)
             \/ ScheduleGoesOn(t) \/ ScheduleSaveFails(t)
      PROVE  Settled(u)
  <2>1. ASSUME NEW r \in Runners, ScheduleCount(r, t) PROVE Settled(u)
    BY <2>1 DEF ScheduleCount, TypeOK
  <2>2. CASE ScheduleSave(t)
    BY <2>2 DEF ScheduleSave, TypeOK, FreshRows
  <2>3. CASE ScheduleReject(t)
    BY <2>3 DEF ScheduleReject, TypeOK, FreshRows
  <2>4. CASE ScheduleStoreLocal(t)
    BY <2>4 DEF ScheduleStoreLocal, TypeOK
  <2>5. CASE ScheduleSaveFails(t)
    BY <2>5 DEF ScheduleSaveFails, TypeOK
  <2> QED
    BY <1>1, <2>1, <2>2, <2>3, <2>4, <2>5 DEF ScheduleGoesOn
<1>2. ASSUME NEW t \in Tasks, (\E r \in Runners : CancelCheck(r, t)) \/ CancelGoesOn(t)
      PROVE  Settled(u)
  <2>1. CASE CancelMark(t)
    BY <2>1 DEF CancelMark, TypeOK, Active
  <2> QED
    BY <1>0, <1>2, <2>1 DEF CancelGoesOn, CancelCheck, CancelFails, CancelLocal
<1>3. ASSUME NEW w \in Workers, Claims(w) \/ \E t \in Tasks : ClaimAnswerLost(w, t)
      PROVE  Settled(u)
  <2>1. ASSUME NEW t \in Tasks, Claim(w, t) \/ ClaimAnswerLost(w, t) PROVE Settled(u)
    BY <2>1 DEF Claim, ClaimAnswerLost, TypeOK
  <2>2. CASE RebuildFails(w)
    <3>1. row[u].status # "running" => row'[u] = row[u]
      BY <2>2, FinishOwnedSettles DEF RebuildFails, Workers
    <3> QED
      BY <2>2, <3>1 DEF RebuildFails
  <2> QED
    BY <1>0, <1>3, <2>1, <2>2 DEF Claims, Poll, ClaimMisses, ClaimFails, Rebuild
<1>4. ASSUME NEW w \in Workers,
             \/ Executes(w) \/ Return(w) \/ Heartbeat(w) \/ Panic(w)
             \/ FinishFails(w) \/ RecoverFails(w)
      PROVE  Settled(u)
  <2>1. CASE Heartbeat(w)
    BY <2>1 DEF Heartbeat, Owned, TypeOK
  <2>2. CASE Finish(w) \/ Recover(w)
    <3>1. row[u].status # "running" => row'[u] = row[u]
      BY <2>2, FinishOwnedSettles DEF Finish, Recover, Workers
    <3> QED
      BY <2>2, <3>1 DEF Finish, Recover
  <2> QED
    BY <1>0, <1>4, <2>1, <2>2 DEF Executes, Start, Return, Panic, FinishFails, Release, RecoverFails
<1>5. ASSUME NEW r \in Runners,
             Reclaim(r) \/ Cleanup(r) \/ Shutdown(r) \/ Exit(r) \/ Crash(r) \/ Restart(r)
      PROVE  Settled(u)
  <2>1. CASE Reclaim(r)
    BY <2>1 DEF Reclaim, Expired
  <2>2. CASE Cleanup(r)
    BY <2>2 DEF Cleanup
  <2>3. CASE Exit(r) \/ Crash(r)
    BY <2>3 DEF Exit, Crash, Stops
  <2> QED
    BY <1>0, <1>5, <2>1, <2>2, <2>3 DEF Shutdown, Restart
<1>6. CASE Tick
  BY <1>6 DEF Tick
<1>7. ASSUME NEW t \in Tasks, Ages(t) PROVE Settled(u)
  BY <1>0, <1>7 DEF Ages
<1>8. CASE UNCHANGED vars
  BY <1>0, <1>8 DEF vars
<1> QED
  BY <1>1, <1>2, <1>3, <1>4, <1>5, <1>6, <1>7, <1>8 DEF Next

\* A row appears only by the save of its ScheduleTask call.
LEMMA FreshNext == TypeOK /\ FreshRows /\ [Next]_vars => FreshRows'
  BY SettledRows DEF FreshRows, Settled, Early

\* A task that ended never comes back and never changes its outcome: whatever
\* the leases, delays and faults, neither a late finish nor a cancellation, a
\* reclaim or a claim from an outdated query touches it.
THEOREM TerminalFinal == Spec => TerminalIsFinal
<1>1. Init => TypeOK /\ FreshRows
  BY TypeInit DEF Init, FreshRows, Unleased
<1>2. TypeOK /\ FreshRows /\ [Next]_vars => TypeOK' /\ FreshRows'
  BY TypeNext, FreshNext
<1>3. TypeOK /\ FreshRows /\ [Next]_vars =>
        [\A t \in Tasks : row[t].status \in Terminal =>
            row'[t] \in {row[t], Unleased("purged", "none")}]_vars
  BY SettledRows DEF Settled
<1> QED
  BY <1>1, <1>2, <1>3, PTL DEF Spec, TerminalIsFinal

-----------------------------------------------------------------------------
(***************************************************************************)
(* Exclusive execution.  The lease of a task that is executed was renewed  *)
(* age ticks ago, so at least LeaseDuration - age of it remains; and no    *)
(* live worker lets age exceed MaxGap.  If MaxGap <= LeaseDuration a lease *)
(* never expires under its worker, a reclaim never touches its row, and a  *)
(* claim only finds rows that nobody executes.                             *)
(***************************************************************************)

\* What a step may do to a worker that goes on executing its task.
LEMMA CoverKept ==
    ASSUME IInv, [Next]_vars, NEW v \in Workers, Executing(v), cur'[v] = cur[v],
           Covered(v) /\ row[cur[v]].status = "running" =>
              \/ /\ row'[cur[v]] = row[cur[v]]
                 /\ age'[v] = age[v]
                 /\ ctx'[v] # "lost"
              \/ row'[cur[v]].status \in Terminal \union {"purged"}
    PROVE  Covered(v)'
<1>1. Covered(v)
  BY DEF IInv, LeaseCovers
<1>2. CASE row[cur[v]].status = "running"
  BY <1>1, <1>2 DEF Covered, Terminal
<1>3. CASE row[cur[v]].status \in Terminal \union {"purged"}
  BY <1>1, <1>3, SettledRows DEF IInv, Covered, Settled, Unleased
<1> QED
  BY <1>1, <1>2, <1>3 DEF Covered

\* A context is lost only once the handler has been started.
LEMMA LostNext == IInv /\ [Next]_vars => LostOnceStarted'
<1> SUFFICES ASSUME IInv, [Next]_vars, NEW v \in Workers,
                    pc'[v] \in {"idle", "claiming", "claimed", "ready"}
             PROVE  ctx'[v] # "lost"
  BY DEF LostOnceStarted
<1> USE DEF IInv, TypeOK, LostOnceStarted, memoryVars, callVars, workerVars, NextCandidate
<1>1. ASSUME pc' = pc, ctx' = ctx PROVE ctx'[v] # "lost"
  BY <1>1
<1>2. ASSUME NEW t \in Tasks, CancelGoesOn(t) PROVE ctx'[v] # "lost"
  BY <1>2 DEF CancelGoesOn, CancelMark, CancelFails, CancelLocal
<1>3. ASSUME NEW w \in Workers, Claims(w) \/ \E t \in Tasks : ClaimAnswerLost(w, t)
      PROVE  ctx'[v] # "lost"
  <2>1. ctx' = ctx
    BY ONLY <1>3 DEF Claims, Poll, Claim, ClaimMisses, ClaimFails, Rebuild, RebuildFails,
                     ClaimAnswerLost
  <2>2. pc[w] \in {"idle", "claiming", "claimed"}
    BY ONLY <1>3 DEF Claims, Poll, Claim, ClaimMisses, ClaimFails, Rebuild, RebuildFails,
                     ClaimAnswerLost
  <2>3. \E s : pc' = [pc EXCEPT ![w] = s]
    BY ONLY <1>3 DEF Claims, Poll, Claim, ClaimMisses, ClaimFails, Rebuild, RebuildFails,
                     ClaimAnswerLost, NextCandidate
  <2>4. v # w => pc'[v] = pc[v]
    BY <2>3
  <2> QED
    BY <2>1, <2>2, <2>4
<1>4. ASSUME NEW w \in Workers,
             \/ Executes(w) \/ Return(w) \/ Heartbeat(w) \/ Panic(w)
             \/ FinishFails(w) \/ RecoverFails(w)
      PROVE  ctx'[v] # "lost"
  <2>1. CASE Heartbeat(w)
    BY <2>1 DEF Heartbeat
  <2> QED
    BY <1>4, <2>1 DEF Executes, Start, Return, Panic, Finish, FinishFails, Release, Recover,
                      RecoverFails, ToIdle
<1>5. ASSUME NEW r \in Runners, Exit(r) \/ Crash(r) PROVE ctx'[v] # "lost"
  BY <1>5 DEF Exit, Crash, Stops
<1>6. ASSUME NEW t \in Tasks,
             \/ \E r \in Runners : ScheduleCount(r, t) \/ CancelCheck(r, t)
             \/ ScheduleGoesOn(t) \/ ScheduleSaveFails(t) \/ Ages(t)
      PROVE  ctx'[v] # "lost"
  BY <1>1, <1>6 DEF ScheduleGoesOn, ScheduleCount, CancelCheck, ScheduleSave, ScheduleReject,
                    ScheduleStoreLocal, ScheduleSaveFails, Ages
<1>7. ASSUME NEW r \in Runners, Reclaim(r) \/ Cleanup(r) \/ Shutdown(r) \/ Restart(r)
      PROVE  ctx'[v] # "lost"
  BY <1>1, <1>7 DEF Reclaim, Cleanup, Shutdown, Restart
<1>8. CASE Tick \/ UNCHANGED vars
  BY <1>1, <1>8 DEF Tick, vars
<1> QED
  BY <1>2, <1>3, <1>4, <1>5, <1>6, <1>7, <1>8 DEF Next

\* The lease of a covered worker has not expired, when its age is within the lease.
LEMMA CoveredUnexpired ==
    ASSUME TypeOK, MaxGap <= LeaseDuration, NEW v \in Workers, Covered(v)
    PROVE  ~Expired(cur[v])
<1>1. /\ age[v] \in 0 .. MaxGap
      /\ row[cur[v]].lease \in NoLease .. LeaseDuration
  BY DEF TypeOK, Row, Covered
<1> QED
  BY <1>1, PersistentRunnerAssumption DEF Covered, Expired, Terminal, NoLease

\* Every step keeps the lease of a worker that executes a task: this is where
\* MaxGap <= LeaseDuration is needed, for the reclaim.
LEMMA CoverNext ==
    ASSUME IInv, [Next]_vars, MaxGap <= LeaseDuration, NEW v \in Workers, Executing(v)'
    PROVE  Covered(v)'
<1> USE DEF memoryVars, callVars, workerVars
<1>0. TypeOK /\ FreshRows /\ LostOnceStarted
  BY DEF IInv
<1>1. ASSUME row' = row, pc' = pc, cur' = cur, age' = age, ctx'[v] # "lost" \/ ctx' = ctx
      PROVE  Covered(v)'
  BY <1>1, CoverKept DEF Executing, Covered
<1>2. ASSUME NEW t \in Tasks,
             \/ \E r \in Runners : ScheduleCount(r, t)
             \/ ScheduleGoesOn(t) \/ ScheduleSaveFails(t)
      PROVE  Covered(v)'
  <2>1. CASE ScheduleSave(t) \/ ScheduleReject(t)
    <3>1. row[t].status = "absent"
      BY <1>0, <2>1 DEF ScheduleSave, ScheduleReject, FreshRows
    <3>2. row \in [Tasks -> Row] /\ \E new : row' = [row EXCEPT ![t] = new]
      BY <1>0, <2>1 DEF ScheduleSave, ScheduleReject, TypeOK
    <3>3. Covered(v) /\ row[cur[v]].status = "running" => row'[cur[v]] = row[cur[v]]
      BY <3>1, <3>2 DEF Covered
    <3> QED
      BY <2>1, <3>3, CoverKept DEF ScheduleSave, ScheduleReject, Executing, Covered
  <2> QED
    BY <1>1, <1>2, <2>1 DEF ScheduleGoesOn, ScheduleCount, ScheduleStoreLocal, ScheduleSaveFails
<1>3. ASSUME NEW t \in Tasks, (\E r \in Runners : CancelCheck(r, t)) \/ CancelGoesOn(t)
      PROVE  Covered(v)'
  <2>1. CASE CancelMark(t)
    <3>1. Covered(v) => row'[cur[v]] = row[cur[v]] \/ row'[cur[v]].status = "failed"
      BY <1>0, <2>1 DEF CancelMark, Covered, TypeOK, Unleased
    <3> QED
      BY <2>1, <3>1, CoverKept DEF CancelMark, Executing, Covered, Terminal
  <2>2. CASE CancelLocal(t)
    <3>1. ctx'[v] = ctx[v] \/ ctx'[v] = "canceled"
      BY <1>0, <2>2 DEF CancelLocal, TypeOK
    <3> QED
      BY <2>2, <3>1, CoverKept DEF CancelLocal, Executing, Covered
  <2> QED
    BY <1>1, <1>3, <2>1, <2>2 DEF CancelGoesOn, CancelCheck, CancelFails
\* A claim finds a pending row, so it is not the row of a covered worker.
<1>4. ASSUME NEW w \in Workers, Claims(w) \/ \E t \in Tasks : ClaimAnswerLost(w, t)
      PROVE  Covered(v)'
  <2>1. ASSUME NEW t \in Tasks, Claim(w, t) PROVE Covered(v)'
    <3>1. CASE v = w
      <4>1. cur'[v] = t /\ age'[v] = 0 /\ ctx'[v] # "lost"
        BY <1>0, <2>1, <3>1 DEF Claim, TypeOK, LostOnceStarted
      <4>2. row'[t].status = "running" /\ row'[t].owner = v[1] /\ row'[t].lease = LeaseDuration
        <5>1. row'[t] = [row[t] EXCEPT !.status = "running", !.owner = v[1],
                                       !.lease = LeaseDuration]
          BY <1>0, <2>1, <3>1 DEF Claim, TypeOK
        <5>2. row[t] \in Row
          BY <1>0 DEF TypeOK
        <5> QED
          BY <5>1, <5>2 DEF Row
      <4> QED
        BY <4>1, <4>2, PersistentRunnerAssumption DEF Covered
    <3>2. CASE v # w
      <4>1. Executing(v) /\ cur'[v] = cur[v] /\ age'[v] = age[v] /\ ctx'[v] = ctx[v]
        BY <1>0, <2>1, <3>2 DEF Claim, TypeOK, Executing
      <4>2. row[cur[v]].status = "running" => row'[cur[v]] = row[cur[v]]
        BY <1>0, <2>1 DEF Claim, TypeOK
      <4> QED
        BY <4>1, <4>2, CoverKept DEF Covered
    <3> QED
      BY <3>1, <3>2
  <2>2. ASSUME NEW t \in Tasks, ClaimAnswerLost(w, t) PROVE Covered(v)'
    <3>1. Executing(v) /\ cur'[v] = cur[v] /\ age'[v] = age[v] /\ ctx'[v] = ctx[v]
      BY <1>0, <2>2 DEF ClaimAnswerLost, NextCandidate, TypeOK, Executing
    <3>2. row[cur[v]].status = "running" => row'[cur[v]] = row[cur[v]]
      BY <1>0, <2>2 DEF ClaimAnswerLost, TypeOK
    <3> QED
      BY <3>1, <3>2, CoverKept DEF Covered
  <2>3. CASE Poll(w) \/ (\E t \in Tasks : ClaimMisses(w, t)) \/ ClaimFails(w)
    <3>1. Executing(v) /\ cur' = cur /\ age' = age /\ ctx' = ctx /\ row' = row
      BY <1>0, <2>3 DEF Poll, ClaimMisses, ClaimFails, NextCandidate, TypeOK, Executing
    <3> QED
      BY <3>1, CoverKept DEF Covered
  <2>4. CASE Rebuild(w)
    <3>1. Executing(v) /\ cur' = cur /\ age' = age /\ ctx' = ctx /\ row' = row
      BY <1>0, <2>4 DEF Rebuild, TypeOK, Executing
    <3> QED
      BY <3>1, CoverKept DEF Covered
  <2>5. CASE RebuildFails(w)
    <3>0. PICK C \in {cand[w], {}} : NextCandidate(w, C)
      BY <2>5 DEF RebuildFails
    <3>1. v # w
      BY <1>0, <3>0 DEF NextCandidate, TypeOK, Executing
    <3>2. Executing(v) /\ cur'[v] = cur[v] /\ age'[v] = age[v] /\ ctx'[v] = ctx[v]
      BY <1>0, <2>5, <3>0, <3>1 DEF RebuildFails, NextCandidate, TypeOK, Executing
    <3>3. Covered(v) => row'[cur[v]] = row[cur[v]] \/ row'[cur[v]].status \in Terminal
      <4>1. row' = row \/ FinishOwned(w[1], cur[w], "failed", "no factory")
        BY <2>5 DEF RebuildFails
      <4> QED
        BY <1>0, <4>1, FinishOwnedEnds DEF Covered, Terminal, Workers
    <3> QED
      BY <3>2, <3>3, CoverKept DEF Covered
  <2> QED
    BY <1>4, <2>1, <2>2, <2>3, <2>4, <2>5 DEF Claims
<1>5. ASSUME NEW w \in Workers,
             \/ Executes(w) \/ Return(w) \/ Heartbeat(w) \/ Panic(w)
             \/ FinishFails(w) \/ RecoverFails(w)
      PROVE  Covered(v)'
  <2>1. CASE Start(w) \/ Return(w) \/ Panic(w)
    <3>1. Executing(v) /\ cur' = cur /\ age' = age /\ ctx' = ctx /\ row' = row
      BY <1>0, <2>1 DEF Start, Return, Panic, TypeOK, Executing
    <3> QED
      BY <3>1, CoverKept DEF Covered
  <2>2. CASE Heartbeat(w)
    <3>1. Executing(v) /\ cur'[v] = cur[v] /\ Covered(v)
      BY <2>2 DEF Heartbeat, Executing, IInv, LeaseCovers
    <3>2. CASE Owned(w[1], cur[w])
      <4>1. ctx'[v] = ctx[v] /\ age'[v] \in {0, age[v]} /\ (v = w => age'[v] = 0)
        BY <1>0, <2>2, <3>2 DEF Heartbeat, TypeOK
      <4>2. CASE cur[v] = cur[w]
        <5>1. row'[cur[v]] = [row[cur[v]] EXCEPT !.lease = LeaseDuration]
          BY <1>0, <2>2, <3>1, <3>2, <4>2 DEF Heartbeat, TypeOK, Covered
        <5>2. /\ row'[cur[v]].status = row[cur[v]].status
              /\ row'[cur[v]].owner = row[cur[v]].owner
              /\ row'[cur[v]].lease = LeaseDuration
          <6>1. row[cur[v]] \in Row
            BY <1>0, <3>1 DEF TypeOK, Covered
          <6> QED
            BY <5>1, <6>1 DEF Row
        <5>3. age'[v] \in Nat /\ LeaseDuration \in Nat
          BY <1>0, <4>1, PersistentRunnerAssumption DEF TypeOK
        <5> QED
          BY <3>1, <4>1, <5>2, <5>3 DEF Covered
      <4>3. CASE cur[v] # cur[w]
        BY <1>0, <2>2, <3>1, <3>2, <4>1, <4>3, CoverKept DEF Heartbeat, TypeOK, Covered
      <4> QED
        BY <4>2, <4>3
    <3>3. CASE ~Owned(w[1], cur[w])
      <4>1. v = w => row[cur[v]].status # "running"
        BY <3>1, <3>3 DEF Covered, Owned, Terminal
      <4>2. v # w => ctx'[v] = ctx[v] /\ age'[v] = age[v]
        BY <1>0, <2>2 DEF Heartbeat, TypeOK
      <4> QED
        BY <2>2, <3>1, <3>3, <4>1, <4>2, CoverKept DEF Heartbeat, Covered
    <3> QED
      BY <3>2, <3>3
  <2>3. CASE Finish(w) \/ FinishFails(w) \/ Release(w) \/ Recover(w) \/ RecoverFails(w)
    <3>1. v # w
      BY <1>0, <2>3 DEF Finish, FinishFails, Release, Recover, RecoverFails, ToIdle, TypeOK, Executing
    <3>2. Executing(v) /\ cur'[v] = cur[v] /\ age'[v] = age[v] /\ ctx'[v] = ctx[v]
      BY <1>0, <2>3, <3>1 DEF Finish, FinishFails, Release, Recover, RecoverFails, ToIdle, TypeOK,
                               Executing
    <3>3. Covered(v) => row'[cur[v]] = row[cur[v]] \/ row'[cur[v]].status \in Terminal
      BY <1>0, <2>3 DEF Finish, FinishFails, Release, Recover, RecoverFails, FinishOwned, Unleased,
                        Terminal, TypeOK, Covered
    <3> QED
      BY <3>2, <3>3, CoverKept DEF Covered
  <2> QED
    BY <1>5, <2>1, <2>2, <2>3 DEF Executes
\* The lease of a covered worker has not expired.
<1>6. ASSUME NEW r \in Runners,
             Reclaim(r) \/ Cleanup(r) \/ Shutdown(r) \/ Exit(r) \/ Crash(r) \/ Restart(r)
      PROVE  Covered(v)'
  <2>1. CASE Reclaim(r)
    <3>1. Executing(v) /\ cur' = cur /\ age' = age /\ ctx' = ctx
      BY <2>1 DEF Reclaim, Executing
    <3>2. Covered(v) => ~Expired(cur[v])
      BY <1>0, CoveredUnexpired
    <3>3. Covered(v) /\ row[cur[v]].status = "running" => row'[cur[v]] = row[cur[v]]
      BY <2>1, <3>2 DEF Reclaim, Covered
    <3> QED
      BY <3>1, <3>3, CoverKept DEF Covered
  <2>2. CASE Cleanup(r)
    <3>1. Covered(v) => row'[cur[v]] = row[cur[v]] \/ row'[cur[v]].status = "purged"
      BY <2>2 DEF Cleanup, Covered, Unleased
    <3> QED
      BY <2>2, <3>1, CoverKept DEF Cleanup, Executing, Covered
  <2>3. CASE Shutdown(r) \/ Restart(r)
    BY <1>1, <2>3 DEF Shutdown, Restart
  <2>4. CASE Exit(r) \/ Crash(r)
    <3>1. v \notin WorkersOf(r)
      BY <2>4 DEF Exit, Crash, Stops, Executing
    <3>2. Executing(v) /\ cur'[v] = cur[v] /\ age'[v] = age[v] /\ ctx'[v] = ctx[v] /\ row' = row
      BY <2>4, <3>1 DEF Exit, Crash, Stops, Executing
    <3> QED
      BY <3>2, CoverKept DEF Covered
  <2> QED
    BY <1>6, <2>1, <2>2, <2>3, <2>4
<1>7. CASE Tick
  <2>1. Executing(v) /\ cur' = cur /\ ctx' = ctx /\ Covered(v)
    BY <1>7 DEF Tick, Executing, IInv, LeaseCovers
  <2>2. CASE row[cur[v]].status = "running"
    <3>1. Holding(v) /\ age'[v] = age[v] + 1
      BY <1>7, <2>1, <2>2 DEF Tick, Covered, Holding, Terminal
    <3>2. /\ row'[cur[v]].status = "running" /\ row'[cur[v]].owner = v[1]
          /\ row'[cur[v]].lease \in {row[cur[v]].lease, row[cur[v]].lease - 1}
      <4>1. row[cur[v]] \in Row
        BY <1>0, <2>1 DEF TypeOK, Covered
      <4>2. row'[cur[v]] \in {row[cur[v]], [row[cur[v]] EXCEPT !.lease = @ - 1]}
        BY <1>7, <2>1 DEF Tick, Covered
      <4> QED
        BY <2>1, <2>2, <4>1, <4>2 DEF Row, Covered, Terminal
    <3>3. age[v] \in Int /\ row[cur[v]].lease \in Int /\ LeaseDuration \in Int
      <4>1. age[v] \in 0 .. MaxGap /\ row[cur[v]] \in Row
        BY <1>0, <2>1 DEF TypeOK, Covered
      <4>2. row[cur[v]].lease \in NoLease .. LeaseDuration
        BY <4>1 DEF Row
      <4> QED
        BY <4>1, <4>2, PersistentRunnerAssumption DEF NoLease
    <3> QED
      BY <2>1, <2>2, <3>1, <3>2, <3>3 DEF Covered, Terminal
  <2>3. CASE row[cur[v]].status # "running"
    BY <2>1, <2>3, CoverKept
  <2> QED
    BY <2>2, <2>3
<1>8. ASSUME NEW t \in Tasks, Ages(t) PROVE Covered(v)'
  BY <1>1, <1>8 DEF Ages
<1>9. CASE UNCHANGED vars
  BY <1>1, <1>9 DEF vars
<1> QED
  BY <1>2, <1>3, <1>4, <1>5, <1>6, <1>7, <1>8, <1>9 DEF Next

\* Only a claim makes a worker execute a task, and it finds the row pending.
LEMMA ExclusiveNext ==
    ASSUME IInv, [Next]_vars
    PROVE  ExclusiveExecution'
<1>0. TypeOK
  BY DEF IInv
<1>1. ASSUME \A v \in Workers : Executing(v)' => Executing(v) /\ cur'[v] = cur[v]
      PROVE  ExclusiveExecution'
  BY <1>1 DEF ExclusiveExecution, IInv
<1>2. ASSUME NEW w \in Workers, NEW t \in Tasks, Claim(w, t)
      PROVE  ExclusiveExecution'
  <2>1. cur'[w] = t /\ \A v \in Workers : v # w /\ Executing(v)' => Executing(v) /\ cur'[v] = cur[v]
    BY <1>0, <1>2 DEF Claim, TypeOK, Executing
  <2>2. \A v \in Workers : Executing(v) => cur[v] # t
    BY <1>2 DEF Claim, IInv, LeaseCovers, Covered, Terminal
  <2> QED
    BY <2>1, <2>2 DEF ExclusiveExecution, IInv
<1>3. ASSUME NEW w \in Workers, Claims(w) \/ \E t \in Tasks : ClaimAnswerLost(w, t)
      PROVE  ExclusiveExecution'
  <2>1. ASSUME NEW C, NextCandidate(w, C), pc[w] \in {"idle", "claiming", "claimed"},
               cur' = cur \/ cur' = [cur EXCEPT ![w] = None]
        PROVE  ExclusiveExecution'
    BY <1>0, <1>1, <2>1 DEF NextCandidate, TypeOK, Executing
  <2>2. CASE Rebuild(w)
    BY <1>0, <1>1, <2>2 DEF Rebuild, TypeOK, Executing
  <2>3. CASE RebuildFails(w)
    BY <2>1, <2>3 DEF RebuildFails
  <2>4. CASE Poll(w) \/ ClaimFails(w)
             \/ \E t \in Tasks : ClaimMisses(w, t) \/ ClaimAnswerLost(w, t)
    BY <2>1, <2>4 DEF Poll, ClaimFails, ClaimMisses, ClaimAnswerLost
  <2> QED
    BY <1>2, <1>3, <2>2, <2>3, <2>4 DEF Claims
<1>4. ASSUME NEW w \in Workers,
             \/ Executes(w) \/ Return(w) \/ Heartbeat(w) \/ Panic(w)
             \/ FinishFails(w) \/ RecoverFails(w)
      PROVE  ExclusiveExecution'
  BY <1>0, <1>1, <1>4 DEF Executes, Start, Return, Heartbeat, Panic, Finish, FinishFails, Release,
                           Recover, RecoverFails, ToIdle, TypeOK, Executing
<1>5. ASSUME NEW t \in Tasks,
             \/ \E r \in Runners : ScheduleCount(r, t) \/ CancelCheck(r, t)
             \/ ScheduleGoesOn(t) \/ ScheduleSaveFails(t) \/ CancelGoesOn(t) \/ Ages(t)
      PROVE  ExclusiveExecution'
  BY <1>1, <1>5 DEF ScheduleGoesOn, ScheduleCount, CancelCheck, ScheduleSave, ScheduleReject,
                    ScheduleStoreLocal, ScheduleSaveFails, CancelGoesOn, CancelMark, CancelFails, CancelLocal,
                    Ages, workerVars, Executing
<1>6. ASSUME NEW r \in Runners,
             Reclaim(r) \/ Cleanup(r) \/ Shutdown(r) \/ Exit(r) \/ Crash(r) \/ Restart(r)
      PROVE  ExclusiveExecution'
  <2>1. CASE Exit(r) \/ Crash(r)
    BY <1>1, <2>1 DEF Exit, Crash, Stops, Executing
  <2> QED
    BY <1>1, <1>6, <2>1 DEF Reclaim, Cleanup, Shutdown, Restart, workerVars, Executing
<1>7. CASE Tick \/ UNCHANGED vars
  BY <1>1, <1>7 DEF Tick, vars, workerVars, Executing
<1> QED
  BY <1>2, <1>3, <1>4, <1>5, <1>6, <1>7 DEF Next

\* The invariant holds initially.
LEMMA InvInit == Init => IInv
<1> SUFFICES ASSUME Init PROVE IInv
  OBVIOUS
<1>1. FreshRows
  BY DEF Init, FreshRows, Unleased
<1>2. \A w \in Workers : ~Executing(w) /\ ctx[w] # "lost"
  BY DEF Init, Executing
<1> QED
  BY TypeInit, <1>1, <1>2 DEF IInv, LeaseCovers, LostOnceStarted, ExclusiveExecution

\* Every step keeps the invariant.
LEMMA InvNext == MaxGap <= LeaseDuration /\ IInv /\ [Next]_vars => IInv'
<1> SUFFICES ASSUME MaxGap <= LeaseDuration, IInv, [Next]_vars PROVE IInv'
  OBVIOUS
<1>1. TypeOK' /\ FreshRows'
  BY TypeNext, FreshNext DEF IInv
<1>2. LeaseCovers'
  BY CoverNext DEF LeaseCovers
<1> QED
  BY <1>1, <1>2, LostNext, ExclusiveNext DEF IInv

\* The leases cover the workers that execute, under the same condition.
THEOREM LeasesKept == MaxGap <= LeaseDuration => (Spec => []IInv)
<1> SUFFICES ASSUME MaxGap <= LeaseDuration PROVE Spec => []IInv
  OBVIOUS
<1>1. IInv /\ [Next]_vars => IInv'
  BY InvNext
<1> QED
  BY InvInit, <1>1, PTL DEF Spec

\* When live workers reach the database within the lease, no task is ever
\* executed by two workers at a time: for every number of tasks, runners and
\* workers, through crashes, restarts, lost answers, cancellations and panics.
THEOREM Exclusive == MaxGap <= LeaseDuration => (Spec => []ExclusiveExecution)
<1> SUFFICES ASSUME MaxGap <= LeaseDuration PROVE Spec => []ExclusiveExecution
  OBVIOUS
<1>1. Spec => []IInv
  BY LeasesKept
<1>2. IInv => ExclusiveExecution
  BY DEF IInv
<1> QED
  BY <1>1, <1>2, PTL

-----------------------------------------------------------------------------
(* Cancel functions. *)

\* The steps at which a worker has a cancel function: from Start to the
\* deferred function of executeTask.
Started == {"handling", "returned", "finished"}

\* A step that leaves the cancel functions alone keeps them current, provided
\* every worker that has one goes on with its task.
LEMMA CancelFnKept ==
    ASSUME TypeOK, CancelFnCurrent, cancelFn' = cancelFn,
           \A v \in Workers : pc[v] \in Started => pc'[v] \in Started /\ cur'[v] = cur[v]
    PROVE  CancelFnCurrent'
  BY DEF CancelFnCurrent, TypeOK, Started

\* The deferred function of executeTask takes the cancel function of its worker
\* away, and that worker has no other.
LEMMA ForgetCurrent ==
    ASSUME TypeOK, CancelFnCurrent, NEW w \in Workers, Forget(w),
           \A v \in Workers : v # w => pc'[v] = pc[v] /\ cur'[v] = cur[v]
    PROVE  CancelFnCurrent'
<1> SUFFICES ASSUME NEW r \in Runners, NEW t \in Tasks, cancelFn'[r][t] # None
             PROVE  /\ cancelFn'[r][t][1] = r
                    /\ cur'[cancelFn'[r][t]] = t
                    /\ pc'[cancelFn'[r][t]] \in Started
  BY DEF CancelFnCurrent, Started
<1>1. /\ cancelFn'[r][t] = cancelFn[r][t]
      /\ ~(r = w[1] /\ t = cur[w])
  BY DEF Forget, TypeOK
<1>2. /\ cancelFn[r][t] \in Workers
      /\ cancelFn[r][t][1] = r
      /\ cur[cancelFn[r][t]] = t
      /\ pc[cancelFn[r][t]] \in Started
  BY <1>1 DEF CancelFnCurrent, TypeOK, Started
<1>3. cancelFn[r][t] # w
  BY <1>1, <1>2
<1> QED
  BY <1>1, <1>2, <1>3

\* Every step keeps the cancel functions current.
LEMMA CancelFnNext == TypeOK /\ CancelFnCurrent /\ [Next]_vars => CancelFnCurrent'
<1> SUFFICES ASSUME TypeOK, CancelFnCurrent, [Next]_vars PROVE CancelFnCurrent'
  OBVIOUS
<1>1. ASSUME UNCHANGED <<cancelFn, pc, cur>> PROVE CancelFnCurrent'
  BY <1>1, CancelFnKept DEF TypeOK
<1>2. ASSUME NEW t \in Tasks,
             \/ \E r \in Runners : ScheduleCount(r, t) \/ CancelCheck(r, t)
             \/ ScheduleGoesOn(t) \/ ScheduleSaveFails(t) \/ CancelGoesOn(t) \/ Ages(t)
      PROVE  CancelFnCurrent'
  BY <1>1, <1>2 DEF ScheduleGoesOn, ScheduleCount, CancelCheck, ScheduleSave, ScheduleReject,
                    ScheduleStoreLocal, ScheduleSaveFails, CancelGoesOn, CancelMark, CancelFails,
                    CancelLocal, Ages, workerVars, memoryVars
<1>3. ASSUME NEW w \in Workers, Claims(w) \/ \E t \in Tasks : ClaimAnswerLost(w, t)
      PROVE  CancelFnCurrent'
  <2>1. pc[w] \notin Started
    BY <1>3 DEF Claims, Poll, Claim, ClaimMisses, ClaimFails, ClaimAnswerLost, Rebuild, RebuildFails,
                Started
  <2>2. cancelFn' = cancelFn
    BY <1>3 DEF Claims, Poll, Claim, ClaimMisses, ClaimFails, ClaimAnswerLost, Rebuild, RebuildFails,
                memoryVars
  <2>3. \A v \in Workers : v # w => pc'[v] = pc[v] /\ cur'[v] = cur[v]
    <3>1. ASSUME NEW C, NextCandidate(w, C), cur' = cur \/ cur' = [cur EXCEPT ![w] = None]
          PROVE  \A v \in Workers : v # w => pc'[v] = pc[v] /\ cur'[v] = cur[v]
      BY <3>1 DEF NextCandidate, TypeOK
    <3>2. ASSUME NEW t \in Tasks, Claim(w, t)
          PROVE  \A v \in Workers : v # w => pc'[v] = pc[v] /\ cur'[v] = cur[v]
      BY <3>2 DEF Claim, TypeOK
    <3>3. CASE Rebuild(w)
      BY <3>3 DEF Rebuild, TypeOK
    <3> QED
      BY <1>3, <3>1, <3>2, <3>3 DEF Claims, Poll, ClaimMisses, ClaimFails, ClaimAnswerLost, RebuildFails
  <2> QED
    BY <2>1, <2>2, <2>3, CancelFnKept
<1>4. ASSUME NEW w \in Workers,
             \/ Executes(w) \/ Return(w) \/ Heartbeat(w) \/ Panic(w)
             \/ FinishFails(w) \/ RecoverFails(w)
      PROVE  CancelFnCurrent'
  <2>1. CASE Start(w)
    BY <2>1 DEF Start, CancelFnCurrent, TypeOK
  <2>2. CASE Release(w) \/ Panic(w)
    BY <2>2, ForgetCurrent DEF Release, Panic, ToIdle, TypeOK
  <2>3. CASE Return(w) \/ Heartbeat(w) \/ Finish(w) \/ FinishFails(w)
    BY <2>3, CancelFnKept DEF Return, Heartbeat, Finish, FinishFails, memoryVars, TypeOK, Started
  <2>4. CASE Recover(w) \/ RecoverFails(w)
    BY <2>4, CancelFnKept DEF Recover, RecoverFails, ToIdle, memoryVars, TypeOK, Started
  <2> QED
    BY <1>4, <2>1, <2>2, <2>3, <2>4 DEF Executes
\* A process that stops takes its own cancel functions with it, and a cancel
\* function stops a worker of its own process.
<1>5. ASSUME NEW r \in Runners,
             Reclaim(r) \/ Cleanup(r) \/ Shutdown(r) \/ Exit(r) \/ Crash(r) \/ Restart(r)
      PROVE  CancelFnCurrent'
  <2>1. CASE Stops(r)
    BY <2>1 DEF Stops, WorkersOf, CancelFnCurrent, TypeOK
  <2> QED
    BY <1>1, <1>5, <2>1 DEF Reclaim, Cleanup, Shutdown, Exit, Crash, Restart, workerVars, memoryVars
<1>6. CASE Tick \/ UNCHANGED vars
  BY <1>1, <1>6 DEF Tick, vars, workerVars, memoryVars
<1> QED
  BY <1>2, <1>3, <1>4, <1>5, <1>6 DEF Next

\* CancelTask never stops the wrong worker: the cancel function it finds for a
\* task is that of the worker that runs this task, although the deferred
\* function forgets by task and not by worker, and another worker may have
\* reclaimed the task meanwhile.
THEOREM CancelReachesItsTask == Spec => []CancelFnCurrent
<1>1. Init => CancelFnCurrent
  BY DEF Init, CancelFnCurrent
<1> QED
  BY <1>1, TypeInit, TypeNext, CancelFnNext, PTL DEF Spec

-----------------------------------------------------------------------------
(* Who may write a success. *)

\* Heartbeats and the clock write leases only; a claim and a reclaim write the
\* status they are meant to.
LEMMA RowStatus ==
    ASSUME NEW x \in Row, NEW o, NEW l
    PROVE  /\ [x EXCEPT !.lease = l].status = x.status
           /\ [x EXCEPT !.status = "running", !.owner = o, !.lease = l].status = "running"
           /\ [x EXCEPT !.status = "pending", !.owner = o].status = "pending"
  BY DEF Row

\* Only the finish of a worker that owns the row writes a success.
LEMMA SuccessByHolder ==
    ASSUME TypeOK, [Next]_vars, NEW t \in Tasks,
           row[t].status # "succeeded", row'[t].status = "succeeded"
    PROVE  \E w \in Workers : /\ w[1] = row[t].owner /\ cur[w] = t
                              /\ pc[w] = "returned" /\ outcome[w] = "succeeded"
<1>0. row[t] \in Row /\ row' # row
  BY DEF TypeOK
<1>1. ASSUME NEW u \in Tasks,
             \/ \E r \in Runners : ScheduleCount(r, u) \/ CancelCheck(r, u)
             \/ ScheduleGoesOn(u) \/ ScheduleSaveFails(u) \/ CancelGoesOn(u) \/ Ages(u)
      PROVE  FALSE
  <2>1. CASE ScheduleSave(u) \/ ScheduleReject(u) \/ CancelMark(u)
    <3>1. ASSUME NEW s \in {"pending", "failed"}, NEW e, row' = [row EXCEPT ![u] = Unleased(s, e)]
          PROVE  FALSE
      BY <1>0, <3>1 DEF Unleased, TypeOK
    <3> QED
      BY <1>0, <2>1, <3>1 DEF ScheduleSave, ScheduleReject, CancelMark
  <2> QED
    BY <1>0, <1>1, <2>1 DEF ScheduleGoesOn, ScheduleCount, CancelCheck, ScheduleStoreLocal,
                            ScheduleSaveFails, CancelGoesOn, CancelFails, CancelLocal, Ages
<1>2. ASSUME NEW w \in Workers, Claims(w) \/ \E u \in Tasks : ClaimAnswerLost(w, u)
      PROVE  FALSE
  <2>1. ASSUME NEW u \in Tasks, Claim(w, u) \/ ClaimAnswerLost(w, u) PROVE FALSE
    <3>1. row' = [row EXCEPT ![u] = [row[u] EXCEPT !.status = "running", !.owner = w[1],
                                                  !.lease = LeaseDuration]]
      BY <2>1 DEF Claim, ClaimAnswerLost
    <3>2. [row[u] EXCEPT !.status = "running", !.owner = w[1],
                         !.lease = LeaseDuration].status = "running"
      BY RowStatus DEF TypeOK
    <3> QED
      BY <1>0, <3>1, <3>2 DEF TypeOK
  <2>2. CASE RebuildFails(w)
    <3>1. FinishOwned(w[1], cur[w], "failed", "no factory")
      BY <1>0, <2>2 DEF RebuildFails
    <3> QED
      BY <1>0, <3>1 DEF FinishOwned, Unleased, TypeOK
  <2> QED
    BY <1>0, <1>2, <2>1, <2>2 DEF Claims, Poll, ClaimMisses, ClaimFails, Rebuild
<1>3. ASSUME NEW w \in Workers,
             \/ Executes(w) \/ Return(w) \/ Heartbeat(w) \/ Panic(w)
             \/ FinishFails(w) \/ RecoverFails(w)
      PROVE  /\ w[1] = row[t].owner /\ cur[w] = t
             /\ pc[w] = "returned" /\ outcome[w] = "succeeded"
  <2>1. CASE Finish(w)
    BY <1>0, <2>1 DEF Finish, FinishOwned, Owned, Unleased, TypeOK
  <2>2. CASE Recover(w)
    BY <1>0, <2>2 DEF Recover, FinishOwned, Unleased, TypeOK
  <2>3. CASE Heartbeat(w)
    <3>1. row' = [row EXCEPT ![cur[w]] = [row[cur[w]] EXCEPT !.lease = LeaseDuration]]
      BY <1>0, <2>3 DEF Heartbeat
    <3>2. cur[w] = t => [row[cur[w]] EXCEPT !.lease = LeaseDuration].status = row[t].status
      BY <1>0, RowStatus DEF TypeOK
    <3> QED
      BY <1>0, <3>1, <3>2 DEF TypeOK
  <2> QED
    BY <1>0, <1>3, <2>1, <2>2, <2>3 DEF Executes, Start, Return, Panic, FinishFails, Release,
                                        RecoverFails
<1>4. ASSUME NEW r \in Runners,
             Reclaim(r) \/ Cleanup(r) \/ Shutdown(r) \/ Exit(r) \/ Crash(r) \/ Restart(r)
      PROVE  FALSE
  <2>1. CASE Reclaim(r)
    BY <1>0, <2>1 DEF Reclaim, TypeOK, Row
  <2>2. CASE Cleanup(r)
    BY <1>0, <2>2 DEF Cleanup, Unleased
  <2> QED
    BY <1>0, <1>4, <2>1, <2>2 DEF Shutdown, Exit, Crash, Stops, Restart
<1>5. CASE Tick
  BY <1>0, <1>5 DEF Tick, TypeOK, Row
<1> QED
  BY <1>0, <1>1, <1>2, <1>3, <1>4, <1>5 DEF Next, vars

\* The outcome of a run that lost its lease is discarded: a task succeeds only
\* by a worker of the runner that holds the row, whose own run succeeded.
THEOREM HolderSucceeds == Spec => OnlyHolderSucceeds
<1>1. TypeOK /\ [Next]_vars =>
        [\A t \in Tasks : row[t].status # "succeeded" /\ row'[t].status = "succeeded" =>
            \E w \in Workers : /\ w[1] = row[t].owner /\ cur[w] = t
                               /\ pc[w] = "returned" /\ outcome[w] = "succeeded"]_vars
  BY SuccessByHolder
<1> QED
  BY <1>1, TypeCorrect, PTL DEF Spec, OnlyHolderSucceeds

-----------------------------------------------------------------------------
(* The runner implements TaskLifecycle.  A step of the abstract lifecycle is *)
(* known by what it does to the status of tasks and to who executes them.    *)

StatusKept == \A t \in Tasks : row'[t].status = row[t].status

ExecutorsKept == \A w \in Workers : /\ Executing(w)' <=> Executing(w)
                                    /\ Executing(w) => cur'[w] = cur[w]

\* The workers in W leave their tasks; the others go on.
ExecutorsLeave(W) == \A w \in Workers : /\ Executing(w)' <=> Executing(w) /\ w \notin W
                                        /\ Executing(w)' => cur'[w] = cur[w]

\* Steps on rows, without effect on the executors.
LEMMA StatusChanges == ExecutorsKept => executorsBar' = executorsBar
  BY DEF ExecutorsKept, executorsBar

\* Neither the statuses nor the executors change: a stuttering step.
LEMMA Stutters == StatusKept /\ ExecutorsKept => UNCHANGED Lifecycle!vars
  BY StatusChanges DEF StatusKept, statusBar, Lifecycle!vars

\* Workers stop executing and no status changes.
LEMMA Leaves ==
    ASSUME NEW W \in SUBSET Workers, StatusKept, ExecutorsLeave(W)
    PROVE  Lifecycle!Leave(W)
<1>1. statusBar' = statusBar
  BY DEF StatusKept, statusBar
<1>2. executorsBar' = [t \in Tasks |-> executorsBar[t] \ W]
  BY DEF ExecutorsLeave, executorsBar
<1> QED
  BY <1>1, <1>2 DEF Lifecycle!Leave

\* A worker that leaves a row it owns in a terminal status ends its task.
LEMMA Ends ==
    ASSUME TypeOK, NEW w \in Workers, Executing(w), Owned(w[1], cur[w]), cur[w] \in Tasks,
           NEW s \in Terminal, NEW e, row' = [row EXCEPT ![cur[w]] = Unleased(s, e)],
           ExecutorsLeave({w})
    PROVE  Lifecycle!End(cur[w], w, s)
<1>1. /\ w \in executorsBar[cur[w]]
      /\ statusBar[cur[w]] = "running"
  BY DEF executorsBar, statusBar, Owned
<1>2. statusBar' = [statusBar EXCEPT ![cur[w]] = s]
  BY DEF statusBar, Unleased, TypeOK
<1>3. executorsBar' = [executorsBar EXCEPT ![cur[w]] = @ \ {w}]
  BY DEF ExecutorsLeave, executorsBar
<1> QED
  BY <1>1, <1>2, <1>3 DEF Lifecycle!End, Lifecycle!Ended, Terminal

\* The initial states are initial states of the lifecycle.
LEMMA LifecycleInit == Init => Lifecycle!Init
  BY DEF Init, Unleased, Executing, statusBar, executorsBar, Lifecycle!Init

\* A worker that executes leaves its task by finishOwned: it ends the task, or
\* the row is no longer its own and only the worker leaves.
LEMMA FinishRefines ==
    ASSUME IInv, NEW w \in Workers, Executing(w), NEW s \in Terminal, NEW e,
           FinishOwned(w[1], cur[w], s, e), ExecutorsLeave({w})
    PROVE  Lifecycle!Next
<1>0. cur[w] \in Tasks
  BY DEF IInv, LeaseCovers, Covered
<1>1. CASE Owned(w[1], cur[w])
  <2>1. Lifecycle!End(cur[w], w, s)
    BY <1>0, <1>1, Ends DEF IInv, FinishOwned
  <2> QED
    BY <1>0, <2>1 DEF Lifecycle!Next, Lifecycle!Ended, Terminal
<1>2. CASE ~Owned(w[1], cur[w])
  <2>1. Lifecycle!Leave({w})
    BY <1>2, Leaves DEF FinishOwned, StatusKept
  <2> QED
    BY <2>1 DEF Lifecycle!Next
<1> QED
  BY <1>1, <1>2

\* A row saved by ScheduleTask was never seen before: a task is submitted.
LEMMA ScheduleRefines ==
    ASSUME IInv, NEW t \in Tasks,
           \/ \E r \in Runners : ScheduleCount(r, t)
           \/ ScheduleGoesOn(t) \/ ScheduleSaveFails(t)
    PROVE  [Lifecycle!Next]_(Lifecycle!vars)
<1> USE DEF memoryVars, workerVars
<1>1. ASSUME NEW s \in {"pending", "failed"}, NEW e \in {"none", "queue full"},
             call[t] \in {"room", "full"},
             row' = [row EXCEPT ![t] = Unleased(s, e)], ExecutorsKept
      PROVE  Lifecycle!Next
  <2>1. statusBar[t] = "absent" /\ statusBar' = [statusBar EXCEPT ![t] = s]
    BY <1>1 DEF IInv, FreshRows, TypeOK, statusBar, Unleased
  <2>2. Lifecycle!Submit(t, s)
    BY <1>1, <2>1, StatusChanges DEF Lifecycle!Submit
  <2> QED
    BY <2>2 DEF Lifecycle!Next
<1>2. CASE ScheduleSave(t)
  <2>1. ExecutorsKept
    BY <1>2 DEF ScheduleSave, ExecutorsKept, Executing
  <2> QED
    BY <1>1, <1>2, <2>1 DEF ScheduleSave
<1>3. CASE ScheduleReject(t)
  <2>1. ExecutorsKept
    BY <1>3 DEF ScheduleReject, ExecutorsKept, Executing
  <2> QED
    BY <1>1, <1>3, <2>1 DEF ScheduleReject
<1>4. CASE (\E r \in Runners : ScheduleCount(r, t)) \/ ScheduleStoreLocal(t) \/ ScheduleSaveFails(t)
  BY <1>4, Stutters DEF ScheduleCount, ScheduleStoreLocal, ScheduleSaveFails, StatusKept,
                        ExecutorsKept, Executing
<1> QED
  BY <1>2, <1>3, <1>4 DEF ScheduleGoesOn

\* What a claim writes is seen as the start of a task.
LEMMA RunningBar ==
    ASSUME TypeOK, NEW t \in Tasks, NEW r \in Runners, row[t].status = "pending",
           row' = [row EXCEPT ![t] = [row[t] EXCEPT !.status = "running", !.owner = r,
                                                    !.lease = LeaseDuration]]
    PROVE  statusBar[t] = "pending" /\ statusBar' = [statusBar EXCEPT ![t] = "running"]
<1>1. row[t] \in Row
  BY DEF TypeOK
<1>2. row'[t].status = "running" /\ \A u \in Tasks : u # t => row'[u] = row[u]
  BY <1>1, RowStatus DEF TypeOK
<1> QED
  <2>1. statusBar' = [u \in Tasks |-> IF u = t THEN "running" ELSE statusBar[u]]
    BY <1>2 DEF statusBar
  <2>2. [statusBar EXCEPT ![t] = "running"] = [u \in Tasks |-> IF u = t THEN "running" ELSE statusBar[u]]
    BY DEF statusBar
  <2>3. statusBar[t] = "pending"
    BY DEF statusBar
  <2> QED
    BY <2>1, <2>2, <2>3

\* A worker that looks for its next candidate executes nothing, before or after.
LEMMA CandidateKeepsExecutors ==
    ASSUME TypeOK, cur' = cur, NEW w \in Workers, ~Executing(w), NEW C, NextCandidate(w, C)
    PROVE  ExecutorsKept
<1>1. pc \in [Workers -> WorkerStep]
  BY DEF TypeOK
<1>2. ASSUME NEW v \in Workers, v # w PROVE pc'[v] = pc[v]
  BY <1>1, <1>2 DEF NextCandidate
<1>3. pc'[w] \in {"idle", "claiming"}
  BY <1>1 DEF NextCandidate
<1> QED
  BY <1>2, <1>3 DEF ExecutorsKept, Executing

\* A worker that passes from one step of a task to the next goes on with it.
LEMMA StepKeepsExecutors ==
    ASSUME TypeOK, cur' = cur, NEW w \in Workers, Executing(w),
           NEW s \in {"claimed", "ready", "handling", "returned", "recovered"},
           pc' = [pc EXCEPT ![w] = s]
    PROVE  ExecutorsKept
<1>1. pc \in [Workers -> WorkerStep]
  BY DEF TypeOK
<1> QED
  BY <1>1 DEF ExecutorsKept, Executing

\* A claim takes a row that no worker executes, since a worker that executes
\* a task holds its lease or has seen it end.
LEMMA ClaimsRefine ==
    ASSUME IInv, NEW w \in Workers, Claims(w) \/ \E t \in Tasks : ClaimAnswerLost(w, t)
    PROVE  [Lifecycle!Next]_(Lifecycle!vars)
<1>0. TypeOK
  BY DEF IInv
<1>1. ASSUME NEW t \in Tasks, Claim(w, t) PROVE Lifecycle!Next
  <2>1. \A v \in Workers : Executing(v) => cur[v] # t
    BY <1>1 DEF Claim, IInv, LeaseCovers, Covered, Terminal
  <2>2. statusBar[t] = "pending" /\ statusBar' = [statusBar EXCEPT ![t] = "running"]
    <3>1. row' = [row EXCEPT ![t] = [row[t] EXCEPT !.status = "running", !.owner = w[1],
                                                  !.lease = LeaseDuration]]
      BY <1>1 DEF Claim
    <3>2. row[t].status = "pending"
      BY <1>1 DEF Claim
    <3> QED
      BY <1>0, <3>1, <3>2, RunningBar DEF Workers
  <2>3. executorsBar[t] = {}
    BY <2>1 DEF executorsBar
  <2>4. /\ Executing(w)' /\ cur'[w] = t /\ ~Executing(w)
        /\ \A v \in Workers : v # w => /\ Executing(v)' <=> Executing(v)
                                       /\ cur'[v] = cur[v]
    <3>1. DOMAIN pc = Workers /\ DOMAIN cur = Workers
      BY <1>0 DEF TypeOK
    <3> QED
      BY <1>1, <3>1 DEF Claim, Executing
  <2>5. executorsBar' = [executorsBar EXCEPT ![t] = {w}]
    BY <2>1, <2>4 DEF executorsBar
  <2>6. Lifecycle!Take(t, w)
    BY <2>2, <2>3, <2>5 DEF Lifecycle!Take
  <2> QED
    BY <2>6 DEF Lifecycle!Next
<1>2. ASSUME NEW t \in Tasks, ClaimAnswerLost(w, t) PROVE Lifecycle!Next
  <2>1. statusBar[t] = "pending" /\ statusBar' = [statusBar EXCEPT ![t] = "running"]
    <3>1. row' = [row EXCEPT ![t] = [row[t] EXCEPT !.status = "running", !.owner = w[1],
                                                  !.lease = LeaseDuration]]
      BY <1>2 DEF ClaimAnswerLost
    <3>2. row[t].status = "pending"
      BY <1>2 DEF ClaimAnswerLost
    <3> QED
      BY <1>0, <3>1, <3>2, RunningBar DEF Workers
  <2>2. ExecutorsKept
    <3>1. NextCandidate(w, {}) /\ cur' = cur
      BY <1>2 DEF ClaimAnswerLost
    <3>2. ~Executing(w)
      BY <1>2 DEF ClaimAnswerLost, Executing
    <3> QED
      BY <1>0, <3>1, <3>2, CandidateKeepsExecutors
  <2>3. Lifecycle!TakeInVain(t)
    BY <2>1, <2>2, StatusChanges DEF Lifecycle!TakeInVain
  <2> QED
    BY <2>3 DEF Lifecycle!Next
<1>3. CASE Poll(w) \/ (\E t \in Tasks : ClaimMisses(w, t)) \/ ClaimFails(w) \/ Rebuild(w)
  <2>1. StatusKept
    BY <1>3 DEF Poll, ClaimMisses, ClaimFails, Rebuild, StatusKept
  <2>2. ExecutorsKept
    <3>1. CASE Rebuild(w)
      BY <1>0, <3>1, StepKeepsExecutors DEF Rebuild, Executing
    <3>2. CASE Poll(w) \/ (\E t \in Tasks : ClaimMisses(w, t)) \/ ClaimFails(w)
      <4>1. (\E C : NextCandidate(w, C)) /\ cur' = cur
        BY <3>2 DEF Poll, ClaimMisses, ClaimFails
      <4>2. ~Executing(w)
        BY <3>2 DEF Poll, ClaimMisses, ClaimFails, Executing
      <4> QED
        BY <1>0, <4>1, <4>2, CandidateKeepsExecutors
    <3> QED
      BY <1>3, <3>1, <3>2
  <2> QED
    BY <2>1, <2>2, Stutters
<1>4. CASE RebuildFails(w)
  <2>1. Executing(w)
    BY <1>4 DEF RebuildFails, Executing
  <2>2. ExecutorsLeave({w})
    <3>1. PICK C \in {cand[w], {}} : NextCandidate(w, C)
      BY <1>4 DEF RebuildFails
    <3>2. cur' = [cur EXCEPT ![w] = None]
      BY <1>4 DEF RebuildFails
    <3>3. pc \in [Workers -> WorkerStep] /\ DOMAIN cur = Workers
      BY <1>0 DEF TypeOK
    <3> QED
      BY <3>1, <3>2, <3>3 DEF NextCandidate, ExecutorsLeave, Executing
  <2>3. CASE row' = row
    BY <2>2, <2>3, Leaves DEF StatusKept, Lifecycle!Next
  <2>4. CASE FinishOwned(w[1], cur[w], "failed", "no factory")
    BY <2>1, <2>2, <2>4, FinishRefines DEF Terminal
  <2> QED
    BY <1>4, <2>3, <2>4 DEF RebuildFails
<1> QED
  BY <1>1, <1>2, <1>3, <1>4 DEF Claims

\* The steps of executeTask: the worker that finishes, fails to write its
\* outcome or recovers from a panic leaves the task, the others change nothing
\* the lifecycle sees.
LEMMA ExecutesRefine ==
    ASSUME IInv, NEW w \in Workers,
           \/ Executes(w) \/ Return(w) \/ Heartbeat(w) \/ Panic(w)
           \/ FinishFails(w) \/ RecoverFails(w)
    PROVE  [Lifecycle!Next]_(Lifecycle!vars)
<1>0. TypeOK
  BY DEF IInv
<1>1. CASE Start(w) \/ Return(w) \/ Panic(w) \/ Release(w)
  <2>1. StatusKept
    BY <1>1 DEF Start, Return, Panic, Release, StatusKept
  <2>2. ExecutorsKept
    <3>1. DOMAIN pc = Workers /\ DOMAIN cur = Workers
      BY <1>0 DEF TypeOK
    <3>2. CASE Release(w)
      BY <3>1, <3>2 DEF Release, ToIdle, ExecutorsKept, Executing
    <3>3. CASE Start(w) \/ Return(w) \/ Panic(w)
      BY <3>1, <3>3 DEF Start, Return, Panic, ExecutorsKept, Executing
    <3> QED
      BY <1>1, <3>2, <3>3
  <2> QED
    BY <2>1, <2>2, Stutters
<1>2. CASE Heartbeat(w)
  <2>1. StatusKept
    <3>1. row' = row \/ row' = [row EXCEPT ![cur[w]] = [row[cur[w]] EXCEPT !.lease = LeaseDuration]]
      BY <1>2 DEF Heartbeat
    <3> QED
      <4>1. \A u \in Tasks : row[u] \in Row /\ row'[u] \in {row[u], [row[u] EXCEPT !.lease = LeaseDuration]}
        BY <1>0, <3>1 DEF TypeOK
      <4>2. \A u \in Tasks : [row[u] EXCEPT !.lease = LeaseDuration].status = row[u].status
        BY <4>1, RowStatus
      <4> QED
        BY <4>1, <4>2 DEF StatusKept
  <2>2. ExecutorsKept
    BY <1>2 DEF Heartbeat, ExecutorsKept, Executing
  <2> QED
    BY <2>1, <2>2, Stutters
<1>3. ASSUME Finish(w) \/ FinishFails(w) \/ Recover(w) \/ RecoverFails(w)
      PROVE  Executing(w) /\ ExecutorsLeave({w})
  <2>0. DOMAIN pc = Workers /\ DOMAIN cur = Workers
    BY <1>0 DEF TypeOK
  <2>1. CASE Finish(w) \/ FinishFails(w)
    BY <2>0, <2>1 DEF Finish, FinishFails, Executing, ExecutorsLeave
  <2>2. CASE Recover(w) \/ RecoverFails(w)
    BY <2>0, <2>2 DEF Recover, RecoverFails, ToIdle, Executing, ExecutorsLeave
  <2> QED
    BY <1>3, <2>1, <2>2
<1>4. CASE Finish(w) \/ Recover(w)
  <2>1. \E s \in Terminal : \E e : FinishOwned(w[1], cur[w], s, e)
    BY <1>4 DEF Finish, Recover, Terminal
  <2> QED
    BY <1>3, <1>4, <2>1, FinishRefines
<1>5. CASE FinishFails(w) \/ RecoverFails(w)
  <2>1. StatusKept
    BY <1>5 DEF FinishFails, RecoverFails, StatusKept
  <2> QED
    BY <1>3, <1>5, <2>1, Leaves DEF Lifecycle!Next
<1> QED
  BY <1>1, <1>2, <1>4, <1>5 DEF Executes

\* CancelTask aborts a task that has not ended; its other steps and the ageing
\* of rows are not seen.
LEMMA CancelRefines ==
    ASSUME IInv, NEW t \in Tasks,
           (\E r \in Runners : CancelCheck(r, t)) \/ CancelGoesOn(t) \/ Ages(t)
    PROVE  [Lifecycle!Next]_(Lifecycle!vars)
<1> USE DEF memoryVars, callVars, workerVars
<1>1. ExecutorsKept
  BY DEF CancelCheck, CancelGoesOn, CancelMark, CancelFails, CancelLocal, Ages, ExecutorsKept,
         Executing
<1>2. CASE row' = row
  BY <1>1, <1>2, Stutters DEF StatusKept
<1>3. CASE row[t].status \in Active /\ row' = [row EXCEPT ![t] = Unleased("failed", "canceled")]
  <2>1. statusBar[t] \in Active /\ statusBar' = [statusBar EXCEPT ![t] = "failed"]
    BY <1>3 DEF IInv, TypeOK, statusBar, Unleased
  <2>2. Lifecycle!Abort(t)
    BY <1>1, <2>1, StatusChanges DEF Lifecycle!Abort, Active
  <2> QED
    BY <2>2 DEF Lifecycle!Next
<1> QED
  BY <1>2, <1>3 DEF CancelCheck, CancelGoesOn, CancelMark, CancelFails, CancelLocal, Ages

\* Only rows that no worker executes are reclaimed, since the lease of a worker
\* that executes has not expired; only ended rows are purged; and a process
\* that stops takes its workers from their tasks.
LEMMA RunnerRefines ==
    ASSUME IInv, MaxGap <= LeaseDuration, NEW r \in Runners,
           Reclaim(r) \/ Cleanup(r) \/ Shutdown(r) \/ Exit(r) \/ Crash(r) \/ Restart(r)
    PROVE  [Lifecycle!Next]_(Lifecycle!vars)
<1>0. TypeOK
  BY DEF IInv
<1> USE DEF memoryVars, callVars, workerVars
<1>1. CASE Reclaim(r)
  <2> DEFINE S == {t \in Tasks : Expired(t)}
  <2>1. \A v \in Workers : Executing(v) => cur[v] \notin S
    BY <1>0, CoveredUnexpired DEF IInv, LeaseCovers
  <2>2. \A t \in S : statusBar[t] = "running" /\ executorsBar[t] = {}
    BY <2>1 DEF statusBar, executorsBar, Expired
  <2>3. statusBar' = [t \in Tasks |-> IF t \in S THEN "pending" ELSE statusBar[t]]
    <3>1. \A t \in Tasks : [row[t] EXCEPT !.status = "pending", !.owner = None].status = "pending"
      BY <1>0, RowStatus DEF TypeOK
    <3> QED
      BY <1>1, <3>1 DEF Reclaim, statusBar
  <2>4. executorsBar' = executorsBar
    BY <1>1, StatusChanges DEF Reclaim, ExecutorsKept, Executing
  <2>5. Lifecycle!Requeue(S)
    BY <2>2, <2>3, <2>4 DEF Lifecycle!Requeue
  <2> QED
    BY <2>5 DEF Lifecycle!Next
<1>2. CASE Cleanup(r)
  <2> DEFINE S == {t \in Tasks : old[t] = "finished" /\ row[t].status \in Terminal}
  <2>1. \A t \in S : statusBar[t] \in Lifecycle!Ended
    BY DEF statusBar, Terminal, Lifecycle!Ended
  <2>2. statusBar' = [t \in Tasks |-> IF t \in S THEN "purged" ELSE statusBar[t]]
    BY <1>2 DEF Cleanup, statusBar, Unleased
  <2>3. executorsBar' = executorsBar
    BY <1>2, StatusChanges DEF Cleanup, ExecutorsKept, Executing
  <2>4. Lifecycle!Purge(S)
    BY <2>1, <2>2, <2>3 DEF Lifecycle!Purge
  <2> QED
    BY <2>4 DEF Lifecycle!Next
<1>3. CASE Shutdown(r) \/ Restart(r)
  BY <1>3, Stutters DEF Shutdown, Restart, StatusKept, ExecutorsKept, Executing
<1>4. CASE Exit(r) \/ Crash(r)
  <2>1. Stops(r)
    BY <1>4 DEF Exit, Crash
  <2>2. StatusKept /\ ExecutorsLeave(WorkersOf(r))
    BY <2>1 DEF Stops, StatusKept, ExecutorsLeave, Executing
  <2>3. WorkersOf(r) \in SUBSET Workers
    BY DEF WorkersOf
  <2> QED
    BY <2>2, <2>3, Leaves DEF Lifecycle!Next
<1> QED
  BY <1>1, <1>2, <1>3, <1>4

\* Every step of the runner is a step of the lifecycle or changes nothing it sees.
LEMMA LifecycleStep ==
    MaxGap <= LeaseDuration /\ IInv /\ [Next]_vars => [Lifecycle!Next]_(Lifecycle!vars)
<1> SUFFICES ASSUME MaxGap <= LeaseDuration, IInv, [Next]_vars
             PROVE  [Lifecycle!Next]_(Lifecycle!vars)
  OBVIOUS
<1>1. CASE Tick
  <2>1. StatusKept
    <3>1. \A t \in Tasks : row'[t] \in {row[t], [row[t] EXCEPT !.lease = @ - 1]}
      BY <1>1 DEF Tick
    <3> QED
      <4>1. \A t \in Tasks : row[t] \in Row /\ [row[t] EXCEPT !.lease = @ - 1].status = row[t].status
        BY RowStatus DEF IInv, TypeOK
      <4> QED
        BY <3>1, <4>1 DEF StatusKept
  <2>2. ExecutorsKept
    BY <1>1 DEF Tick, ExecutorsKept, Executing
  <2> QED
    BY <2>1, <2>2, Stutters
<1>2. CASE UNCHANGED vars
  BY <1>2, Stutters DEF vars, StatusKept, ExecutorsKept, Executing
<1> QED
  BY <1>1, <1>2, ScheduleRefines, CancelRefines, ClaimsRefine, ExecutesRefine, RunnerRefines
     DEF Next

\* The runner keeps the promises of TaskLifecycle, for every number of tasks,
\* runners and workers, with cancellation and cleanup at any time, when live
\* workers reach the database within the lease.
THEOREM RunnerImplementsLifecycle == MaxGap <= LeaseDuration => (Spec => LifecycleSpec)
<1> SUFFICES ASSUME MaxGap <= LeaseDuration PROVE Spec => LifecycleSpec
  OBVIOUS
<1>1. Spec => []IInv
  BY LeasesKept
<1>2. IInv /\ [Next]_vars => [Lifecycle!Next]_(Lifecycle!vars)
  BY LifecycleStep
<1> QED
  BY <1>1, <1>2, LifecycleInit, PTL DEF Spec, LifecycleSpec, Lifecycle!Spec
=============================================================================
