-------------------------- MODULE MemoryRunnerProofs --------------------------
(***************************************************************************)
(* Proofs about MemoryRunner, for every set of tasks and workers and every *)
(* capacity of the channel.                                                *)
(***************************************************************************)
EXTENDS MemoryRunner, SequenceTheorems, TLAPS

\* What updateState starts from is an entry.
LEMMA UpdatedEntry ==
    ASSUME TypeOK, NEW t \in Tasks
    PROVE  Updated(t) \in Entry
  BY DEF TypeOK, Updated, NoEntry, Entry

\* What is written at the end of a task is an entry.
LEMMA EndedEntry ==
    ASSUME TypeOK, NEW t \in Tasks, NEW s \in {"succeeded", "failed"},
           NEW e \in {"none", "canceled", "queue full", "no handler", "handler"}
    PROVE  Ended(t, s, e) \in Entry
  BY UpdatedEntry DEF Ended, Entry

\* A write of one entry keeps the type of the map.
LEMMA WrittenEntry ==
    ASSUME TypeOK, NEW t \in Tasks, NEW x \in Entry, UpdateState(t, x)
    PROVE  entry' \in [Tasks -> Entry]
  BY DEF TypeOK, UpdateState

\* The channel after a send.
LEMMA SentQueue ==
    ASSUME TypeOK, NEW t \in Tasks, Len(queue) < QueueSize
    PROVE  /\ Append(queue, t) \in Seq(Tasks)
           /\ Len(Append(queue, t)) = Len(queue) + 1
           /\ Len(Append(queue, t)) <= QueueSize
           /\ \A i \in 1 .. Len(queue) : Append(queue, t)[i] = queue[i]
           /\ Append(queue, t)[Len(queue) + 1] = t
<1>1. queue \in Seq(Tasks) /\ QueueSize \in Nat /\ Len(queue) \in Nat
  BY MemoryRunnerAssumption, LenProperties DEF TypeOK
<1> QED
  BY <1>1

\* The channel after a receive.
LEMMA ReceivedQueue ==
    ASSUME TypeOK, queue # <<>>
    PROVE  /\ Head(queue) \in Tasks
           /\ Head(queue) = queue[1]
           /\ Len(queue) \in Nat \ {0}
           /\ Tail(queue) \in Seq(Tasks)
           /\ Len(Tail(queue)) = Len(queue) - 1
           /\ \A i \in 1 .. Len(Tail(queue)) : Tail(queue)[i] = queue[i + 1]
<1>1. queue \in Seq(Tasks)
  BY DEF TypeOK
<1>2. /\ Head(queue) \in Tasks
      /\ Tail(queue) \in Seq(Tasks)
      /\ Len(Tail(queue)) = Len(queue) - 1
      /\ \A i \in 1 .. Len(Tail(queue)) : Tail(queue)[i] = queue[i + 1]
  BY <1>1, HeadTailProperties
<1>3. Len(queue) \in Nat \ {0}
  BY <1>1, EmptySeq
<1>4. Head(queue) = queue[1]
  BY <1>1
<1> QED
  BY <1>2, <1>3, <1>4

\* A worker that has a task has one of Tasks; the others have none.
Held ==
    \A w \in Workers : IF pc[w] \in {"waiting", "gone"} THEN cur[w] = NoTask ELSE cur[w] \in Tasks

\* Every variable has its type, and workers know their tasks.
TypeInv == TypeOK /\ Held

\* The initial state has the types.
LEMMA TypeInit == Init => TypeInv
<1> SUFFICES ASSUME Init PROVE TypeInv
  OBVIOUS
<1>1. NoEntry \in Entry
  BY DEF NoEntry, Entry
<1>2. queue \in Seq(Tasks) /\ Len(queue) <= QueueSize
  BY MemoryRunnerAssumption, EmptySeq DEF Init
<1> QED
  BY <1>1, <1>2 DEF Init, TypeInv, TypeOK, Held

\* The steps of ScheduleTask keep the types.
LEMMA ScheduleType ==
    ASSUME TypeInv, NEW t \in Tasks, Schedule(t) \/ ScheduleGoesOn(t)
    PROVE  TypeInv'
<1> USE DEF TypeInv
<1>1. CASE Schedule(t)
  <2>1. [Updated(t) EXCEPT !.status = "pending", !.scheduled = TRUE] \in Entry
    BY UpdatedEntry DEF Entry
  <2>2. entry' \in [Tasks -> Entry]
    BY <1>1, <2>1, WrittenEntry DEF Schedule
  <2> QED
    BY <1>1, <2>2 DEF Schedule, TypeOK, Held, workerVars
<1>2. CASE Arm(t)
  BY <1>2 DEF Arm, TypeOK, Held, workerVars
<1>3. CASE Send(t)
  <2>1. queue' \in Seq(Tasks) /\ Len(queue') <= QueueSize
    BY <1>3, SentQueue DEF Send
  <2> QED
    BY <1>3, <2>1 DEF Send, TypeOK, Held, workerVars
<1>4. CASE SendFull(t)
  BY <1>4 DEF SendFull, TypeOK, Held, workerVars
<1>5. CASE Refuse(t)
  <2>1. entry' \in [Tasks -> Entry]
    BY <1>5, EndedEntry, WrittenEntry DEF Refuse
  <2> QED
    BY <1>5, <2>1 DEF Refuse, TypeOK, Held, workerVars
<1>6. CASE SendPanics(t)
  BY <1>6 DEF SendPanics, TypeOK, Held, workerVars
<1> QED
  BY <1>1, <1>2, <1>3, <1>4, <1>5, <1>6 DEF ScheduleGoesOn

\* The steps of CancelTask, of the cleanup and of the readers of events keep the
\* types.
LEMMA CancelType ==
    ASSUME TypeInv, NEW t \in Tasks, CancelLoad(t) \/ CancelGoesOn(t) \/ CleanupDeletes(t) \/ Progress(t)
    PROVE  TypeInv'
<1> USE DEF TypeInv
<1>1. CASE CancelLoad(t)
  BY <1>1 DEF CancelLoad, TypeOK, Held, workerVars
<1>2. CASE CancelContext(t)
  BY <1>2 DEF CancelContext, TypeOK, Held, workerVars
<1>3. CASE CancelMark(t)
  <2>1. entry' \in [Tasks -> Entry]
    BY <1>3, EndedEntry, WrittenEntry DEF CancelMark
  <2> QED
    BY <1>3, <2>1 DEF CancelMark, TypeOK, Held, workerVars
<1>4. CASE CleanupDeletes(t)
  <2>1. entry' \in [Tasks -> Entry]
    BY <1>4, WrittenEntry DEF CleanupDeletes, NoEntry, Entry
  <2> QED
    BY <1>4, <2>1 DEF CleanupDeletes, TypeOK, Held, workerVars
<1>5. CASE Progress(t)
  <2>1. entry' \in [Tasks -> Entry]
    BY <1>5, UpdatedEntry, WrittenEntry DEF Progress
  <2> QED
    BY <1>5, <2>1 DEF Progress, TypeOK, Held, workerVars
<1> QED
  BY <1>1, <1>2, <1>3, <1>4, <1>5 DEF CancelGoesOn

\* The steps of a worker keep the types.
LEMMA WorkerType ==
    ASSUME TypeInv, NEW w \in Workers, Works(w) \/ Leave(w) \/ Panic(w)
    PROVE  TypeInv'
<1> USE DEF TypeInv
<1>1. CASE Take(w)
  <2>1. Head(queue) \in Tasks /\ queue' \in Seq(Tasks) /\ Len(queue') <= QueueSize
    <3>1. Len(queue) \in Nat /\ QueueSize \in Nat /\ Len(queue) <= QueueSize
      BY <1>1, ReceivedQueue, MemoryRunnerAssumption DEF Take, TypeOK
    <3> QED
      BY <1>1, <3>1, ReceivedQueue DEF Take
  <2>2. Head(queue) # NoTask
    BY <2>1, MemoryRunnerAssumption
  <2> QED
    BY <1>1, <2>1, <2>2 DEF Take, TypeOK, Held
<1>2. CASE Begin(w)
  <2>1. cur[w] \in Tasks
    BY <1>2 DEF Begin, Held
  <2>2. /\ [Updated(cur[w]) EXCEPT !.status = "running"] \in Entry
        /\ Ended(cur[w], "failed", "no handler") \in Entry
    <3>1. Updated(cur[w]) \in Entry
      BY <2>1, UpdatedEntry
    <3>2. [Updated(cur[w]) EXCEPT !.status = "running"] \in Entry
      BY <3>1 DEF Entry
    <3>3. Ended(cur[w], "failed", "no handler") \in Entry
      BY <2>1, EndedEntry
    <3> QED
      BY <3>2, <3>3
  <2>3. entry' \in [Tasks -> Entry]
    BY <1>2, <2>1, <2>2, WrittenEntry DEF Begin
  <2>4. pc' \in [Workers -> {"waiting", "taken", "handling", "returned", "ending", "recovered", "gone"}]
    <3>1. \E s \in {"handling", "ending"} : pc' = [pc EXCEPT ![w] = s]
      BY <1>2 DEF Begin
    <3> QED
      BY <3>1 DEF TypeOK
  <2>5. UNCHANGED <<canceler, ctxDone, queue, call, cancel, cur, outcome, run, doomed>>
        /\ reporting' \in {reporting, reporting \union {cur[w]}}
    BY <1>2 DEF Begin
  <2>6. Held'
    BY <1>2, <2>1, <2>5 DEF Begin, TypeOK, Held
  <2> QED
    BY <2>1, <2>3, <2>4, <2>5, <2>6 DEF TypeOK
<1>3. CASE Return(w)
  BY <1>3 DEF Return, TypeOK, Held
<1>4. CASE Finish(w)
  <2>1. cur[w] \in Tasks /\ outcome[w] \in {"none", "succeeded", "handler", "canceled"}
    BY <1>4 DEF Finish, Held, TypeOK
  <2>2. entry' \in [Tasks -> Entry]
    <3>1. CASE outcome[w] = "succeeded"
      BY <1>4, <2>1, <3>1, EndedEntry, WrittenEntry DEF Finish
    <3>2. CASE outcome[w] # "succeeded"
      BY <1>4, <2>1, <3>2, EndedEntry, WrittenEntry DEF Finish
    <3> QED
      BY <3>1, <3>2
  <2> QED
    BY <1>4, <2>1, <2>2 DEF Finish, TypeOK, Held
<1>5. CASE End(w)
  BY <1>5 DEF End, ToWaiting, TypeOK, Held
<1>6. CASE Recover(w)
  <2>1. cur[w] \in Tasks
    BY <1>6 DEF Recover, Held
  <2>2. entry' \in [Tasks -> Entry]
    BY <1>6, <2>1, EndedEntry, WrittenEntry DEF Recover
  <2> QED
    BY <1>6, <2>2 DEF Recover, ToWaiting, TypeOK, Held
<1>7. CASE Leave(w)
  BY <1>7 DEF Leave, TypeOK, Held
<1>8. CASE Panic(w)
  BY <1>8 DEF Panic, TypeOK, Held
<1> QED
  BY <1>1, <1>2, <1>3, <1>4, <1>5, <1>6, <1>7, <1>8 DEF Works

\* The steps of Run keep the types.
LEMMA RunType ==
    ASSUME TypeInv, RunGoesOn \/ RunStops \/ CleanupChooses
    PROVE  TypeInv'
<1> USE DEF TypeInv
<1>1. CASE CleanupChooses
  BY <1>1 DEF CleanupChooses, TypeOK, Held, workerVars
<1>2. CASE RunGoesOn \/ RunStops
  BY <1>2 DEF RunGoesOn, RunStops, RunStarts, RunCloses, RunReturns, RunMoves, TypeOK, Held, workerVars
<1> QED
  BY <1>1, <1>2

\* Every step keeps the types.
LEMMA TypeNext == TypeInv /\ [Next]_vars => TypeInv'
<1> SUFFICES ASSUME TypeInv, [Next]_vars PROVE TypeInv'
  OBVIOUS
<1>1. CASE UNCHANGED vars
  BY <1>1 DEF vars, TypeInv, TypeOK, Held
<1> QED
  BY <1>1, ScheduleType, CancelType, WorkerType, RunType DEF Next

\* Every variable keeps its type; in particular the channel never holds more
\* than its capacity.
THEOREM TypeCorrect == Spec => []TypeOK
<1>1. TypeInv => TypeOK
  BY DEF TypeInv
<1> QED
  BY TypeInit, TypeNext, <1>1, PTL DEF Spec

-----------------------------------------------------------------------------
(***************************************************************************)
(* A refused task is never executed: whatever is in the channel or in the  *)
(* hands of a worker was sent, and a call that sent cannot be refused.     *)
(***************************************************************************)
SentOnly ==
    /\ \A i \in 1 .. Len(queue) : call[queue[i]] = "sent"
    /\ \A w \in Workers : cur[w] # NoTask => call[cur[w]] = "sent"
    /\ \A t \in reporting : call[t] = "sent"

RefusedInv == TypeInv /\ SentOnly

\* A step that changes neither the channel nor the hands of the workers, and
\* moves no call that has sent, keeps SentOnly.
LEMMA SentKept ==
    ASSUME RefusedInv, UNCHANGED <<queue, cur>>, reporting' \subseteq reporting,
           \A t \in Tasks : call[t] = "sent" => call'[t] = "sent"
    PROVE  SentOnly'
<1>1. \A i \in 1 .. Len(queue) : queue[i] \in Tasks
  BY ElementOfSeq DEF RefusedInv, TypeInv, TypeOK
<1>2. \A w \in Workers : cur[w] # NoTask => cur[w] \in Tasks
  BY DEF RefusedInv, TypeInv, TypeOK
<1>3. reporting \subseteq Tasks
  BY DEF RefusedInv, TypeInv, TypeOK
<1> QED
  BY <1>1, <1>2, <1>3 DEF RefusedInv, SentOnly

\* The steps of ScheduleTask keep SentOnly.
LEMMA SentSchedule ==
    ASSUME RefusedInv, NEW t \in Tasks, Schedule(t) \/ ScheduleGoesOn(t)
    PROVE  SentOnly'
<1>1. call \in [Tasks -> {"idle", "pending", "armed", "sent", "full", "refused", "panicked"}]
  BY DEF RefusedInv, TypeInv, TypeOK
<1>2. CASE Schedule(t) \/ Arm(t) \/ SendFull(t) \/ Refuse(t) \/ SendPanics(t)
  <2>1. UNCHANGED <<queue, cur, reporting>> /\ \A u \in Tasks : call[u] = "sent" => call'[u] = "sent"
    BY <1>1, <1>2 DEF Schedule, Arm, SendFull, Refuse, SendPanics, workerVars
  <2> QED
    BY <2>1, SentKept
<1>3. CASE Send(t)
  <2>1. /\ Len(queue') = Len(queue) + 1
        /\ Len(queue) \in Nat
        /\ \A i \in 1 .. Len(queue) : queue'[i] = queue[i]
        /\ queue'[Len(queue) + 1] = t
    BY <1>3, SentQueue, LenProperties DEF Send, RefusedInv, TypeInv, TypeOK
  <2>2. call' = [call EXCEPT ![t] = "sent"] /\ cur' = cur /\ reporting' = reporting
    BY <1>3 DEF Send, workerVars
  <2>3. \A u \in Tasks : call[u] = "sent" => call'[u] = "sent"
    BY <1>1, <2>2
  <2>4. \A i \in 1 .. Len(queue) : queue[i] \in Tasks
    BY ElementOfSeq DEF RefusedInv, TypeInv, TypeOK
  <2>5. \A i \in 1 .. Len(queue) : call'[queue[i]] = "sent"
    BY <2>3, <2>4 DEF RefusedInv, SentOnly
  <2>6. \A i \in 1 .. Len(queue') : call'[queue'[i]] = "sent"
    BY <1>1, <2>1, <2>2, <2>5
  <2>7. \A w \in Workers : cur[w] # NoTask => call'[cur[w]] = "sent"
    BY <2>3 DEF RefusedInv, SentOnly, TypeInv, TypeOK
  <2>8. \A u \in reporting' : call'[u] = "sent"
    BY <2>2, <2>3 DEF RefusedInv, SentOnly, TypeInv, TypeOK
  <2> QED
    BY <2>2, <2>6, <2>7, <2>8 DEF SentOnly
<1> QED
  BY <1>2, <1>3 DEF ScheduleGoesOn

\* The steps of a worker keep SentOnly.
LEMMA SentWorker ==
    ASSUME RefusedInv, NEW w \in Workers, Works(w) \/ Leave(w) \/ Panic(w)
    PROVE  SentOnly'
<1>1. CASE Take(w)
  <2>1. /\ Head(queue) = queue[1]
        /\ Len(queue) \in Nat \ {0}
        /\ Len(Tail(queue)) = Len(queue) - 1
        /\ \A i \in 1 .. Len(Tail(queue)) : Tail(queue)[i] = queue[i + 1]
    BY <1>1, ReceivedQueue DEF Take, RefusedInv, TypeInv
  <2>2. /\ call' = call /\ queue' = Tail(queue) /\ cur' = [cur EXCEPT ![w] = Head(queue)]
        /\ reporting' = reporting
    BY <1>1 DEF Take
  <2>3. \A i \in 1 .. Len(queue') : call'[queue'[i]] = "sent"
    BY <2>1, <2>2 DEF RefusedInv, SentOnly
  <2>4. call[Head(queue)] = "sent"
    BY <2>1 DEF RefusedInv, SentOnly
  <2>5. \A v \in Workers : cur'[v] # NoTask => call'[cur'[v]] = "sent"
    BY <2>2, <2>4 DEF RefusedInv, SentOnly, TypeInv, TypeOK
  <2> QED
    BY <2>2, <2>3, <2>5 DEF RefusedInv, SentOnly
<1>2. CASE End(w) \/ Recover(w)
  <2>1. UNCHANGED <<call, queue>> /\ cur' = [cur EXCEPT ![w] = NoTask] /\ reporting' \subseteq reporting
    BY <1>2 DEF End, Recover, ToWaiting
  <2> QED
    BY <2>1 DEF RefusedInv, SentOnly, TypeInv, TypeOK
<1>3. CASE Return(w) \/ Finish(w) \/ Leave(w) \/ Panic(w)
  <2>1. UNCHANGED <<queue, cur, call>> /\ reporting' \subseteq reporting
    BY <1>3 DEF Return, Finish, Leave, Panic, workerVars
  <2> QED
    BY <2>1, SentKept
<1>4. CASE Begin(w)
  <2>1. UNCHANGED <<queue, cur, call>> /\ reporting' \subseteq reporting \union {cur[w]}
    BY <1>4 DEF Begin
  <2>2. cur[w] # NoTask
    BY <1>4, MemoryRunnerAssumption DEF Begin, RefusedInv, TypeInv, Held
  <2> QED
    BY <2>1, <2>2 DEF RefusedInv, SentOnly
<1> QED
  BY <1>1, <1>2, <1>3, <1>4 DEF Works

\* Every step keeps the invariant.
LEMMA RefusedNext == RefusedInv /\ [Next]_vars => RefusedInv'
<1> SUFFICES ASSUME RefusedInv, [Next]_vars PROVE RefusedInv'
  OBVIOUS
<1>1. TypeInv'
  BY TypeNext DEF RefusedInv
<1>2. CASE UNCHANGED vars
  BY <1>2, SentKept, <1>1 DEF vars, RefusedInv
<1>3. ASSUME NEW t \in Tasks, CancelLoad(t) \/ CancelGoesOn(t) \/ CleanupDeletes(t) \/ Progress(t)
      PROVE  SentOnly'
  <2>1. UNCHANGED <<queue, cur, call, reporting>>
    BY <1>3 DEF CancelLoad, CancelGoesOn, CancelContext, CancelMark, CleanupDeletes, Progress, workerVars
  <2> QED
    BY <2>1, SentKept
<1>4. CASE RunGoesOn \/ RunStops \/ CleanupChooses
  <2>1. UNCHANGED <<queue, cur, call, reporting>>
    BY <1>4 DEF RunGoesOn, RunStops, RunStarts, RunCloses, RunReturns, RunMoves, CleanupChooses,
                workerVars
  <2> QED
    BY <2>1, SentKept, <1>1 DEF RefusedInv
<1> QED
  BY <1>1, <1>2, <1>3, <1>4, SentSchedule, SentWorker DEF Next, RefusedInv

\* A task ScheduleTask refused because the channel was full is never executed,
\* whatever the capacity and however many callers fill the channel at once.
THEOREM Refused == Spec => []RefusedNeverRuns
<1>1. Init => RefusedInv
  <2> SUFFICES ASSUME Init PROVE RefusedInv
    OBVIOUS
  <2>1. Len(queue) = 0
    BY DEF Init
  <2> QED
    BY <2>1, TypeInit DEF Init, RefusedInv, SentOnly
<1>2. RefusedInv => RefusedNeverRuns
  BY MemoryRunnerAssumption DEF RefusedInv, SentOnly, RefusedNeverRuns
<1> QED
  BY <1>1, <1>2, RefusedNext, PTL DEF Spec

-----------------------------------------------------------------------------
(***************************************************************************)
(* Cancellation and shutdown.                                              *)
(***************************************************************************)

\* A worker leaves for good, and Run returns only when every one has left.
AllGone == run = "stopped" => \A w \in Workers : pc[w] = "gone"

\* When Run returns no handler is running any more and none will start, for
\* every number of workers and whatever is still in the channel.
THEOREM Stopped == Spec => []StoppedIsQuiet
<1> DEFINE Inv == TypeInv /\ AllGone
<1>1. Init => Inv
  BY TypeInit DEF Init, AllGone
<1>2. Inv /\ [Next]_vars => Inv'
  <2> SUFFICES ASSUME Inv, [Next]_vars PROVE AllGone'
    BY TypeNext
  <2> USE DEF AllGone
  <2>1. CASE UNCHANGED vars
    BY <2>1 DEF vars
  <2>2. ASSUME NEW t \in Tasks, \/ Schedule(t) \/ ScheduleGoesOn(t) \/ CancelLoad(t)
                                \/ CancelGoesOn(t) \/ CleanupDeletes(t) \/ Progress(t)
        PROVE  AllGone'
    <3>1. UNCHANGED <<run, pc>>
      BY <2>2 DEF Schedule, ScheduleGoesOn, Arm, Send, SendFull, Refuse, SendPanics, CancelLoad,
                  CancelGoesOn, CancelContext, CancelMark, CleanupDeletes, Progress, workerVars
    <3> QED
      BY <3>1
  <2>3. ASSUME NEW w \in Workers, Works(w) \/ Leave(w) \/ Panic(w)
        PROVE  AllGone'
    <3>1. pc[w] # "gone" /\ run' = run
      BY <2>3 DEF Works, Take, Begin, Return, Finish, End, Recover, Leave, Panic
    <3> QED
      BY <3>1
  <2>4. CASE RunGoesOn \/ RunStops \/ CleanupChooses
    BY <2>4 DEF RunGoesOn, RunStops, RunStarts, RunCloses, RunReturns, RunMoves, CleanupChooses,
                workerVars
  <2> QED
    BY <2>1, <2>2, <2>3, <2>4 DEF Next
<1>3. Inv => StoppedIsQuiet
  BY DEF AllGone, StoppedIsQuiet, Executing
<1> QED
  BY <1>1, <1>2, <1>3, PTL DEF Spec

-----------------------------------------------------------------------------
(***************************************************************************)
(* The runner implements TaskLifecycle for the tasks nobody cancels.  What *)
(* carries it: a task is at most once in the channel or in the hands of a  *)
(* worker, and its entry is as far as the goroutine that has it.           *)
(***************************************************************************)
Once ==
    /\ \A i, j \in 1 .. Len(queue) : queue[i] = queue[j] => i = j
    /\ \A i \in 1 .. Len(queue), w \in Workers : queue[i] # cur[w]
    /\ \A v, w \in Workers : cur[v] = cur[w] /\ cur[v] # NoTask => v = w

\* The entry has this status and no outcome.
Open(t, status) == entry[t].status = status /\ ~entry[t].finished

InHand == {"handling", "returned", "recovered"}

\* The entry of a task nobody cancels, by its ScheduleTask call; the cleanup
\* only chose it if it ended.
CallPhase ==
    \A t \in Kept :
        /\ cancel[t] = "idle"
        /\ call[t] = "idle" => entry[t] = NoEntry
        /\ call[t] \in {"pending", "armed", "full", "panicked"} => Open(t, "pending")
        /\ entry[t].finished => entry[t].status \in Terminal
        /\ t \in doomed => entry[t].finished

QueuePhase == \A i \in 1 .. Len(queue) : queue[i] \in Kept => Open(queue[i], "pending")

HandPhase ==
    \A w \in Workers :
        cur[w] \in Kept =>
            /\ pc[w] = "taken" => Open(cur[w], "pending")
            /\ pc[w] \in InHand => Open(cur[w], "running")

KeptInv == RefusedInv /\ Once /\ CallPhase /\ QueuePhase /\ HandPhase

\* A step that changes neither the channel nor what the workers hold keeps Once.
LEMMA OnceKept == Once /\ UNCHANGED <<queue, cur>> => Once'
  BY DEF Once

\* A task is sent once, so it is not yet in the channel nor in any hand.
LEMMA OnceSend ==
    ASSUME RefusedInv, Once, NEW t \in Tasks, Send(t)
    PROVE  Once'
<1>1. /\ Len(queue') = Len(queue) + 1
      /\ Len(queue) \in Nat
      /\ \A i \in 1 .. Len(queue) : queue'[i] = queue[i]
      /\ queue'[Len(queue) + 1] = t
      /\ cur' = cur
  BY SentQueue, LenProperties DEF Send, RefusedInv, TypeInv, TypeOK, workerVars
<1>2. call[t] = "armed" /\ NoTask # t
  BY MemoryRunnerAssumption DEF Send
<1>3. /\ \A i \in 1 .. Len(queue) : queue[i] # t
      /\ \A w \in Workers : cur[w] # t
  BY <1>2 DEF RefusedInv, SentOnly
<1>4. \A i, j \in 1 .. Len(queue') : queue'[i] = queue'[j] => i = j
  BY <1>1, <1>3 DEF Once
<1>5. \A i \in 1 .. Len(queue'), w \in Workers : queue'[i] # cur[w]
  BY <1>1, <1>3 DEF Once
<1> QED
  BY <1>1, <1>4, <1>5 DEF Once

\* A worker receives a task that leaves the channel for good.
LEMMA OnceTake ==
    ASSUME RefusedInv, Once, NEW w \in Workers, Take(w)
    PROVE  Once'
<1>1. /\ Head(queue) = queue[1]
      /\ Len(queue) \in Nat \ {0}
      /\ Len(queue') = Len(queue) - 1
      /\ \A i \in 1 .. Len(queue') : queue'[i] = queue[i + 1]
  BY ReceivedQueue DEF Take, RefusedInv, TypeInv
<1>2. cur' = [cur EXCEPT ![w] = queue[1]]
  BY <1>1 DEF Take
<1>3. \A i, j \in 1 .. Len(queue') : queue'[i] = queue'[j] => i = j
  BY <1>1 DEF Once
<1>4. \A i \in 1 .. Len(queue'), v \in Workers : queue'[i] # cur'[v]
  BY <1>1, <1>2 DEF Once, RefusedInv, TypeInv, TypeOK
<1>5. \A u, v \in Workers : cur'[u] = cur'[v] /\ cur'[u] # NoTask => u = v
  BY <1>1, <1>2 DEF Once, RefusedInv, TypeInv, TypeOK
<1> QED
  BY <1>3, <1>4, <1>5 DEF Once

\* Every step keeps Once.
LEMMA OnceNext == RefusedInv /\ Once /\ [Next]_vars => Once'
<1> SUFFICES ASSUME RefusedInv, Once, [Next]_vars PROVE Once'
  OBVIOUS
<1>1. ASSUME NEW w \in Workers, End(w) \/ Recover(w) PROVE Once'
  <2>1. queue' = queue /\ cur' = [cur EXCEPT ![w] = NoTask]
    BY <1>1 DEF End, Recover, ToWaiting
  <2>2. \A i \in 1 .. Len(queue) : queue[i] # NoTask
    BY ElementOfSeq, MemoryRunnerAssumption DEF RefusedInv, TypeInv, TypeOK
  <2> QED
    BY <2>1, <2>2 DEF Once, RefusedInv, TypeInv, TypeOK
<1>2. ASSUME NEW t \in Tasks,
             \/ Schedule(t) \/ Arm(t) \/ SendFull(t) \/ Refuse(t) \/ SendPanics(t)
             \/ CancelLoad(t) \/ CancelGoesOn(t) \/ CleanupDeletes(t) \/ Progress(t)
      PROVE  Once'
  BY <1>2, OnceKept DEF Schedule, Arm, SendFull, Refuse, SendPanics, CancelLoad, CancelGoesOn,
                        CancelContext, CancelMark, CleanupDeletes, Progress, workerVars
<1>3. ASSUME NEW w \in Workers,
             Begin(w) \/ Return(w) \/ Finish(w) \/ Leave(w) \/ Panic(w)
      PROVE  Once'
  BY <1>3, OnceKept DEF Begin, Return, Finish, Leave, Panic, workerVars
<1>4. CASE RunGoesOn \/ RunStops \/ CleanupChooses \/ UNCHANGED vars
  BY <1>4, OnceKept DEF RunGoesOn, RunStops, RunStarts, RunCloses, RunReturns, RunMoves,
                        CleanupChooses, workerVars, vars
<1> QED
  BY <1>1, <1>2, <1>3, <1>4, OnceSend, OnceTake DEF Next, ScheduleGoesOn, Works

\* What an outcome and a progress report leave in an entry.
LEMMA EndedFields ==
    ASSUME TypeOK, NEW t \in Tasks, NEW status, NEW error
    PROVE  /\ Ended(t, status, error).status = status
           /\ Ended(t, status, error).finished = TRUE
<1>1. Updated(t) \in Entry
  BY UpdatedEntry
<1> QED
  BY <1>1 DEF Ended, Entry

\* Only the entry that is written changes.
LEMMA OneEntry ==
    ASSUME TypeOK, NEW t \in Tasks, NEW new, UpdateState(t, new)
    PROVE  /\ entry'[t] = new
           /\ \A u \in Tasks : u # t => entry'[u] = entry[u]
  BY DEF TypeOK, UpdateState

\* A task that ends: its entry has the outcome, the others are as they were.
LEMMA EndedWritten ==
    ASSUME TypeOK, NEW t \in Tasks, NEW status, NEW error, UpdateState(t, Ended(t, status, error))
    PROVE  /\ entry'[t].status = status
           /\ entry'[t].finished = TRUE
           /\ \A u \in Tasks : u # t => entry'[u] = entry[u]
<1>1. entry'[t] = Ended(t, status, error) /\ \A u \in Tasks : u # t => entry'[u] = entry[u]
  BY OneEntry
<1>2. Ended(t, status, error).status = status /\ Ended(t, status, error).finished = TRUE
  BY EndedFields
<1> QED
  BY <1>1, <1>2

\* A task in the channel or in a hand is one of Tasks, and was sent.
LEMMA Places ==
    ASSUME RefusedInv
    PROVE  /\ \A i \in 1 .. Len(queue) : queue[i] \in Tasks /\ call[queue[i]] = "sent"
           /\ \A w \in Workers : cur[w] \in Tasks => call[cur[w]] = "sent"
           /\ Kept \subseteq Tasks /\ NoTask \notin Kept
<1>1. \A i \in 1 .. Len(queue) : queue[i] \in Tasks
  BY ElementOfSeq DEF RefusedInv, TypeInv, TypeOK
<1> QED
  BY <1>1, MemoryRunnerAssumption DEF RefusedInv, SentOnly, Kept

\* The steps of ScheduleTask: the caller has the task until it is sent.
LEMMA PhaseSchedule ==
    ASSUME KeptInv, NEW t \in Tasks, Schedule(t) \/ ScheduleGoesOn(t)
    PROVE  CallPhase' /\ QueuePhase' /\ HandPhase'
<1>0. TypeOK /\ RefusedInv
  BY DEF KeptInv, RefusedInv, TypeInv
<1> USE DEF Open, workerVars
<1>1. CASE Arm(t) \/ SendFull(t) \/ SendPanics(t)
  <2>1. UNCHANGED <<entry, queue, cur, pc, cancel, doomed>>
    BY <1>1 DEF Arm, SendFull, SendPanics
  <2>2. /\ call[t] \in {"pending", "armed"}
        /\ call'[t] \in {"armed", "full", "panicked"}
        /\ \A u \in Tasks : u # t => call'[u] = call[u]
    BY <1>0, <1>1 DEF Arm, SendFull, SendPanics, TypeOK
  <2>3. CallPhase'
    BY <2>1, <2>2, <1>0, Places DEF KeptInv, CallPhase
  <2> QED
    BY <2>1, <2>3 DEF KeptInv, QueuePhase, HandPhase
<1>2. ASSUME NEW new, UpdateState(t, new), call[t] \in {"idle", "full"},
             UNCHANGED <<queue, cur, pc>>
      PROVE  QueuePhase' /\ HandPhase'
  BY <1>0, <1>2, OneEntry, Places DEF KeptInv, QueuePhase, HandPhase
<1>3. CASE Schedule(t)
  <2> DEFINE new == [Updated(t) EXCEPT !.status = "pending", !.scheduled = TRUE]
  <2>1. t \in Kept => new.status = "pending" /\ new.finished = FALSE /\ t \notin doomed
    BY <1>3 DEF Schedule, KeptInv, CallPhase, Updated, NoEntry
  <2>2. UpdateState(t, new) /\ UNCHANGED <<queue, cur, pc, cancel, doomed>>
    BY <1>3 DEF Schedule
  <2>3. call'[t] = "pending" /\ \A u \in Tasks : u # t => call'[u] = call[u]
    BY <1>0, <1>3 DEF Schedule, TypeOK
  <2> HIDE DEF new
  <2>4. entry'[t] = new /\ \A u \in Tasks : u # t => entry'[u] = entry[u]
    BY <1>0, <2>2, OneEntry
  <2>5. CallPhase'
    <3> SUFFICES ASSUME NEW u \in Kept
                 PROVE  /\ cancel'[u] = "idle"
                        /\ call'[u] = "idle" => entry'[u] = NoEntry
                        /\ call'[u] \in {"pending", "armed", "full", "panicked"} => Open(u, "pending")'
                        /\ entry'[u].finished => entry'[u].status \in Terminal
                        /\ u \in doomed' => entry'[u].finished
      BY DEF CallPhase
    <3>1. u \in Tasks /\ cancel'[u] = cancel[u] /\ (u \in doomed' <=> u \in doomed) /\ cancel[u] = "idle"
      BY <1>0, <2>2, Places DEF KeptInv, CallPhase
    <3>2. CASE u = t
      BY <2>1, <2>3, <2>4, <3>1, <3>2
    <3>3. CASE u # t
      BY <2>3, <2>4, <3>1, <3>3 DEF KeptInv, CallPhase
    <3> QED
      BY <3>2, <3>3
  <2> QED
    BY <1>2, <1>3, <2>2, <2>5 DEF Schedule
<1>4. CASE Refuse(t)
  <2>1. UpdateState(t, Ended(t, "failed", "queue full")) /\ UNCHANGED <<queue, cur, pc, cancel, doomed>>
    BY <1>4 DEF Refuse
  <2>2. call'[t] = "refused" /\ \A u \in Tasks : u # t => call'[u] = call[u]
    BY <1>0, <1>4 DEF Refuse, TypeOK
  <2>3. /\ entry'[t].status = "failed" /\ entry'[t].finished
        /\ \A u \in Tasks : u # t => entry'[u] = entry[u]
    BY <1>0, <2>1, EndedWritten
  <2>4. CallPhase'
    <3> SUFFICES ASSUME NEW u \in Kept
                 PROVE  /\ cancel'[u] = "idle"
                        /\ call'[u] = "idle" => entry'[u] = NoEntry
                        /\ call'[u] \in {"pending", "armed", "full", "panicked"} => Open(u, "pending")'
                        /\ entry'[u].finished => entry'[u].status \in Terminal
                        /\ u \in doomed' => entry'[u].finished
      BY DEF CallPhase
    <3>1. u \in Tasks /\ cancel'[u] = cancel[u] /\ (u \in doomed' <=> u \in doomed) /\ cancel[u] = "idle"
      BY <1>0, <2>1, Places DEF KeptInv, CallPhase
    <3>2. CASE u = t
      BY <2>2, <2>3, <3>1, <3>2 DEF Terminal
    <3>3. CASE u # t
      BY <2>2, <2>3, <3>1, <3>3 DEF KeptInv, CallPhase
    <3> QED
      BY <3>2, <3>3
  <2> QED
    BY <1>2, <1>4, <2>1, <2>4 DEF Refuse
<1>5. CASE Send(t)
  <2>1. /\ Len(queue') = Len(queue) + 1
        /\ Len(queue) \in Nat
        /\ \A i \in 1 .. Len(queue) : queue'[i] = queue[i]
        /\ queue'[Len(queue) + 1] = t
    BY <1>0, <1>5, SentQueue, LenProperties DEF Send, RefusedInv, TypeInv, TypeOK
  <2>2. UNCHANGED <<entry, cur, pc, cancel, doomed>>
    BY <1>5 DEF Send
  <2>3. call[t] = "armed" /\ call'[t] = "sent" /\ \A u \in Tasks : u # t => call'[u] = call[u]
    BY <1>0, <1>5 DEF Send, TypeOK
  <2>4. CallPhase'
    BY <1>0, <2>2, <2>3, Places DEF KeptInv, CallPhase
  <2>5. t \in Kept => Open(t, "pending")
    BY <2>3 DEF KeptInv, CallPhase
  <2>6. QueuePhase'
    BY <2>1, <2>2, <2>5 DEF KeptInv, QueuePhase
  <2> QED
    BY <2>2, <2>4, <2>6 DEF KeptInv, HandPhase
<1> QED
  BY <1>1, <1>3, <1>4, <1>5 DEF ScheduleGoesOn

\* CancelTask is not called for these tasks, and the cleanup deletes entries
\* that have ended and that no goroutine writes to any more.
LEMMA PhaseCancel ==
    ASSUME KeptInv, NEW t \in Tasks, CancelLoad(t) \/ CancelGoesOn(t) \/ CleanupDeletes(t) \/ Progress(t)
    PROVE  CallPhase' /\ QueuePhase' /\ HandPhase'
<1>0. TypeOK /\ RefusedInv
  BY DEF KeptInv, RefusedInv, TypeInv
<1> USE DEF Open, workerVars
<1>1. CASE CancelLoad(t) \/ CancelGoesOn(t)
  <2>1. t \notin Kept
    BY <1>1 DEF CancelLoad, CancelGoesOn, CancelContext, CancelMark, Kept, KeptInv, CallPhase
  <2>2. UNCHANGED <<queue, cur, pc, call, doomed>>
    BY <1>1 DEF CancelLoad, CancelGoesOn, CancelContext, CancelMark
  <2>3. \A u \in Kept : entry'[u] = entry[u] /\ cancel'[u] = cancel[u]
    BY <1>0, <1>1, <2>1, OneEntry, Places
       DEF CancelLoad, CancelGoesOn, CancelContext, CancelMark, TypeOK
  <2> QED
    BY <1>0, <2>2, <2>3, Places DEF KeptInv, CallPhase, QueuePhase, HandPhase
<1>2. CASE CleanupDeletes(t)
  <2>1. UNCHANGED <<queue, cur, pc, call, cancel>> /\ doomed' = doomed \ {t} /\ t \in doomed
    BY <1>2 DEF CleanupDeletes
  <2>2. entry'[t] = NoEntry /\ \A u \in Tasks : u # t => entry'[u] = entry[u]
    BY <1>0, <1>2, OneEntry DEF CleanupDeletes
  <2>3. t \in Kept => entry[t].finished
    BY <2>1 DEF KeptInv, CallPhase
  <2> QED
    BY <1>0, <2>1, <2>2, <2>3, Places DEF KeptInv, CallPhase, QueuePhase, HandPhase, NoEntry
<1>3. CASE Progress(t)
  <2>1. UNCHANGED <<queue, cur, pc, call, cancel, doomed>>
    BY <1>3 DEF Progress
  <2>2. entry'[t] = Updated(t) /\ \A u \in Tasks : u # t => entry'[u] = entry[u]
    BY <1>0, <1>3, OneEntry DEF Progress
  <2>3. call[t] = "sent"
    BY <1>0, <1>3 DEF Progress, RefusedInv, SentOnly
  <2>4. entry[t].status # "absent" => entry'[t] = entry[t]
    BY <2>2 DEF Updated
  <2>5. entry[t].status = "absent" => entry'[t].finished = FALSE
    BY <2>2 DEF Updated, NoEntry
  <2>6. CallPhase'
    BY <1>0, <2>1, <2>2, <2>3, <2>4, <2>5, Places DEF KeptInv, CallPhase, Terminal
  <2>7. QueuePhase'
    BY <1>0, <2>1, <2>2, <2>4, Places DEF KeptInv, QueuePhase
  <2>8. HandPhase'
    BY <1>0, <2>1, <2>2, <2>4, Places DEF KeptInv, HandPhase
  <2> QED
    BY <2>6, <2>7, <2>8
<1> QED
  BY <1>1, <1>2, <1>3

\* The steps of a worker: it alone has its task until the task ends.
LEMMA PhaseWorker ==
    ASSUME KeptInv, NEW w \in Workers, Works(w) \/ Leave(w) \/ Panic(w)
    PROVE  CallPhase' /\ QueuePhase' /\ HandPhase'
<1>0. TypeOK /\ RefusedInv
  BY DEF KeptInv, RefusedInv, TypeInv
<1> USE DEF Open, workerVars, InHand
<1>1. UNCHANGED <<call, cancel, doomed>>
  BY DEF Works, Take, Begin, Return, Finish, End, Recover, Leave, Panic, ToWaiting
<1>2. CASE Take(w)
  <2>1. /\ Head(queue) = queue[1]
        /\ Len(queue) \in Nat \ {0}
        /\ Len(queue') = Len(queue) - 1
        /\ \A i \in 1 .. Len(queue') : queue'[i] = queue[i + 1]
    BY <1>0, <1>2, ReceivedQueue DEF Take, RefusedInv, TypeInv
  <2>2. UNCHANGED entry
    BY <1>2 DEF Take
  <2>3. /\ cur'[w] = queue[1] /\ pc'[w] = "taken"
        /\ \A v \in Workers : v # w => cur'[v] = cur[v] /\ pc'[v] = pc[v]
    BY <1>0, <1>2, <2>1 DEF Take, TypeOK
  <2>4. QueuePhase'
    BY <2>1, <2>2 DEF KeptInv, QueuePhase
  <2>5. HandPhase'
    BY <2>1, <2>2, <2>3 DEF KeptInv, QueuePhase, HandPhase
  <2> QED
    BY <1>1, <2>2, <2>4, <2>5 DEF KeptInv, CallPhase
<1>3. CASE Return(w) \/ Panic(w) \/ End(w) \/ Leave(w)
  <2>1. UNCHANGED <<entry, queue>>
    BY <1>3 DEF Return, Panic, End, Leave
  <2>2. \A v \in Workers : cur'[v] \in Kept /\ pc'[v] \in InHand \union {"taken"} =>
            cur'[v] = cur[v] /\ (pc'[v] = pc[v] \/ (pc[v] \in InHand /\ pc'[v] \in InHand))
    <3>0. /\ pc \in [Workers -> {"waiting", "taken", "handling", "returned", "ending", "recovered", "gone"}]
          /\ cur \in [Workers -> Tasks \union {NoTask}]
          /\ NoTask \notin Kept
      BY <1>0, Places DEF TypeOK
    <3>1. CASE Return(w) \/ Panic(w)
      <4>1. cur' = cur /\ pc[w] \in InHand /\ pc'[w] \in InHand
        BY <3>0, <3>1 DEF Return, Panic
      <4>2. \A v \in Workers : v # w => pc'[v] = pc[v]
        BY <3>0, <3>1 DEF Return, Panic
      <4> QED
        BY <4>1, <4>2
    <3>2. CASE End(w)
      <4>1. cur'[w] \notin Kept /\ \A v \in Workers : v # w => pc'[v] = pc[v] /\ cur'[v] = cur[v]
        BY <3>0, <3>2 DEF End, ToWaiting
      <4> QED
        BY <4>1
    <3>3. CASE Leave(w)
      <4>1. cur' = cur /\ pc'[w] = "gone" /\ \A v \in Workers : v # w => pc'[v] = pc[v]
        BY <3>0, <3>3 DEF Leave
      <4> QED
        BY <4>1
    <3> QED
      BY <1>3, <3>1, <3>2, <3>3
  <2> QED
    BY <1>1, <2>1, <2>2 DEF KeptInv, CallPhase, QueuePhase, HandPhase
\* A step that ends the task, or starts it, on its entry alone.
<1>4. CASE Begin(w) \/ Finish(w) \/ Recover(w)
  <2>1. cur[w] \in Tasks /\ cur[w] # NoTask
    BY <1>0, <1>4, MemoryRunnerAssumption DEF Begin, Finish, Recover, RefusedInv, TypeInv, Held
  <2>2. call[cur[w]] = "sent" /\ queue' = queue
    BY <1>0, <1>4, <2>1, Places DEF Begin, Finish, Recover
  <2>3. \A u \in Tasks : u # cur[w] => entry'[u] = entry[u]
    BY <1>0, <1>4, <2>1, OneEntry DEF Begin, Finish, Recover
  <2>4. \A v \in Workers : v # w => cur'[v] = cur[v] /\ pc'[v] = pc[v] /\ cur[v] # cur[w]
    <3>1. \A v \in Workers : v # w => cur[v] # cur[w]
      BY <2>1 DEF KeptInv, Once
    <3>2. DOMAIN pc = Workers /\ DOMAIN cur = Workers
      BY <1>0 DEF TypeOK
    <3>3. (\E s : pc' = [pc EXCEPT ![w] = s]) /\ (cur' = cur \/ cur' = [cur EXCEPT ![w] = NoTask])
      BY <1>4 DEF Begin, Finish, Recover, ToWaiting
    <3> QED
      BY <3>1, <3>2, <3>3
  <2>5. \/ /\ cur'[w] = cur[w] /\ pc'[w] = "handling"
           /\ entry'[cur[w]] = [Updated(cur[w]) EXCEPT !.status = "running"]
        \/ /\ (cur'[w] \notin Kept) \/ (pc'[w] = "ending")
           /\ entry'[cur[w]].status \in Terminal
           /\ entry'[cur[w]].finished
    <3>1. CASE Begin(w)
      <4>1. CASE cur[w] \in Handled
        BY <1>0, <2>1, <3>1, <4>1, OneEntry DEF Begin, TypeOK
      <4>2. CASE cur[w] \notin Handled
        <5>1. UpdateState(cur[w], Ended(cur[w], "failed", "no handler")) /\ pc'[w] = "ending"
          BY <1>0, <3>1, <4>2 DEF Begin, TypeOK
        <5> QED
          BY <1>0, <2>1, <5>1, EndedWritten DEF Terminal
      <4> QED
        BY <4>1, <4>2
    <3>2. CASE Finish(w)
      <4>1. pc'[w] = "ending"
        BY <1>0, <3>2 DEF Finish, TypeOK
      <4>2. \E s \in Terminal : \E e : UpdateState(cur[w], Ended(cur[w], s, e))
        BY <3>2 DEF Finish, Terminal
      <4> QED
        BY <1>0, <2>1, <4>1, <4>2, EndedWritten
    <3>3. CASE Recover(w)
      <4>1. cur'[w] = NoTask
        BY <1>0, <3>3 DEF Recover, ToWaiting, TypeOK
      <4>2. UpdateState(cur[w], Ended(cur[w], "failed", "handler"))
        BY <3>3 DEF Recover
      <4> QED
        BY <1>0, <2>1, <4>1, <4>2, EndedWritten, Places DEF Terminal
    <3> QED
      BY <1>4, <3>1, <3>2, <3>3
  <2>6. cur[w] \in Kept => Open(cur[w], "pending") \/ Open(cur[w], "running")
    <3>1. pc[w] = "taken" \/ pc[w] \in InHand
      BY <1>4 DEF Begin, Finish, Recover
    <3> HIDE DEF Open
    <3> QED
      BY <3>1 DEF KeptInv, HandPhase
  <2>7. entry'[cur[w]] = [Updated(cur[w]) EXCEPT !.status = "running"] /\ cur[w] \in Kept =>
            entry'[cur[w]].status = "running" /\ ~entry'[cur[w]].finished
    <3>1. entry[cur[w]] \in Entry
      BY <1>0, <2>1 DEF TypeOK
    <3>2. cur[w] \in Kept => Updated(cur[w]) = entry[cur[w]] /\ ~entry[cur[w]].finished
      BY <2>6 DEF Updated
    <3>3. [entry[cur[w]] EXCEPT !.status = "running"].status = "running"
      BY <3>1 DEF Entry
    <3>4. [entry[cur[w]] EXCEPT !.status = "running"].finished = entry[cur[w]].finished
      BY <3>1 DEF Entry
    <3> QED
      BY <3>2, <3>3, <3>4
  <2>8. CallPhase'
    BY <1>0, <1>1, <2>2, <2>3, <2>5, <2>6, <2>7, Places DEF KeptInv, CallPhase
  <2>9. QueuePhase'
    BY <1>0, <2>2, <2>3, Places DEF KeptInv, QueuePhase, Once
  <2>10. HandPhase'
    BY <1>0, <2>3, <2>4, <2>5, <2>7, Places DEF KeptInv, HandPhase
  <2> QED
    BY <2>8, <2>9, <2>10
<1> QED
  BY <1>2, <1>3, <1>4 DEF Works

\* Every step keeps the invariant.
LEMMA KeptNext == KeptInv /\ [Next]_vars => KeptInv'
<1> SUFFICES ASSUME KeptInv, [Next]_vars PROVE KeptInv'
  OBVIOUS
<1>1. RefusedInv' /\ Once'
  BY RefusedNext, OnceNext DEF KeptInv
<1>2. CASE RunGoesOn \/ RunStops
  BY <1>1, <1>2 DEF RunGoesOn, RunStops, RunStarts, RunCloses, RunReturns, RunMoves, workerVars,
                    KeptInv, CallPhase, QueuePhase, HandPhase, Open
<1>3. CASE CleanupChooses
  <2>1. \A t \in doomed' : entry[t].finished
    BY <1>3 DEF CleanupChooses
  <2> QED
    BY <1>1, <1>3, <2>1 DEF CleanupChooses, workerVars, KeptInv, CallPhase, QueuePhase, HandPhase,
                            Open
<1>4. CASE UNCHANGED vars
  BY <1>1, <1>4 DEF vars, KeptInv, CallPhase, QueuePhase, HandPhase, Open
<1> QED
  BY <1>1, <1>2, <1>3, <1>4, PhaseSchedule, PhaseCancel, PhaseWorker DEF Next, KeptInv

-----------------------------------------------------------------------------
(* The steps of the lifecycle, known by entries, calls and hands. *)

\* Nothing of the tasks nobody cancels is seen to change.
EntriesKept ==
    \A t \in Kept :
        /\ \/ entry'[t].status = entry[t].status
           \/ call[t] # "idle" /\ {entry[t].status, entry'[t].status} \subseteq {"absent", "unset"}
        /\ call'[t] = "idle" <=> call[t] = "idle"

HandsKept == \A w \in Workers : \A t \in Kept :
                (pc'[w] \in InHand /\ cur'[w] = t) <=> (pc[w] \in InHand /\ cur[w] = t)

\* The statuses are then the same.
LEMMA StatusStays == EntriesKept => statusBar' = statusBar
<1> SUFFICES ASSUME EntriesKept PROVE statusBar' = statusBar
  OBVIOUS
<1>1. \A t \in Kept : (IF entry'[t].status \in {"absent", "unset"} /\ call'[t] # "idle"
                      THEN "purged" ELSE entry'[t].status)
                   = (IF entry[t].status \in {"absent", "unset"} /\ call[t] # "idle"
                      THEN "purged" ELSE entry[t].status)
  BY DEF EntriesKept
<1> QED
  BY <1>1 DEF statusBar

\* And so are the executors, when no worker's hand is seen to change.
LEMMA ExecutorsStay == HandsKept => executorsBar' = executorsBar
  BY DEF HandsKept, executorsBar, InHand

\* A stuttering step of the lifecycle.
LEMMA Stutters == EntriesKept /\ HandsKept => UNCHANGED Lifecycle!vars
  BY StatusStays, ExecutorsStay DEF Lifecycle!vars

\* One entry changes, of a task that was scheduled before or is now.
LEMMA StatusWritten ==
    ASSUME NEW t \in Kept,
           \A u \in Kept : u # t => entry'[u] = entry[u],
           \A u \in Kept : u # t => call'[u] = call[u],
           call'[t] # "idle"
    PROVE  statusBar' = [statusBar EXCEPT ![t] =
                IF entry'[t].status \in {"absent", "unset"} THEN "purged" ELSE entry'[t].status]
  BY DEF statusBar

\* The initial states are initial states of the lifecycle.
LEMMA LifecycleInit == Init => Lifecycle!Init
<1> SUFFICES ASSUME Init PROVE Lifecycle!Init
  OBVIOUS
<1>1. Kept \subseteq Tasks
  BY DEF Kept
<1>2. statusBar = [t \in Kept |-> "absent"]
  BY <1>1 DEF Init, NoEntry, statusBar
<1>3. executorsBar = [t \in Kept |-> {}]
  BY DEF Init, executorsBar
<1> QED
  BY <1>2, <1>3 DEF Lifecycle!Init

\* ScheduleTask submits a task, and a full channel aborts it.
LEMMA ScheduleRefines ==
    ASSUME KeptInv, NEW t \in Tasks, Schedule(t) \/ ScheduleGoesOn(t)
    PROVE  [Lifecycle!Next]_(Lifecycle!vars)
<1>0. TypeOK /\ RefusedInv /\ Kept \subseteq Tasks
  BY DEF KeptInv, RefusedInv, TypeInv, Kept
<1>1. HandsKept
  BY DEF Schedule, ScheduleGoesOn, Arm, Send, SendFull, Refuse, SendPanics, workerVars, HandsKept
<1>2. CASE Arm(t) \/ Send(t) \/ SendFull(t) \/ SendPanics(t)
  <2>1. EntriesKept
    BY <1>0, <1>2 DEF Arm, Send, SendFull, SendPanics, EntriesKept, TypeOK
  <2> QED
    BY <1>1, <2>1, Stutters
<1>3. CASE Schedule(t)
  <2>1. /\ UpdateState(t, [Updated(t) EXCEPT !.status = "pending", !.scheduled = TRUE])
        /\ call[t] = "idle" /\ call'[t] = "pending"
        /\ \A u \in Tasks : u # t => call'[u] = call[u]
    BY <1>0, <1>3 DEF Schedule, TypeOK
  <2>2. Updated(t) \in Entry
    BY <1>0, UpdatedEntry
  <2>3. entry'[t].status = "pending" /\ \A u \in Tasks : u # t => entry'[u] = entry[u]
    <3>1. [Updated(t) EXCEPT !.status = "pending", !.scheduled = TRUE].status = "pending"
      BY <2>2 DEF Entry
    <3> QED
      BY <1>0, <2>1, <3>1, OneEntry
  <2>4. CASE t \in Kept
    <3>1. statusBar[t] = "absent"
      BY <2>1, <2>4 DEF KeptInv, CallPhase, NoEntry, statusBar
    <3>2. statusBar' = [statusBar EXCEPT ![t] = "pending"]
      BY <1>0, <2>1, <2>3, <2>4, StatusWritten
    <3>3. Lifecycle!Submit(t, "pending")
      BY <1>1, <3>1, <3>2, ExecutorsStay DEF Lifecycle!Submit
    <3> QED
      BY <2>4, <3>3 DEF Lifecycle!Next
  <2>5. CASE t \notin Kept
    BY <1>0, <1>1, <2>1, <2>3, <2>5, Stutters DEF EntriesKept
  <2> QED
    BY <2>4, <2>5
<1>4. CASE Refuse(t)
  <2>1. /\ UpdateState(t, Ended(t, "failed", "queue full"))
        /\ call[t] = "full" /\ call'[t] = "refused"
        /\ \A u \in Tasks : u # t => call'[u] = call[u]
    BY <1>0, <1>4 DEF Refuse, TypeOK
  <2>2. entry'[t].status = "failed" /\ \A u \in Tasks : u # t => entry'[u] = entry[u]
    BY <1>0, <2>1, EndedWritten
  <2>3. CASE t \in Kept
    <3>1. statusBar[t] = "pending"
      BY <2>1, <2>3 DEF KeptInv, CallPhase, Open, statusBar
    <3>2. statusBar' = [statusBar EXCEPT ![t] = "failed"]
      BY <1>0, <2>1, <2>2, <2>3, StatusWritten
    <3>3. Lifecycle!Abort(t)
      BY <1>1, <3>1, <3>2, ExecutorsStay DEF Lifecycle!Abort
    <3> QED
      BY <2>3, <3>3 DEF Lifecycle!Next
  <2>4. CASE t \notin Kept
    BY <1>0, <1>1, <2>1, <2>2, <2>4, Stutters DEF EntriesKept
  <2> QED
    BY <2>3, <2>4
<1> QED
  BY <1>2, <1>3, <1>4 DEF ScheduleGoesOn

\* CancelTask does not touch these tasks, and the cleanup purges what ended.
LEMMA CancelRefines ==
    ASSUME KeptInv, NEW t \in Tasks, CancelLoad(t) \/ CancelGoesOn(t) \/ CleanupDeletes(t) \/ Progress(t)
    PROVE  [Lifecycle!Next]_(Lifecycle!vars)
<1>0. TypeOK /\ RefusedInv /\ Kept \subseteq Tasks
  BY DEF KeptInv, RefusedInv, TypeInv, Kept
<1>1. HandsKept /\ call' = call
  BY DEF CancelLoad, CancelGoesOn, CancelContext, CancelMark, CleanupDeletes, Progress, workerVars, HandsKept
<1>2. ASSUME t \notin Kept PROVE EntriesKept
  BY <1>0, <1>1, <1>2, OneEntry
     DEF CancelLoad, CancelGoesOn, CancelContext, CancelMark, CleanupDeletes, Progress, EntriesKept
<1>3. CASE t \notin Kept
  BY <1>1, <1>2, <1>3, Stutters
<1>4. CASE t \in Kept /\ Progress(t)
  <2>1. entry'[t] = Updated(t) /\ \A u \in Tasks : u # t => entry'[u] = entry[u]
    BY <1>0, <1>4, OneEntry DEF Progress
  <2>2. call[t] = "sent"
    BY <1>0, <1>4 DEF Progress, RefusedInv, SentOnly
  <2>3. entry[t].status # "absent" => entry'[t].status = entry[t].status
    BY <2>1 DEF Updated
  <2>4. entry[t].status = "absent" => entry'[t].status = "unset"
    BY <2>1 DEF Updated, NoEntry
  <2>5. EntriesKept
    BY <1>0, <1>1, <2>1, <2>2, <2>3, <2>4 DEF EntriesKept
  <2> QED
    BY <1>1, <2>5, Stutters
<1>5. CASE t \in Kept /\ ~Progress(t)
  <2>1. CleanupDeletes(t)
    BY <1>5 DEF CancelLoad, CancelGoesOn, CancelContext, CancelMark, Kept, KeptInv, CallPhase
  <2>2. /\ entry'[t].status = "absent"
        /\ \A u \in Tasks : u # t => entry'[u] = entry[u]
    BY <1>0, <2>1, OneEntry DEF CleanupDeletes, NoEntry
  <2>3. entry[t].finished /\ entry[t].status \in Terminal /\ call[t] # "idle"
    BY <1>5, <2>1 DEF CleanupDeletes, KeptInv, CallPhase, NoEntry
  <2>4. statusBar[t] \in Lifecycle!Ended
    BY <1>5, <2>3 DEF statusBar, Terminal, Lifecycle!Ended
  <2>5. statusBar' = [statusBar EXCEPT ![t] = "purged"]
    BY <1>0, <1>1, <1>5, <2>2, <2>3, StatusWritten
  <2>6. statusBar' = [u \in Kept |-> IF u \in {t} THEN "purged" ELSE statusBar[u]]
    BY <2>5 DEF statusBar
  <2>7. Lifecycle!Purge({t})
    BY <1>1, <2>4, <2>6, ExecutorsStay DEF Lifecycle!Purge
  <2> QED
    BY <1>5, <2>7 DEF Lifecycle!Next
<1> QED
  BY <1>3, <1>4, <1>5

\* A worker takes a task when it marks it running, aborts one without a
\* handler, and ends the one it executes.
LEMMA WorkerRefines ==
    ASSUME KeptInv, NEW w \in Workers, Works(w) \/ Leave(w) \/ Panic(w)
    PROVE  [Lifecycle!Next]_(Lifecycle!vars)
<1>0. /\ TypeOK /\ RefusedInv /\ Kept \subseteq Tasks
      /\ pc \in [Workers -> {"waiting", "taken", "handling", "returned", "ending", "recovered", "gone"}]
      /\ cur \in [Workers -> Tasks \union {NoTask}]
      /\ NoTask \notin Kept
  BY Places DEF KeptInv, RefusedInv, TypeInv, TypeOK
<1>1. call' = call
  BY DEF Works, Take, Begin, Return, Finish, End, Recover, Leave, Panic
<1>2. CASE Take(w) \/ Return(w) \/ End(w) \/ Leave(w) \/ Panic(w)
  <2>1. EntriesKept
    BY <1>1, <1>2 DEF Take, Return, End, Leave, Panic, EntriesKept
  <2>2. HandsKept
    <3>1. CASE Take(w) \/ End(w) \/ Leave(w)
      <4>1. pc[w] \notin InHand /\ pc'[w] \notin InHand
        BY <1>0, <3>1 DEF Take, End, Leave, ToWaiting, InHand
      <4>2. \A v \in Workers : v # w => pc'[v] = pc[v] /\ cur'[v] = cur[v]
        BY <1>0, <3>1 DEF Take, End, Leave, ToWaiting
      <4> QED
        BY <4>1, <4>2 DEF HandsKept
    <3>2. CASE Return(w) \/ Panic(w)
      BY <1>0, <3>2 DEF Return, Panic, HandsKept, InHand
    <3> QED
      BY <1>2, <3>1, <3>2
  <2> QED
    BY <2>1, <2>2, Stutters
<1>3. CASE Begin(w) \/ Finish(w) \/ Recover(w)
  <2> DEFINE t == cur[w]
  <2>1. t \in Tasks /\ t # NoTask
    BY <1>0, <1>3, MemoryRunnerAssumption DEF Begin, Finish, Recover, RefusedInv, TypeInv, Held
  <2>2. call[t] = "sent"
    BY <1>0, <2>1, Places
  <2>3. \A u \in Tasks : u # t => entry'[u] = entry[u]
    BY <1>0, <1>3, <2>1, OneEntry DEF Begin, Finish, Recover
  <2>4. /\ \A v \in Workers : v # w => pc'[v] = pc[v] /\ cur'[v] = cur[v] /\ cur[v] # t
        /\ cur'[w] \in {t, NoTask}
    BY <1>0, <1>3, <2>1 DEF Begin, Finish, Recover, ToWaiting, KeptInv, Once
  <2>5. CASE t \notin Kept
    <3>1. EntriesKept
      BY <1>0, <1>1, <2>3, <2>5 DEF EntriesKept
    <3>2. HandsKept
      BY <1>0, <2>4, <2>5 DEF HandsKept
    <3> QED
      BY <3>1, <3>2, Stutters
  <2>6. ASSUME t \in Kept, Begin(w) PROVE Lifecycle!Next
    <3>1. statusBar[t] = "pending"
      BY <2>6 DEF Begin, KeptInv, HandPhase, Open, statusBar
    <3>2. CASE t \in Handled
      <4>1. entry'[t].status = "running"
        <5>1. Updated(t) \in Entry
          BY <1>0, <2>1, UpdatedEntry
        <5> QED
          <6>1. [Updated(t) EXCEPT !.status = "running"].status = "running"
            BY <5>1 DEF Entry
          <6>2. entry'[t] = [Updated(t) EXCEPT !.status = "running"]
            BY <1>0, <2>1, <2>6, <3>2, OneEntry DEF Begin
          <6> QED
            BY <6>1, <6>2
      <4>2. statusBar' = [statusBar EXCEPT ![t] = "running"]
        BY <1>0, <1>1, <2>2, <2>3, <2>6, <4>1, StatusWritten
      <4>3. pc'[w] = "handling" /\ cur' = cur
        BY <1>0, <2>6, <3>2 DEF Begin
      <4>4. executorsBar[t] = {}
        BY <1>0, <2>4, <2>6 DEF Begin, executorsBar
      <4>5. executorsBar' = [executorsBar EXCEPT ![t] = {w}]
        BY <2>4, <2>6, <4>3 DEF executorsBar
      <4>6. Lifecycle!Take(t, w)
        BY <3>1, <4>2, <4>4, <4>5 DEF Lifecycle!Take
      <4> QED
        BY <2>6, <4>6 DEF Lifecycle!Next
    <3>3. CASE t \notin Handled
      <4>1. entry'[t].status = "failed" /\ pc'[w] = "ending"
        <5>1. UpdateState(t, Ended(t, "failed", "no handler")) /\ pc'[w] = "ending"
          BY <1>0, <2>6, <3>3 DEF Begin
        <5> QED
          BY <1>0, <2>1, <5>1, EndedWritten
      <4>2. statusBar' = [statusBar EXCEPT ![t] = "failed"]
        BY <1>0, <1>1, <2>2, <2>3, <2>6, <4>1, StatusWritten
      <4>3. HandsKept
        BY <1>0, <2>4, <2>6, <4>1 DEF Begin, HandsKept, InHand
      <4>4. Lifecycle!Abort(t)
        BY <3>1, <4>2, <4>3, ExecutorsStay DEF Lifecycle!Abort
      <4> QED
        BY <2>6, <4>4 DEF Lifecycle!Next
    <3> QED
      BY <3>2, <3>3
  <2>7. ASSUME t \in Kept, Finish(w) \/ Recover(w) PROVE Lifecycle!Next
    <3>1. pc[w] \in InHand /\ ~(pc'[w] \in InHand)
      BY <1>0, <2>7 DEF Finish, Recover, ToWaiting, InHand
    <3>2. statusBar[t] = "running"
      BY <2>7, <3>1 DEF KeptInv, HandPhase, Open, statusBar
    <3>3. PICK s \in Terminal : \E e : UpdateState(t, Ended(t, s, e))
      BY <2>7 DEF Finish, Recover, Terminal
    <3>4. entry'[t].status = s
      BY <1>0, <2>1, <3>3, EndedWritten
    <3>5. statusBar' = [statusBar EXCEPT ![t] = s]
      BY <1>0, <1>1, <2>2, <2>3, <2>7, <3>4, StatusWritten DEF Terminal
    <3>6. w \in executorsBar[t]
      BY <2>7, <3>1 DEF executorsBar, InHand
    <3>7. executorsBar' = [executorsBar EXCEPT ![t] = @ \ {w}]
      BY <2>4, <2>7, <3>1 DEF executorsBar, InHand
    <3>8. Lifecycle!End(t, w, s)
      BY <3>2, <3>5, <3>6, <3>7 DEF Lifecycle!End, Lifecycle!Ended, Terminal
    <3> QED
      BY <2>7, <3>8 DEF Lifecycle!Next, Lifecycle!Ended, Terminal
  <2> QED
    BY <1>3, <2>5, <2>6, <2>7
<1> QED
  BY <1>2, <1>3 DEF Works

\* Every step of the runner is a step of the lifecycle or changes nothing it sees.
LEMMA LifecycleStep == KeptInv /\ [Next]_vars => [Lifecycle!Next]_(Lifecycle!vars)
<1> SUFFICES ASSUME KeptInv, [Next]_vars PROVE [Lifecycle!Next]_(Lifecycle!vars)
  OBVIOUS
<1>1. CASE RunGoesOn \/ RunStops \/ CleanupChooses \/ UNCHANGED vars
  <2>1. UNCHANGED <<entry, call, pc, cur>>
    BY <1>1 DEF RunGoesOn, RunStops, RunStarts, RunCloses, RunReturns, RunMoves, CleanupChooses,
                workerVars, vars
  <2> QED
    BY <2>1, Stutters DEF EntriesKept, HandsKept
<1> QED
  BY <1>1, ScheduleRefines, CancelRefines, WorkerRefines DEF Next

\* A task nobody cancels keeps to TaskLifecycle: it waits, is executed by one
\* worker at most, ends once and is forgotten only then, whatever is canceled,
\* refused, cleaned up or stopped around it, for any number of tasks and workers.
THEOREM RunnerImplementsLifecycle == Spec => LifecycleSpec
<1>1. Init => KeptInv
  <2> SUFFICES ASSUME Init PROVE KeptInv
    OBVIOUS
  <2>1. TypeInv /\ Kept \subseteq Tasks
    BY TypeInit DEF Kept
  <2>2. Len(queue) = 0 /\ reporting = {} /\ \A w \in Workers : cur[w] = NoTask /\ pc[w] = "waiting"
    BY DEF Init
  <2>3. CallPhase
    BY <2>1 DEF Init, CallPhase, NoEntry
  <2>4. SentOnly /\ Once /\ QueuePhase /\ HandPhase
    BY <2>2 DEF SentOnly, Once, QueuePhase, HandPhase, InHand
  <2> QED
    BY <2>1, <2>3, <2>4 DEF KeptInv, RefusedInv
<1>2. KeptInv /\ [Next]_vars => KeptInv'
  BY KeptNext
<1>3. KeptInv /\ [Next]_vars => [Lifecycle!Next]_(Lifecycle!vars)
  BY LifecycleStep
<1> QED
  BY <1>1, <1>2, <1>3, LifecycleInit, PTL DEF Spec, LifecycleSpec, Lifecycle!Spec
-----------------------------------------------------------------------------
(***************************************************************************)
(* Whoever goes on with a task can be reached: until its context is done,  *)
(* nobody takes away its entry or its cancel function.                     *)
(***************************************************************************)

\* ScheduleTask, the channel or a worker has the task.
Going(t) == call[t] \in {"pending", "armed"} \/ Underway(t)

\* The task is in progress, can be canceled once ScheduleTask armed it, and the
\* cleanup has not chosen it.
Reachable(t) ==
    /\ entry[t].status \in {"pending", "running"} /\ ~entry[t].finished
    /\ call[t] # "pending" => t \in canceler
    /\ t \notin doomed

ReachInv ==
    \A t \in Tasks :
        /\ call[t] = "idle" => entry[t] = NoEntry /\ cancel[t] = "idle" /\ t \notin doomed
        /\ cancel[t] = "called" => t \in ctxDone
        /\ Going(t) => t \in ctxDone \/ Reachable(t)

\* A task that waits or is executed was sent, and a worker has it alone.
LEMMA UnderwayAlone ==
    ASSUME RefusedInv, Once
    PROVE  /\ \A t \in Tasks : Underway(t) => call[t] = "sent"
           /\ \A w \in Workers : cur[w] # NoTask =>
                 (Underway(cur[w]) <=> pc[w] \in {"taken", "handling", "returned"})
<1>1. \A t \in Tasks : Underway(t) => call[t] = "sent"
  BY MemoryRunnerAssumption DEF Underway, RefusedInv, SentOnly
<1>2. ASSUME NEW w \in Workers, cur[w] # NoTask
      PROVE  Underway(cur[w]) <=> pc[w] \in {"taken", "handling", "returned"}
  BY <1>2 DEF Underway, Once
<1> QED
  BY <1>1, <1>2

\* A step that moves no task and touches no context but to end it.
LEMMA ReachStays ==
    ASSUME ReachInv, NEW u \in Tasks,
           call'[u] = call[u], ctxDone \subseteq ctxDone',
           cancel'[u] = "called" => cancel[u] = "called" \/ u \in ctxDone',
           \/ call[u] # "idle"
           \/ entry'[u] = entry[u] /\ cancel'[u] = cancel[u] /\ (u \in doomed' => u \in doomed),
           Going(u)' => Going(u),
           Going(u)' /\ u \notin ctxDone' =>
               /\ entry'[u].status \in {"pending", "running"} /\ ~entry'[u].finished
               /\ u \in canceler => u \in canceler'
               /\ u \in doomed' => u \in doomed
    PROVE  /\ call'[u] = "idle" => entry'[u] = NoEntry /\ cancel'[u] = "idle" /\ u \notin doomed'
           /\ cancel'[u] = "called" => u \in ctxDone'
           /\ Going(u)' => u \in ctxDone' \/ Reachable(u)'
<1>1. /\ call[u] = "idle" => entry[u] = NoEntry /\ cancel[u] = "idle" /\ u \notin doomed
      /\ cancel[u] = "called" => u \in ctxDone
      /\ Going(u) => u \in ctxDone \/ Reachable(u)
  BY DEF ReachInv
<1>2. ASSUME Going(u)', u \notin ctxDone'
      PROVE  Reachable(u)'
  <2>1. Reachable(u)
    BY <1>1, <1>2
  <2> QED
    BY <1>2, <2>1 DEF Reachable
<1> QED
  BY <1>1, <1>2

\* The steps of ScheduleTask: the cancel function is there before the task is.
LEMMA ReachSchedule ==
    ASSUME RefusedInv, Once, ReachInv, NEW t \in Tasks, Schedule(t) \/ ScheduleGoesOn(t)
    PROVE  ReachInv'
<1>0. /\ TypeOK
      /\ UNCHANGED <<cur, pc, cancel, doomed>> /\ ctxDone \subseteq ctxDone'
  BY DEF Schedule, ScheduleGoesOn, Arm, Send, SendFull, Refuse, SendPanics, workerVars, RefusedInv, TypeInv
<1>1. \A u \in Tasks : u # t =>
        /\ call'[u] = call[u] /\ entry'[u] = entry[u]
        /\ u \in canceler => u \in canceler'
  BY <1>0, OneEntry DEF Schedule, ScheduleGoesOn, Arm, Send, SendFull, Refuse, SendPanics, TypeOK
<1>2. \A u \in Tasks : u # t => (Underway(u)' => Underway(u))
  <2>1. CASE queue' = queue
    BY <1>0, <2>1 DEF Underway
  <2>2. CASE Send(t)
    <3>1. /\ Len(queue') = Len(queue) + 1 /\ Len(queue) \in Nat
          /\ \A i \in 1 .. Len(queue) : queue'[i] = queue[i]
          /\ queue'[Len(queue) + 1] = t
      BY <1>0, <2>2, SentQueue, LenProperties DEF Send, TypeOK
    <3> QED
      BY <1>0, <3>1 DEF Underway
  <2> QED
    BY <2>1, <2>2 DEF Schedule, ScheduleGoesOn, Arm, SendFull, Refuse, SendPanics
<1>3. ASSUME NEW u \in Tasks, u # t
      PROVE  /\ call'[u] = "idle" => entry'[u] = NoEntry /\ cancel'[u] = "idle" /\ u \notin doomed'
             /\ cancel'[u] = "called" => u \in ctxDone'
             /\ Going(u)' => u \in ctxDone' \/ Reachable(u)'
  <2>1. Going(u)' => Going(u)
    BY <1>1, <1>2, <1>3 DEF Going
  <2>2. Going(u)' /\ u \notin ctxDone' => entry'[u].status \in {"pending", "running"} /\ ~entry'[u].finished
    BY <1>0, <1>1, <1>3, <2>1 DEF ReachInv, Reachable
  <2> QED
    BY <1>0, <1>1, <1>3, <2>1, <2>2, ReachStays
<1>4. /\ call'[t] = "idle" => entry'[t] = NoEntry /\ cancel'[t] = "idle" /\ t \notin doomed'
      /\ cancel'[t] = "called" => t \in ctxDone'
      /\ Going(t)' => t \in ctxDone' \/ Reachable(t)'
  <2>1. /\ call[t] # "sent" /\ ~Underway(t)
        /\ call'[t] # "idle" /\ (cancel'[t] = "called" => t \in ctxDone')
    BY <1>0, UnderwayAlone DEF Schedule, ScheduleGoesOn, Arm, Send, SendFull, Refuse, SendPanics, TypeOK, ReachInv
  <2>2. CASE Schedule(t)
    <3>1. /\ call[t] = "idle" /\ entry[t] = NoEntry /\ t \notin doomed /\ call'[t] = "pending"
      BY <1>0, <2>2 DEF Schedule, ReachInv, TypeOK
    <3>2. entry'[t] = [Updated(t) EXCEPT !.status = "pending", !.scheduled = TRUE]
      BY <1>0, <2>2, OneEntry DEF Schedule
    <3>3. entry'[t].status = "pending" /\ ~entry'[t].finished
      BY <3>1, <3>2 DEF Updated, NoEntry
    <3> QED
      BY <1>0, <2>1, <3>1, <3>3 DEF Reachable
  <2>3. CASE Arm(t)
    BY <1>0, <2>1, <2>3 DEF Arm, ReachInv, Reachable, Going, TypeOK
  <2>4. CASE Send(t)
    <3>1. call[t] = "armed" /\ call'[t] = "sent" /\ UNCHANGED <<entry, canceler>>
      BY <1>0, <2>4 DEF Send, TypeOK
    <3>2. t \in ctxDone \/ Reachable(t)
      BY <3>1 DEF ReachInv, Going
    <3> QED
      BY <1>0, <2>1, <3>1, <3>2 DEF Reachable
  <2>5. CASE SendFull(t)
    BY <2>1, <2>5 DEF SendFull
  <2>6. CASE Refuse(t) \/ SendPanics(t)
    <3>1. call'[t] \in {"refused", "panicked"} /\ queue' = queue
      BY <1>0, <2>6 DEF Refuse, SendPanics, TypeOK
    <3>2. ~Underway(t)'
      BY <1>0, <2>1, <3>1 DEF Underway
    <3> QED
      BY <2>1, <3>1, <3>2 DEF Going
  <2> QED
    BY <2>2, <2>3, <2>4, <2>5, <2>6 DEF ScheduleGoesOn
<1> QED
  BY <1>3, <1>4 DEF ReachInv

\* CancelTask takes the function away after it called it, the cleanup from tasks
\* that had ended when it chose them, and an event changes no entry in progress.
LEMMA ReachCancel ==
    ASSUME RefusedInv, Once, ReachInv, NEW t \in Tasks,
           CancelLoad(t) \/ CancelGoesOn(t) \/ CleanupDeletes(t) \/ Progress(t)
    PROVE  ReachInv'
<1>0. /\ TypeOK
      /\ UNCHANGED <<cur, pc, call, queue>> /\ ctxDone \subseteq ctxDone' /\ doomed' \subseteq doomed
  BY DEF CancelLoad, CancelGoesOn, CancelContext, CancelMark, CleanupDeletes, Progress, workerVars, RefusedInv, TypeInv
<1>1. \A u \in Tasks : u # t =>
        /\ cancel'[u] = cancel[u] /\ entry'[u] = entry[u]
        /\ u \in canceler => u \in canceler'
  BY <1>0, OneEntry DEF CancelLoad, CancelGoesOn, CancelContext, CancelMark, CleanupDeletes, Progress, TypeOK
<1>2. \A u \in Tasks : Going(u)' <=> Going(u)
  BY <1>0 DEF Going, Underway
<1>3. ASSUME NEW u \in Tasks, u # t
      PROVE  /\ call'[u] = "idle" => entry'[u] = NoEntry /\ cancel'[u] = "idle" /\ u \notin doomed'
             /\ cancel'[u] = "called" => u \in ctxDone'
             /\ Going(u)' => u \in ctxDone' \/ Reachable(u)'
  <2>1. Going(u)' /\ u \notin ctxDone' => entry'[u].status \in {"pending", "running"} /\ ~entry'[u].finished
    BY <1>0, <1>1, <1>2, <1>3 DEF ReachInv, Reachable
  <2> QED
    BY <1>0, <1>1, <1>2, <1>3, <2>1, ReachStays
<1>4. call[t] # "idle"
  <2>1. t \in reporting => call[t] = "sent"
    BY DEF RefusedInv, SentOnly
  <2> QED
    BY <2>1 DEF CancelLoad, CancelGoesOn, CancelContext, CancelMark, CleanupDeletes, Progress, ReachInv, NoEntry
<1>5. CASE CancelLoad(t) \/ CancelContext(t)
  <2>1. /\ UNCHANGED <<entry, canceler, doomed>>
        /\ cancel'[t] = "called" => t \in ctxDone'
    BY <1>0, <1>5 DEF CancelLoad, CancelContext, TypeOK
  <2>2. Going(t)' /\ t \notin ctxDone' => entry'[t].status \in {"pending", "running"} /\ ~entry'[t].finished
    BY <1>0, <1>2, <2>1 DEF ReachInv, Reachable
  <2>3. /\ cancel'[t] = "called" => t \in ctxDone'
        /\ Going(t)' => t \in ctxDone' \/ Reachable(t)'
    BY <1>0, <1>2, <1>4, <2>1, <2>2, ReachStays
  <2> QED
    BY <1>0, <1>3, <1>4, <2>3 DEF ReachInv
<1>6. CASE CancelMark(t)
  <2>1. t \in ctxDone'
    BY <1>0, <1>6 DEF CancelMark, ReachInv
  <2> QED
    BY <1>0, <1>3, <1>4, <2>1 DEF ReachInv
<1>7. CASE CleanupDeletes(t)
  <2>1. t \in doomed /\ UNCHANGED <<cancel, ctxDone>>
    BY <1>7 DEF CleanupDeletes
  <2>2. Going(t) => t \in ctxDone
    BY <2>1 DEF ReachInv, Reachable
  <2> QED
    BY <1>0, <1>2, <1>3, <1>4, <2>1, <2>2 DEF ReachInv
<1>8. CASE Progress(t)
  <2>1. UNCHANGED <<cancel, ctxDone, canceler, doomed>> /\ entry'[t] = Updated(t)
    BY <1>0, <1>8, OneEntry DEF Progress
  <2>2. Reachable(t) => entry'[t] = entry[t]
    BY <2>1 DEF Reachable, Updated
  <2>3. Reachable(t) => Reachable(t)'
    BY <1>0, <2>1, <2>2 DEF Reachable
  <2> QED
    BY <1>0, <1>2, <1>3, <1>4, <2>1, <2>3 DEF ReachInv
<1> QED
  BY <1>5, <1>6, <1>7, <1>8 DEF CancelGoesOn

\* A worker writes an outcome, or takes the cancel function away, of the task it
\* has just done with.
LEMMA ReachWorker ==
    ASSUME RefusedInv, Once, ReachInv, NEW w \in Workers, Works(w) \/ Leave(w) \/ Panic(w)
    PROVE  ReachInv'
<1> DEFINE Calls == {"taken", "handling", "returned"}
<1>0. /\ TypeOK /\ Held
      /\ UNCHANGED <<call, cancel, ctxDone, doomed>>
      /\ pc \in [Workers -> {"waiting", "taken", "handling", "returned", "ending", "recovered", "gone"}]
      /\ cur \in [Workers -> Tasks \union {NoTask}] /\ NoTask \notin Tasks
  BY MemoryRunnerAssumption
     DEF Works, Take, Begin, Return, Finish, End, Recover, Leave, Panic, ToWaiting, RefusedInv, TypeInv, TypeOK
<1>1. CASE Take(w)
  <2>1. /\ Head(queue) = queue[1] /\ Len(queue) \in Nat \ {0}
        /\ Len(queue') = Len(queue) - 1
        /\ \A i \in 1 .. Len(queue') : queue'[i] = queue[i + 1]
    BY <1>0, <1>1, ReceivedQueue DEF Take
  <2>2. /\ UNCHANGED <<entry, canceler>> /\ cur'[w] = queue[1]
        /\ \A v \in Workers : v # w => cur'[v] = cur[v] /\ pc'[v] = pc[v]
    BY <1>0, <1>1, <2>1 DEF Take
  <2>3. \A u \in Tasks : Underway(u)' => Underway(u)
    BY <2>1, <2>2 DEF Underway
  <2> QED
    BY <1>0, <2>2, <2>3 DEF ReachInv, Going, Reachable
<1>2. CASE ~Take(w)
  <2>1. /\ queue' = queue
        /\ \A v \in Workers : v # w => cur'[v] = cur[v] /\ pc'[v] = pc[v]
        /\ cur'[w] \in {cur[w], NoTask}
        /\ pc'[w] \in Calls => pc[w] \in Calls
    BY <1>0, <1>2 DEF Works, Begin, Return, Finish, End, Recover, Leave, Panic, ToWaiting
  <2>2. \A u \in Tasks : Underway(u)' => Underway(u)
    BY <1>0, <2>1 DEF Underway
  <2>3. \A u \in Tasks : Going(u)' => Going(u)
    BY <1>0, <2>2 DEF Going
  <2>4. CASE Return(w) \/ Leave(w)
    BY <1>0, <2>3, <2>4 DEF Return, Leave, ReachInv, Reachable
  <2>5. CASE ~(Return(w) \/ Leave(w))
    <3>0. pc[w] \notin {"waiting", "gone"} /\ cur[w] \in Tasks /\ call[cur[w]] = "sent"
      BY <1>0, <1>2, <2>5, MemoryRunnerAssumption
         DEF Works, Begin, Finish, End, Recover, Panic, Held, RefusedInv, SentOnly
    <3>1. PICK t \in Tasks : t = cur[w] /\ call[t] = "sent"
      BY <3>0
    <3>2. \A u \in Tasks : u # t => entry'[u] = entry[u] /\ (u \in canceler => u \in canceler')
      BY <1>0, <1>2, <2>5, <3>1, OneEntry DEF Works, Begin, Finish, End, Recover, Panic
    <3>3. \A u \in Tasks : u # t => (Reachable(u) => Reachable(u)')
      BY <1>0, <3>2 DEF Reachable
    <3>4. Going(t)' => pc'[w] \in Calls
      BY <1>0, <2>1, <3>1 DEF Going, Underway, Once
    <3>5. Going(t)' => (Reachable(t) => Reachable(t)')
      <4>1. CASE Begin(w) /\ t \in Handled
        <5>1. UNCHANGED canceler /\ entry'[t] = [Updated(t) EXCEPT !.status = "running"]
          BY <1>0, <3>1, <4>1, OneEntry DEF Begin
        <5>2. Reachable(t) => Updated(t) = entry[t] /\ entry[t] \in Entry
          BY <1>0, <3>1 DEF Reachable, Updated, TypeOK
        <5>3. \A e \in Entry : LET f == [e EXCEPT !.status = "running"]
                               IN  f.status = "running" /\ f.finished = e.finished
          BY DEF Entry
        <5>4. Reachable(t) => entry'[t].status = "running" /\ entry'[t].finished = entry[t].finished
          BY <5>1, <5>2, <5>3
        <5> QED
          BY <1>0, <5>1, <5>4 DEF Reachable
      <4>2. CASE ~(Begin(w) /\ t \in Handled)
        <5>1. pc'[w] \notin Calls
          BY <1>0, <1>2, <2>5, <3>1, <4>2 DEF Works, Begin, Finish, End, Recover, Panic, ToWaiting
        <5> QED
          BY <3>4, <5>1
      <4> QED
        BY <4>1, <4>2
    <3> QED
      BY <1>0, <2>3, <3>1, <3>2, <3>3, <3>5 DEF ReachInv
  <2> QED
    BY <2>4, <2>5
<1> QED
  BY <1>1, <1>2

\* Every step keeps the invariant.
LEMMA ReachNext == RefusedInv /\ Once /\ ReachInv /\ [Next]_vars => ReachInv'
<1> SUFFICES ASSUME RefusedInv, Once, ReachInv, [Next]_vars PROVE ReachInv'
  OBVIOUS
<1>1. CASE CleanupChooses
  <2>1. /\ UNCHANGED <<entry, canceler, ctxDone, queue, call, cancel, pc, cur>>
        /\ \A t \in doomed' : entry[t].finished
    BY <1>1 DEF CleanupChooses, workerVars
  <2>2. \A t \in Tasks : Going(t)' => Going(t)
    BY <2>1 DEF Going, Underway
  <2> QED
    BY <2>1, <2>2 DEF ReachInv, Reachable, NoEntry
<1>2. CASE RunGoesOn \/ RunStops \/ UNCHANGED vars
  <2>1. UNCHANGED <<entry, canceler, ctxDone, queue, call, cancel, pc, cur, doomed>>
    BY <1>2 DEF RunGoesOn, RunStops, RunStarts, RunCloses, RunReturns, RunMoves, workerVars, vars
  <2> QED
    BY <2>1 DEF ReachInv, Reachable, Going, Underway
<1> QED
  BY <1>1, <1>2, ReachSchedule, ReachCancel, ReachWorker DEF Next

\* No handler runs out of reach, for any number of tasks, workers and callers:
\* as long as the context of a task that waits or is executed is not done,
\* neither CancelTask, the cleanup, a panic nor a late event has taken away its
\* entry or its cancel function.
THEOREM StaysWithinReach == Spec => []WithinReach
<1> DEFINE Inv == RefusedInv /\ Once /\ ReachInv
<1>1. Init => Inv
  <2> SUFFICES ASSUME Init PROVE Inv
    OBVIOUS
  <2>1. Len(queue) = 0 /\ reporting = {} /\ \A w \in Workers : cur[w] = NoTask
    BY DEF Init
  <2>2. \A t \in Tasks : call[t] = "idle" /\ cancel[t] = "idle" /\ entry[t] = NoEntry
    BY DEF Init
  <2>3. \A t \in Tasks : ~Underway(t)
    BY <2>1, MemoryRunnerAssumption DEF Underway
  <2>4. ReachInv
    BY <2>2, <2>3 DEF Init, ReachInv, Going
  <2> QED
    BY <2>1, <2>4, TypeInit DEF RefusedInv, SentOnly, Once
<1>2. Inv /\ [Next]_vars => Inv'
  BY RefusedNext, OnceNext, ReachNext
<1>3. Inv => WithinReach
  BY UnderwayAlone DEF ReachInv, Reachable, Going, WithinReach
<1> QED
  BY <1>1, <1>2, <1>3, PTL DEF Spec
=============================================================================
