-------------------------------- MODULE Staging --------------------------------
(***************************************************************************)
(* The files that wait to be indexed (ingest/manager.go, amoxtli.go New and    *)
(* Close).  IndexFile copies the file into a staging directory and schedules a  *)
(* task; the task's handler opens the copy and removes it at the end.  An      *)
(* instance has a directory of its own, made at the first call and removed by   *)
(* Close, or, with persistent tasks, one that outlives it.  Every new instance   *)
(* sweeps the directories that look abandoned; the clock is in hours.           *)
(***************************************************************************)
EXTENDS Integers

CONSTANTS
    Instances,     \* processes that create a Codex, each one once
    Uploads,         \* the calls of IndexFile and IndexFileSync, one file each
    StaleAge,      \* staleTempDirAge
    MaxClock,      \* the last hour (bound)
    MaxCrashes     \* processes that die (bound)

ASSUME StagingAssumption ==
    {StaleAge, MaxClock, MaxCrashes} \subseteq Nat /\ "none" \notin Instances

VARIABLES
    hour,
    crashes,
    life,        \* [Instances -> "new", "open", "closing", "drained", "late", "closed", "over"]
    stagingDir,  \* [Instances -> "none", "exists", "removed"]: the instance's own directory
    touched,     \* [Instances -> Nat]: its modification time
    owner,       \* [Uploads -> the instance that was called, "none" before]
    copy,        \* [Uploads -> "none", "staged" in the owner's directory, "stable", "temp", "gone"]
    work,        \* [Uploads -> where the call or its task is]
    runner,      \* [Uploads -> the instance that runs the task, "none" before]
    direct,      \* the files of IndexFileSync
    persistent   \* the instances created with WithPersistentTasks

stagingVars == <<hour, crashes, life, stagingDir, touched, owner, copy, work, runner, direct, persistent>>

\* "copied": the call is between the copy and ScheduleTask; "taken": a worker
\* has the task; "reading": the handler has the file open; "removed": its
\* deferred function has run; "lost": the task died with its process.
Work == {"new", "failed", "copied", "refused", "pending", "taken", "reading", "removed", "ended", "lost"}

Unopened == {"pending", "taken"}

StagingInit ==
    /\ hour = 0
    /\ crashes = 0
    /\ life = [i \in Instances |-> "new"]
    /\ stagingDir = [i \in Instances |-> "none"]
    /\ touched = [i \in Instances |-> 0]
    /\ owner = [f \in Uploads |-> "none"]
    /\ copy = [f \in Uploads |-> "none"]
    /\ work = [f \in Uploads |-> "new"]
    /\ runner = [f \in Uploads |-> "none"]
    /\ direct = {}
    /\ persistent = {}

Tick ==
    /\ hour < MaxClock
    /\ hour' = hour + 1
    /\ UNCHANGED <<direct, persistent, crashes, life, stagingDir, touched, owner, copy, work, runner>>

\* What becomes of the copies when directories are removed.
Without(removed) ==
    [f \in Uploads |-> IF copy[f] = "staged" /\ owner[f] \in removed THEN "gone" ELSE copy[f]]

\* Mutation of Stale: an hour too early.
StaleEarly(i) == stagingDir[i] = "exists" /\ touched[i] + StaleAge <= hour + 1

Stale(i) == stagingDir[i] = "exists" /\ touched[i] + StaleAge <= hour

\* With a stable directory configured, New does not sweep.
Sweeping(i) == IF i \in persistent' THEN {} ELSE {j \in Instances : Stale(j)}

Open(i, resumes) ==
    /\ life[i] = "new"
    /\ life' = [life EXCEPT ![i] = "open"]
    /\ persistent' = IF resumes THEN persistent \union {i} ELSE persistent
    /\ stagingDir' = [j \in Instances |-> IF j \in Sweeping(i) THEN "removed" ELSE stagingDir[j]]
    /\ copy' = Without(Sweeping(i))
    /\ UNCHANGED <<direct, hour, crashes, touched, owner, work, runner>>

Alive(i) == life[i] \notin {"new", "closed", "over"}

\* After Close the process may go on, with what Close did not wait for.
Executes(i) == life[i] \notin {"new", "over"}

\* Mutation of TouchedBy: stamped with the coming hour.
TouchedByAhead(f, i) ==
    IF copy'[f] = "staged" \/ copy[f] = "staged" THEN [touched EXCEPT ![i] = hour + 1] ELSE touched

\* The directory of an instance changes when a file is made or removed in it.
TouchedBy(f, i) == IF copy'[f] = "staged" \/ copy[f] = "staged" THEN [touched EXCEPT ![i] = hour] ELSE touched

-----------------------------------------------------------------------------
\* IndexFile, first half: the directory is made once, the file is copied.  The
\* directory is not made again when it has disappeared: os.Create fails.
Stage(i, f) ==
    /\ work[f] = "new" /\ Alive(i)
    /\ owner' = [owner EXCEPT ![f] = i]
    /\ IF i \notin persistent /\ stagingDir[i] = "removed"
       THEN /\ work' = [work EXCEPT ![f] = "failed"]
            /\ UNCHANGED <<copy, stagingDir, touched>>
       ELSE /\ work' = [work EXCEPT ![f] = "copied"]
            /\ copy' = [copy EXCEPT ![f] = IF i \in persistent THEN "stable" ELSE "staged"]
            /\ stagingDir' = [stagingDir EXCEPT ![i] = IF i \in persistent THEN @ ELSE "exists"]
            /\ touched' = TouchedBy(f, i)
    /\ UNCHANGED <<direct, persistent, hour, crashes, life, runner>>

WorkTo(f, step) ==
    /\ work' = [work EXCEPT ![f] = step]
    /\ UNCHANGED <<direct, persistent, hour, crashes, life, stagingDir, touched, owner>>

\* The copy stays behind when ScheduleTask fails, or the copy itself.
ScheduleRefused(f) == work[f] = "copied" /\ Executes(owner[f]) /\ WorkTo(f, "refused") /\ UNCHANGED <<copy, runner>>

ScheduleAccepted(f) ==
    /\ work[f] = "copied" /\ Executes(owner[f])
    /\ owner[f] \in persistent \/ life[owner[f]] \in {"open", "closing"}
    /\ WorkTo(f, "pending")
    /\ UNCHANGED <<copy, runner>>

\* IndexFileSync: a file of its own, and the handler in the caller's goroutine.
IndexSync(i, f) ==
    /\ work[f] = "new" /\ Alive(i)
    /\ owner' = [owner EXCEPT ![f] = i]
    /\ copy' = [copy EXCEPT ![f] = "temp"]
    /\ work' = [work EXCEPT ![f] = "taken"]
    /\ runner' = [runner EXCEPT ![f] = i]
    /\ direct' = direct \union {f}
    /\ UNCHANGED <<persistent, hour, crashes, life, stagingDir, touched>>

\* The task of a file is run by the process that was called or, when it is
\* persistent, by whichever is open.
Take(f, i) ==
    /\ work[f] = "pending" /\ life[i] \in {"open", "closing"}
    /\ i = owner[f] \/ {i, owner[f]} \subseteq persistent
    /\ runner' = [runner EXCEPT ![f] = i]
    /\ WorkTo(f, "taken") /\ UNCHANGED copy

Handled(f) == runner[f] # "none" /\ Executes(runner[f])

\* The handler opens the copy, or fails with ErrStagedFileMissing.
OpenCopy(f) ==
    /\ work[f] = "taken" /\ Handled(f)
    /\ WorkTo(f, IF copy[f] = "gone" THEN "removed" ELSE "reading")
    /\ UNCHANGED <<copy, runner>>

\* Mutation of RemoveCopy: the copy is kept when the handler fails.
RemoveCopyKept(f) ==
    /\ work[f] = "reading" /\ Handled(f)
    /\ work' = [work EXCEPT ![f] = "removed"]
    /\ copy' \in {copy, [copy EXCEPT ![f] = "gone"]}
    /\ touched' = TouchedBy(f, owner[f])
    /\ UNCHANGED <<direct, persistent, hour, crashes, life, stagingDir, owner, runner>>

\* Its deferred function removes the copy, whatever the outcome.
RemoveCopy(f) ==
    /\ work[f] = "reading" /\ Handled(f)
    /\ work' = [work EXCEPT ![f] = "removed"]
    /\ copy' = [copy EXCEPT ![f] = "gone"]
    /\ touched' = TouchedBy(f, owner[f])
    /\ UNCHANGED <<direct, persistent, hour, crashes, life, stagingDir, owner, runner>>

\* The outcome is written.
Finish(f) == work[f] = "removed" /\ Handled(f) /\ WorkTo(f, "ended") /\ UNCHANGED <<copy, runner>>

-----------------------------------------------------------------------------
LifeTo(i, step) ==
    /\ life' = [life EXCEPT ![i] = step]
    /\ UNCHANGED <<direct, persistent, hour, crashes, owner, work, runner, touched>>

\* Close cancels the runner's context and waits for Run to return.
Close(i) == life[i] = "open" /\ LifeTo(i, "closing") /\ UNCHANGED <<stagingDir, copy>>

Handling == {"taken", "reading", "removed"}

Busy(i) == \E f \in Uploads : runner[f] = i /\ f \notin direct /\ work[f] \in Handling

\* Mutation of Drained: Close does not wait for the workers.
DrainedAtOnce(i) == life[i] = "closing" /\ LifeTo(i, "drained") /\ UNCHANGED <<stagingDir, copy>>

\* Run returns when no worker is busy; what still waits is not taken any more.
Drained(i) == life[i] = "closing" /\ ~Busy(i) /\ LifeTo(i, "drained") /\ UNCHANGED <<stagingDir, copy>>

\* Mutation of CloseTimeout: Close waits as long as it takes.
CloseTimeoutNever(i) == FALSE /\ UNCHANGED stagingVars

CloseTimeout(i) == life[i] = "closing" /\ LifeTo(i, "late") /\ UNCHANGED <<stagingDir, copy>>

\* Mutation of Removed: the directory is removed after a graceful drain only.
RemovedIfDrained(i) == IF stagingDir[i] # "exists" \/ life[i] = "late" THEN {} ELSE {i}

\* CleanupTempDir: the instance's own directory, never the stable one.
Removed(i) == IF stagingDir[i] # "exists" THEN {} ELSE {i}

\* Mutation of CleanupTempDir: the stable directory goes too.
CleanupTempDirStable(i) ==
    /\ life[i] \in {"drained", "late"}
    /\ stagingDir' = [stagingDir EXCEPT ![i] = IF i \in Removed(i) THEN "removed" ELSE @]
    /\ copy' = [f \in Uploads |-> IF i \in persistent /\ copy[f] = "stable" THEN "gone" ELSE Without(Removed(i))[f]]
    /\ LifeTo(i, "closed")

CleanupTempDir(i) ==
    /\ life[i] \in {"drained", "late"}
    /\ stagingDir' = [stagingDir EXCEPT ![i] = IF i \in Removed(i) THEN "removed" ELSE @]
    /\ copy' = Without(Removed(i))
    /\ LifeTo(i, "closed")

\* The process is over: what it was doing ends with it, but for the tasks of
\* the database, which are handed out again.
InCall(f) == f \in direct \/ work[f] = "copied"

AfterDeath(i) ==
    [f \in Uploads |->
        CASE runner[f] = i /\ owner[f] \in persistent /\ ~InCall(f) /\ work[f] \in Handling -> "pending"
          [] owner[f] = i /\ (InCall(f) \/ i \notin persistent) /\ work[f] \in {"copied"} \union Unopened \union Handling -> "lost"
          [] OTHER -> work[f]]

Over(i) ==
    /\ life' = [life EXCEPT ![i] = "over"]
    /\ work' = AfterDeath(i)
    /\ UNCHANGED <<direct, persistent, hour, stagingDir, touched, owner, copy, runner>>

Crash(i) == Alive(i) /\ crashes < MaxCrashes /\ crashes' = crashes + 1 /\ Over(i)

Exit(i) == life[i] = "closed" /\ Over(i) /\ UNCHANGED crashes

CloseGoesOn == \E i \in Instances : Drained(i) \/ CloseTimeout(i) \/ CleanupTempDir(i)

StagingNext ==
    \/ Tick
    \/ \E i \in Instances, resumes \in BOOLEAN : Open(i, resumes)
    \/ \E i \in Instances : Close(i) \/ Drained(i) \/ CloseTimeout(i) \/ CleanupTempDir(i) \/ Crash(i) \/ Exit(i)
    \/ \E i \in Instances, f \in Uploads : Stage(i, f) \/ IndexSync(i, f) \/ Take(f, i)
    \/ \E f \in Uploads : ScheduleRefused(f) \/ ScheduleAccepted(f) \/ OpenCopy(f) \/ RemoveCopy(f) \/ Finish(f)

-----------------------------------------------------------------------------
StagingTypeOK ==
    /\ hour \in 0 .. MaxClock
    /\ crashes \in 0 .. MaxCrashes
    /\ life \in [Instances -> {"new", "open", "closing", "drained", "late", "closed", "over"}]
    /\ stagingDir \in [Instances -> {"none", "exists", "removed"}]
    /\ touched \in [Instances -> 0 .. MaxClock]
    /\ owner \in [Uploads -> Instances \union {"none"}]
    /\ copy \in [Uploads -> {"none", "staged", "stable", "temp", "gone"}]
    /\ work \in [Uploads -> Work]
    /\ runner \in [Uploads -> Instances \union {"none"}]
    /\ direct \subseteq Uploads
    /\ persistent \subseteq Instances

\* NewManager: "a concurrently-running instance's fresh directory is never
\* touched".  A task whose instance is open finds its copy, unless nothing has
\* touched the directory for staleTempDirAge.
FreshCopiesSurvive ==
    \A f \in Uploads :
        work[f] \in Unopened /\ copy[f] = "gone" /\ owner[f] \notin persistent /\ life[owner[f]] \in {"open", "closing"}
            => touched[owner[f]] + StaleAge <= hour

\* CleanupTempDir: the files of a stable directory "must survive the restart":
\* whatever is closed, swept or crashes, only the handler of a task removes one.
StableCopiesSurvive ==
    [][\A f \in Uploads : copy[f] = "stable" /\ copy'[f] # "stable" => work[f] = "reading"]_stagingVars

\* Close: "after a graceful drain no task still needs its staged file".
GracefulCloseTakesNothing ==
    [][\A i \in Instances, f \in Uploads :
           life[i] = "drained" /\ life'[i] = "closed" /\ copy[f] # copy'[f] => work[f] \notin {"taken", "reading"}]_stagingVars

\* Close "removes the ingestion staging directory", late or not.
ClosedLeavesNothing ==
    \A i \in Instances : life[i] = "closed" =>
        stagingDir[i] # "exists" /\ \A f \in Uploads : owner[f] = i => copy[f] # "staged"

\* No copy outlives its task: nothing else ever empties a stable directory, nor
\* removes the files of IndexFileSync.
EndedLeavesNoCopy == \A f \in Uploads : work[f] = "ended" => copy[f] = "gone"

\* Close returns, whatever the handlers do.
CloseReturns == \A i \in Instances : life[i] = "closing" ~> life[i] \in {"closed", "over"}

\* What a task is promised of the copy it reads: it is there until the task ends,
\* whatever other instances sweep (ingest/manager.go) and however this one closes;
\* and nothing is left behind by a closed instance or by a task that ended.
CopiesFollowTasks ==
    /\ [](StagingTypeOK /\ FreshCopiesSurvive /\ ClosedLeavesNothing /\ EndedLeavesNoCopy)
    /\ StableCopiesSurvive
    /\ GracefulCloseTakesNothing
=============================================================================
