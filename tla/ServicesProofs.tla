---------------------------- MODULE ServicesProofs ----------------------------
(***************************************************************************)
(* Proofs about what the ingestion rests on. The staging directory: a task   *)
(* finds the copy it reads and nothing stays behind it, for any number of    *)
(* instances and files, whatever is swept, closed, late or killed, in any    *)
(* order. The caches of llmx: for any number of callers, batches of any       *)
(* length and any failures, one request for each batch, every vector at its   *)
(* place, usage reported once, and no completion asked for again. The Codex:   *)
(* what any options in any order and any profile make of it.                 *)
(***************************************************************************)
EXTENDS LlmCache, Staging, Assembly, FiniteSetTheorems, TLAPS

-----------------------------------------------------------------------------
(***************************************************************************)
(* The staging directory                                                   *)
(***************************************************************************)

StagingSpec == StagingInit /\ [][StagingNext]_stagingVars

\* The calls of an instance are made while it lives, and a file is not there
\* before its call.
OwnersKnown ==
    \A f \in Uploads :
        /\ work[f] = "new" => owner[f] = "none" /\ copy[f] = "none" /\ f \notin direct
        /\ work[f] # "new" => owner[f] \in Instances /\ life[owner[f]] # "new"

\* A staged copy is in the directory of an instance that has one of its own.
StagedWhere ==
    \A f \in Uploads :
        copy[f] = "staged" => owner[f] \notin persistent /\ stagingDir[owner[f]] = "exists"

Unread == {"copied", "pending", "taken", "reading"}

\* The copy of a task that has not been read is only gone with its directory.
GoneWithDirectory ==
    \A f \in Uploads :
        work[f] \in Unread /\ owner[f] \notin persistent /\ copy[f] = "gone"
            => stagingDir[owner[f]] = "removed"

\* A directory is removed under an open instance only once it is stale, and it
\* stays as it was: nothing is made or removed in it any more.
SweptWhenStale ==
    \A i \in Instances :
        stagingDir[i] = "removed" /\ life[i] \in {"open", "closing"} => touched[i] + StaleAge <= hour

\* The handler's deferred function has removed the copy.
RemovedAreGone == \A f \in Uploads : work[f] \in {"removed", "ended"} => copy[f] = "gone"

\* IndexFileSync does not use the staging directory.
DirectApart == \A f \in direct : copy[f] \in {"temp", "gone"}

\* A task that is not persistent is run by the instance that was called.
OwnRunner ==
    \A f \in Uploads :
        work[f] \in Handling /\ f \notin direct /\ owner[f] \notin persistent => runner[f] = owner[f]

\* Close has waited for the workers, and none starts again.
DrainedIsIdle == \A i \in Instances : life[i] = "drained" => ~Busy(i)

\* The directory is made by a living instance and removed by its Close.
OwnDirectory ==
    \A i \in Instances :
        /\ life[i] = "closed" => stagingDir[i] # "exists"
        /\ life[i] = "new" => stagingDir[i] = "none"

StagingInv ==
    /\ StagingTypeOK /\ OwnersKnown /\ StagedWhere /\ GoneWithDirectory /\ SweptWhenStale
    /\ RemovedAreGone /\ DirectApart /\ OwnRunner /\ DrainedIsIdle /\ OwnDirectory

-----------------------------------------------------------------------------
(* The steps, in groups that touch the same state. *)

\* Steps of a call or a task that only move its work, and maybe its runner.
Moves(f) ==
    \/ ScheduleRefused(f) \/ ScheduleAccepted(f) \/ OpenCopy(f) \/ Finish(f)
    \/ \E i \in Instances : Take(f, i)

\* Steps of an instance that touch no file.
Lives(i) == Close(i) \/ Drained(i) \/ CloseTimeout(i)

Dies(i) == Crash(i) \/ Exit(i)

\* Every step is one of these.
LEMMA Steps ==
    ASSUME StagingNext
    PROVE  \/ Tick
           \/ \E i \in Instances : \/ \E resumes \in BOOLEAN : Open(i, resumes)
                                   \/ Lives(i) \/ CleanupTempDir(i) \/ Dies(i)
           \/ \E i \in Instances, f \in Uploads : Stage(i, f) \/ IndexSync(i, f)
           \/ \E f \in Uploads : Moves(f) \/ RemoveCopy(f)
  BY DEF StagingNext, Lives, Dies, Moves

\* What a step that moves the work of one file changes.
LEMMA MovesWork ==
    ASSUME StagingTypeOK, NEW f \in Uploads, Moves(f)
    PROVE  /\ UNCHANGED <<direct, persistent, hour, crashes, life, stagingDir, touched, owner, copy>>
           /\ \A g \in Uploads : g # f => work'[g] = work[g] /\ runner'[g] = runner[g]
           /\ work[f] \in {"copied", "pending", "taken", "removed"}
           /\ work'[f] \in {"refused", "pending", "taken", "removed", "reading", "ended"}
           /\ work'[f] = "pending" => work[f] = "copied"
           /\ work'[f] = "taken" => work[f] = "pending"
           /\ work'[f] = "reading" => work[f] = "taken"
           /\ work'[f] = "removed" => work[f] = "taken" /\ copy[f] = "gone"
           /\ work'[f] = "ended" => work[f] = "removed"
           /\ work'[f] # "taken" => runner'[f] = runner[f]
           /\ work'[f] = "taken" =>
                /\ life[runner'[f]] \in {"open", "closing"}
                /\ runner'[f] = owner[f] \/ owner[f] \in persistent
           /\ work' \in [Uploads -> Work]
           /\ runner' \in [Uploads -> Instances \union {"none"}]
<1> USE DEF StagingTypeOK, WorkTo, Work
<1>1. CASE ScheduleRefused(f)
  BY <1>1 DEF ScheduleRefused
<1>2. CASE ScheduleAccepted(f)
  BY <1>2 DEF ScheduleAccepted
<1>3. CASE OpenCopy(f)
  BY <1>3 DEF OpenCopy
<1>4. CASE Finish(f)
  BY <1>4 DEF Finish
<1>5. ASSUME NEW i \in Instances, Take(f, i)
      PROVE  /\ UNCHANGED <<direct, persistent, hour, crashes, life, stagingDir, touched, owner, copy>>
             /\ \A g \in Uploads : g # f => work'[g] = work[g] /\ runner'[g] = runner[g]
             /\ work[f] = "pending" /\ work'[f] = "taken"
             /\ life[runner'[f]] \in {"open", "closing"}
             /\ runner'[f] = owner[f] \/ owner[f] \in persistent
             /\ work' \in [Uploads -> Work]
             /\ runner' \in [Uploads -> Instances \union {"none"}]
  BY <1>5 DEF Take
<1> QED
  BY <1>1, <1>2, <1>3, <1>4, <1>5 DEF Moves

\* Close moves an instance on; it is drained only when no worker is busy.
LEMMA LivesOn ==
    ASSUME StagingTypeOK, NEW i \in Instances, Lives(i)
    PROVE  /\ UNCHANGED <<direct, persistent, hour, crashes, stagingDir, touched, owner, copy, work, runner>>
           /\ \A j \in Instances : j # i => life'[j] = life[j]
           /\ life[i] \in {"open", "closing"}
           /\ life'[i] \in {"closing", "drained", "late"}
           /\ life'[i] = "closing" => life[i] = "open"
           /\ life'[i] = "drained" => ~Busy(i)
           /\ life' \in [Instances -> {"new", "open", "closing", "drained", "late", "closed", "over"}]
  BY DEF Lives, Close, Drained, CloseTimeout, LifeTo, StagingTypeOK

\* A process that ends takes the calls and the tasks of its memory with it; the
\* persistent tasks it ran are pending again.
LEMMA DiesWith ==
    ASSUME StagingTypeOK, NEW i \in Instances, Dies(i)
    PROVE  /\ UNCHANGED <<direct, persistent, hour, stagingDir, touched, owner, copy, runner>>
           /\ \A j \in Instances : j # i => life'[j] = life[j]
           /\ life[i] \notin {"new", "over"} /\ life'[i] = "over"
           /\ \A f \in Uploads : \/ work'[f] = work[f]
                                 \/ work'[f] = "lost" /\ work[f] # "new"
                                 \/ work'[f] = "pending" /\ owner[f] \in persistent /\ work[f] # "new"
           /\ life' \in [Instances -> {"new", "open", "closing", "drained", "late", "closed", "over"}]
           /\ work' \in [Uploads -> Work]
           /\ crashes' \in 0 .. MaxCrashes
<1>1. Over(i) /\ life[i] \notin {"new", "over"}
  BY DEF Dies, Crash, Exit, Alive
<1>2. crashes' \in 0 .. MaxCrashes
  BY StagingAssumption DEF Dies, Crash, Exit, StagingTypeOK
<1>3. /\ \A f \in Uploads : \/ work'[f] = work[f]
                            \/ work'[f] = "lost" /\ work[f] # "new"
                            \/ work'[f] = "pending" /\ owner[f] \in persistent /\ work[f] # "new"
      /\ work' \in [Uploads -> Work]
  BY <1>1 DEF Over, AfterDeath, Handling, Unopened, StagingTypeOK, Work
<1> QED
  BY <1>1, <1>2, <1>3 DEF Over, StagingTypeOK

\* New sweeps the directories that are stale, with the copies in them.
LEMMA OpenSweeps ==
    ASSUME StagingTypeOK, NEW i \in Instances, NEW resumes \in BOOLEAN, Open(i, resumes)
    PROVE  /\ UNCHANGED <<direct, hour, crashes, touched, owner, work, runner>>
           /\ life[i] = "new" /\ life'[i] = "open"
           /\ \A j \in Instances : j # i => life'[j] = life[j]
           /\ persistent \subseteq persistent' /\ persistent' \subseteq persistent \union {i}
           /\ \A j \in Instances :
                \/ stagingDir'[j] = stagingDir[j]
                \/ stagingDir'[j] = "removed" /\ Stale(j)
           /\ \A f \in Uploads :
                \/ copy'[f] = copy[f] /\ (copy[f] = "staged" /\ owner[f] \in Instances
                                            => stagingDir'[owner[f]] = stagingDir[owner[f]])
                \/ copy[f] = "staged" /\ copy'[f] = "gone" /\ stagingDir'[owner[f]] = "removed"
           /\ life' \in [Instances -> {"new", "open", "closing", "drained", "late", "closed", "over"}]
           /\ stagingDir' \in [Instances -> {"none", "exists", "removed"}]
           /\ copy' \in [Uploads -> {"none", "staged", "stable", "temp", "gone"}]
<1> DEFINE S == Sweeping(i)
<1>1. S \subseteq Instances /\ \A j \in S : Stale(j)
  BY DEF Sweeping
<1>2. /\ stagingDir' = [j \in Instances |-> IF j \in S THEN "removed" ELSE stagingDir[j]]
      /\ copy' = [f \in Uploads |-> IF copy[f] = "staged" /\ owner[f] \in S THEN "gone" ELSE copy[f]]
  BY DEF Open, Without
<1> HIDE DEF S
<1>3. /\ stagingDir' \in [Instances -> {"none", "exists", "removed"}]
      /\ copy' \in [Uploads -> {"none", "staged", "stable", "temp", "gone"}]
      /\ \A j \in Instances :
           \/ stagingDir'[j] = stagingDir[j]
           \/ stagingDir'[j] = "removed" /\ Stale(j)
      /\ \A f \in Uploads :
           \/ copy'[f] = copy[f] /\ (copy[f] = "staged" /\ owner[f] \in Instances
                                       => stagingDir'[owner[f]] = stagingDir[owner[f]])
           \/ copy[f] = "staged" /\ copy'[f] = "gone" /\ stagingDir'[owner[f]] = "removed"
  BY <1>1, <1>2 DEF StagingTypeOK
<1>4. /\ UNCHANGED <<direct, hour, crashes, touched, owner, work, runner>>
      /\ life[i] = "new" /\ life' = [life EXCEPT ![i] = "open"]
      /\ persistent \subseteq persistent' /\ persistent' \subseteq persistent \union {i}
  BY DEF Open
<1> QED
  BY <1>3, <1>4 DEF StagingTypeOK

\* Close removes the directory of its instance, with the copies in it.
LEMMA CloseRemoves ==
    ASSUME StagingTypeOK, NEW i \in Instances, CleanupTempDir(i)
    PROVE  /\ UNCHANGED <<direct, persistent, hour, crashes, touched, owner, work, runner>>
           /\ life[i] \in {"drained", "late"} /\ life'[i] = "closed"
           /\ \A j \in Instances : j # i => life'[j] = life[j] /\ stagingDir'[j] = stagingDir[j]
           /\ stagingDir'[i] = IF stagingDir[i] = "exists" THEN "removed" ELSE stagingDir[i]
           /\ \A f \in Uploads :
                \/ copy'[f] = copy[f] /\ ~(copy[f] = "staged" /\ owner[f] = i /\ stagingDir[i] = "exists")
                \/ copy[f] = "staged" /\ copy'[f] = "gone" /\ owner[f] = i /\ stagingDir[i] = "exists"
           /\ life' \in [Instances -> {"new", "open", "closing", "drained", "late", "closed", "over"}]
           /\ stagingDir' \in [Instances -> {"none", "exists", "removed"}]
           /\ copy' \in [Uploads -> {"none", "staged", "stable", "temp", "gone"}]
  BY DEF CleanupTempDir, LifeTo, Without, Removed, StagingTypeOK

\* IndexFile makes the copy, or fails when its directory has disappeared.
LEMMA StagingStep ==
    ASSUME StagingTypeOK, NEW i \in Instances, NEW f \in Uploads, Stage(i, f)
    PROVE  /\ UNCHANGED <<direct, persistent, hour, crashes, life, runner>>
           /\ work[f] = "new" /\ life[i] \notin {"new", "closed", "over"}
           /\ owner'[f] = i
           /\ \A g \in Uploads : g # f => owner'[g] = owner[g] /\ work'[g] = work[g] /\ copy'[g] = copy[g]
           /\ \A j \in Instances : j # i => stagingDir'[j] = stagingDir[j] /\ touched'[j] = touched[j]
           /\ \/ work'[f] = "failed" /\ UNCHANGED <<copy, stagingDir, touched>>
              \/ /\ work'[f] = "copied" /\ copy'[f] = "stable" /\ i \in persistent
                 /\ stagingDir'[i] = stagingDir[i] /\ touched' \in {touched, [touched EXCEPT ![i] = hour]}
                 /\ (copy[f] # "staged" => touched' = touched)
              \/ /\ work'[f] = "copied" /\ copy'[f] = "staged" /\ i \notin persistent
                 /\ stagingDir[i] # "removed" /\ stagingDir'[i] = "exists"
                 /\ touched' = [touched EXCEPT ![i] = hour]
           /\ owner' \in [Uploads -> Instances \union {"none"}]
           /\ work' \in [Uploads -> Work]
           /\ copy' \in [Uploads -> {"none", "staged", "stable", "temp", "gone"}]
           /\ stagingDir' \in [Instances -> {"none", "exists", "removed"}]
           /\ touched' \in [Instances -> 0 .. MaxClock]
<1> USE DEF StagingTypeOK, Alive, Work
<1>1. /\ UNCHANGED <<direct, persistent, hour, crashes, life, runner>>
      /\ work[f] = "new" /\ life[i] \notin {"new", "closed", "over"}
      /\ owner' = [owner EXCEPT ![f] = i]
  BY DEF Stage
<1>2. CASE i \notin persistent /\ stagingDir[i] = "removed"
  BY <1>1, <1>2 DEF Stage
<1>3. CASE ~(i \notin persistent /\ stagingDir[i] = "removed")
  <2>1. /\ work' = [work EXCEPT ![f] = "copied"]
        /\ copy' = [copy EXCEPT ![f] = IF i \in persistent THEN "stable" ELSE "staged"]
        /\ stagingDir' = [stagingDir EXCEPT ![i] = IF i \in persistent THEN @ ELSE "exists"]
        /\ touched' = IF copy'[f] = "staged" \/ copy[f] = "staged"
                      THEN [touched EXCEPT ![i] = hour] ELSE touched
    BY <1>3 DEF Stage, TouchedBy
  <2>2. CASE i \in persistent
    BY <1>1, <1>3, <2>1, <2>2
  <2>3. CASE i \notin persistent
    BY <1>1, <1>3, <2>1, <2>3
  <2> QED
    BY <2>2, <2>3
<1> QED
  BY <1>2, <1>3

\* IndexFileSync has a file of its own.
LEMMA SyncsOwn ==
    ASSUME StagingTypeOK, NEW i \in Instances, NEW f \in Uploads, IndexSync(i, f)
    PROVE  /\ UNCHANGED <<persistent, hour, crashes, life, stagingDir, touched>>
           /\ work[f] = "new" /\ work'[f] = "taken" /\ life[i] \notin {"new", "closed", "over"}
           /\ owner'[f] = i /\ copy'[f] = "temp" /\ runner'[f] = i /\ direct' = direct \union {f}
           /\ \A g \in Uploads : g # f => /\ owner'[g] = owner[g] /\ work'[g] = work[g]
                                          /\ copy'[g] = copy[g] /\ runner'[g] = runner[g]
           /\ owner' \in [Uploads -> Instances \union {"none"}]
           /\ work' \in [Uploads -> Work]
           /\ copy' \in [Uploads -> {"none", "staged", "stable", "temp", "gone"}]
           /\ runner' \in [Uploads -> Instances \union {"none"}]
  BY DEF IndexSync, StagingTypeOK, Alive, Work

\* The handler's deferred function removes one copy.
LEMMA RemovesOne ==
    ASSUME StagingTypeOK, NEW f \in Uploads, RemoveCopy(f)
    PROVE  /\ UNCHANGED <<direct, persistent, hour, crashes, life, stagingDir, owner, runner>>
           /\ work[f] = "reading" /\ work'[f] = "removed" /\ copy'[f] = "gone"
           /\ \A g \in Uploads : g # f => work'[g] = work[g] /\ copy'[g] = copy[g]
           /\ \A j \in Instances : touched'[j] = touched[j] \/ (copy[f] = "staged" /\ j = owner[f])
           /\ work' \in [Uploads -> Work]
           /\ copy' \in [Uploads -> {"none", "staged", "stable", "temp", "gone"}]
           /\ touched' \in [Instances -> 0 .. MaxClock]
<1>1. /\ work[f] = "reading"
      /\ work' = [work EXCEPT ![f] = "removed"]
      /\ copy' = [copy EXCEPT ![f] = "gone"]
      /\ touched' = IF copy'[f] = "staged" \/ copy[f] = "staged"
                    THEN [touched EXCEPT ![owner[f]] = hour] ELSE touched
      /\ UNCHANGED <<direct, persistent, hour, crashes, life, stagingDir, owner, runner>>
  BY DEF RemoveCopy, TouchedBy
<1>2. copy'[f] = "gone"
  BY <1>1 DEF StagingTypeOK
<1>3. touched' = IF copy[f] = "staged" THEN [touched EXCEPT ![owner[f]] = hour] ELSE touched
  BY <1>1, <1>2
<1>4. /\ work' \in [Uploads -> Work] /\ work'[f] = "removed"
      /\ \A g \in Uploads : g # f => work'[g] = work[g]
  BY <1>1 DEF StagingTypeOK, Work
<1>5. /\ copy' \in [Uploads -> {"none", "staged", "stable", "temp", "gone"}]
      /\ \A g \in Uploads : g # f => copy'[g] = copy[g]
  BY <1>1 DEF StagingTypeOK
<1>6. /\ touched' \in [Instances -> 0 .. MaxClock]
      /\ \A j \in Instances : touched'[j] = touched[j] \/ (copy[f] = "staged" /\ j = owner[f])
  BY <1>3 DEF StagingTypeOK
<1> QED
  BY <1>1, <1>2, <1>4, <1>5, <1>6

\* The clock only goes forward.
LEMMA TickForward ==
    ASSUME StagingTypeOK, Tick
    PROVE  /\ UNCHANGED <<direct, persistent, crashes, life, stagingDir, touched, owner, copy, work, runner>>
           /\ hour' = hour + 1 /\ hour' \in 0 .. MaxClock
  BY StagingAssumption DEF Tick, StagingTypeOK

-----------------------------------------------------------------------------
(* The invariant. *)

\* The types, and the owners of files, are kept.
LEMMA TypeNext ==
    ASSUME StagingInv, StagingNext
    PROVE  StagingTypeOK' /\ OwnersKnown'
<1>0. StagingTypeOK /\ OwnersKnown
  BY DEF StagingInv
<1>1. CASE Tick
  BY <1>0, <1>1, TickForward DEF StagingTypeOK, OwnersKnown
<1>2. ASSUME NEW i \in Instances, NEW resumes \in BOOLEAN, Open(i, resumes)
      PROVE  StagingTypeOK' /\ OwnersKnown'
  <2>1. StagingTypeOK'
    BY <1>0, <1>2, OpenSweeps DEF StagingTypeOK
  <2>2. OwnersKnown'
    BY <1>0, <1>2, OpenSweeps DEF OwnersKnown
  <2> QED
    BY <2>1, <2>2
<1>3. ASSUME NEW i \in Instances, Lives(i) PROVE StagingTypeOK' /\ OwnersKnown'
  BY <1>0, <1>3, LivesOn DEF StagingTypeOK, OwnersKnown
<1>4. ASSUME NEW i \in Instances, CleanupTempDir(i) PROVE StagingTypeOK' /\ OwnersKnown'
  <2>1. StagingTypeOK'
    BY <1>0, <1>4, CloseRemoves DEF StagingTypeOK
  <2>2. OwnersKnown'
    BY <1>0, <1>4, CloseRemoves DEF OwnersKnown
  <2> QED
    BY <2>1, <2>2
<1>5. ASSUME NEW i \in Instances, Dies(i) PROVE StagingTypeOK' /\ OwnersKnown'
  <2>1. StagingTypeOK'
    BY <1>0, <1>5, DiesWith DEF StagingTypeOK
  <2>2. OwnersKnown'
    BY <1>0, <1>5, DiesWith DEF OwnersKnown
  <2> QED
    BY <2>1, <2>2
<1>6. ASSUME NEW i \in Instances, NEW f \in Uploads, Stage(i, f) PROVE StagingTypeOK' /\ OwnersKnown'
  <2>1. StagingTypeOK'
    BY <1>0, <1>6, StagingStep DEF StagingTypeOK
  <2>2. OwnersKnown'
    BY <1>0, <1>6, StagingStep DEF OwnersKnown
  <2> QED
    BY <2>1, <2>2
<1>7. ASSUME NEW i \in Instances, NEW f \in Uploads, IndexSync(i, f)
      PROVE  StagingTypeOK' /\ OwnersKnown'
  <2>1. StagingTypeOK'
    BY <1>0, <1>7, SyncsOwn DEF StagingTypeOK
  <2>2. OwnersKnown'
    BY <1>0, <1>7, SyncsOwn DEF OwnersKnown
  <2> QED
    BY <2>1, <2>2
<1>8. ASSUME NEW f \in Uploads, Moves(f) PROVE StagingTypeOK' /\ OwnersKnown'
  <2>1. StagingTypeOK'
    BY <1>0, <1>8, MovesWork DEF StagingTypeOK
  <2>2. OwnersKnown'
    BY <1>0, <1>8, MovesWork DEF OwnersKnown
  <2> QED
    BY <2>1, <2>2
<1>9. ASSUME NEW f \in Uploads, RemoveCopy(f) PROVE StagingTypeOK' /\ OwnersKnown'
  <2>1. StagingTypeOK'
    BY <1>0, <1>9, RemovesOne DEF StagingTypeOK
  <2>2. OwnersKnown'
    BY <1>0, <1>9, RemovesOne DEF OwnersKnown
  <2> QED
    BY <2>1, <2>2
<1> QED
  BY <1>1, <1>2, <1>3, <1>4, <1>5, <1>6, <1>7, <1>8, <1>9, Steps

\* Copies stay where they are until their directory or their handler removes them.
LEMMA CopiesNext ==
    ASSUME StagingInv, StagingNext
    PROVE  StagedWhere' /\ GoneWithDirectory' /\ RemovedAreGone' /\ DirectApart'
<1>0. /\ StagingTypeOK /\ OwnersKnown /\ StagedWhere /\ GoneWithDirectory /\ RemovedAreGone
      /\ DirectApart /\ direct \subseteq Uploads
  BY DEF StagingInv, StagingTypeOK
<1> USE DEF Unread
<1>1. CASE Tick
  BY <1>0, <1>1, TickForward DEF StagedWhere, GoneWithDirectory, RemovedAreGone, DirectApart
<1>2. ASSUME NEW i \in Instances, NEW resumes \in BOOLEAN, Open(i, resumes)
      PROVE  StagedWhere' /\ GoneWithDirectory' /\ RemovedAreGone' /\ DirectApart'
  <2>1. \A f \in Uploads : work[f] # "new" => owner[f] # i /\ owner[f] \in Instances
    BY <1>0, <1>2, OpenSweeps DEF OwnersKnown
  <2>2. StagedWhere'
    BY <1>0, <1>2, <2>1, OpenSweeps DEF StagedWhere, OwnersKnown
  <2>3. GoneWithDirectory'
    <3> SUFFICES ASSUME NEW f \in Uploads, work'[f] \in Unread, owner'[f] \notin persistent', copy'[f] = "gone"
                 PROVE  stagingDir'[owner'[f]] = "removed"
      BY DEF GoneWithDirectory
    <3>1. work[f] \in Unread /\ owner'[f] = owner[f] /\ owner[f] \in Instances /\ owner[f] \notin persistent
      BY <1>0, <1>2, <2>1, OpenSweeps
    <3>2. CASE copy[f] = "gone"
      BY <1>0, <1>2, <3>1, <3>2, OpenSweeps DEF GoneWithDirectory
    <3>3. CASE copy[f] # "gone"
      BY <1>0, <1>2, <3>1, <3>3, OpenSweeps
    <3> QED
      BY <3>2, <3>3
  <2>4. RemovedAreGone' /\ DirectApart'
    BY <1>0, <1>2, OpenSweeps DEF RemovedAreGone, DirectApart
  <2> QED
    BY <2>2, <2>3, <2>4
<1>3. ASSUME NEW i \in Instances, Lives(i)
      PROVE  StagedWhere' /\ GoneWithDirectory' /\ RemovedAreGone' /\ DirectApart'
  BY <1>0, <1>3, LivesOn DEF StagedWhere, GoneWithDirectory, RemovedAreGone, DirectApart
<1>4. ASSUME NEW i \in Instances, CleanupTempDir(i)
      PROVE  StagedWhere' /\ GoneWithDirectory' /\ RemovedAreGone' /\ DirectApart'
  <2>1. \A f \in Uploads : copy[f] = "staged" => owner[f] \in Instances
    BY <1>0 DEF OwnersKnown, StagedWhere
  <2>2. StagedWhere'
    BY <1>0, <1>4, <2>1, CloseRemoves DEF StagedWhere
  <2>3. GoneWithDirectory'
    BY <1>0, <1>4, CloseRemoves DEF GoneWithDirectory, OwnersKnown
  <2>4. RemovedAreGone' /\ DirectApart'
    BY <1>0, <1>4, CloseRemoves DEF RemovedAreGone, DirectApart
  <2> QED
    BY <2>2, <2>3, <2>4
<1>5. ASSUME NEW i \in Instances, Dies(i)
      PROVE  StagedWhere' /\ GoneWithDirectory' /\ RemovedAreGone' /\ DirectApart'
  BY <1>0, <1>5, DiesWith DEF StagedWhere, GoneWithDirectory, RemovedAreGone, DirectApart
<1>6. ASSUME NEW i \in Instances, NEW f \in Uploads, Stage(i, f)
      PROVE  StagedWhere' /\ GoneWithDirectory' /\ RemovedAreGone' /\ DirectApart'
  <2>1. copy[f] = "none" /\ owner[f] = "none" /\ f \notin direct
    BY <1>0, <1>6, StagingStep DEF OwnersKnown
  <2>2. \A g \in Uploads : g # f /\ work[g] # "new" => owner[g] \in Instances
    BY <1>0 DEF OwnersKnown
  <2>3. StagedWhere'
    BY <1>0, <1>6, <2>1, <2>2, StagingStep DEF StagedWhere, OwnersKnown
  <2>4. GoneWithDirectory'
    BY <1>0, <1>6, <2>1, <2>2, StagingStep DEF GoneWithDirectory
  <2>5. RemovedAreGone' /\ DirectApart'
    BY <1>0, <1>6, <2>1, StagingStep DEF RemovedAreGone, DirectApart
  <2> QED
    BY <2>3, <2>4, <2>5
<1>7. ASSUME NEW i \in Instances, NEW f \in Uploads, IndexSync(i, f)
      PROVE  StagedWhere' /\ GoneWithDirectory' /\ RemovedAreGone' /\ DirectApart'
  BY <1>0, <1>7, SyncsOwn DEF StagedWhere, GoneWithDirectory, RemovedAreGone, DirectApart
<1>8. ASSUME NEW f \in Uploads, Moves(f)
      PROVE  StagedWhere' /\ GoneWithDirectory' /\ RemovedAreGone' /\ DirectApart'
  <2>1. StagedWhere' /\ DirectApart'
    BY <1>0, <1>8, MovesWork DEF StagedWhere, DirectApart
  <2>2. GoneWithDirectory' /\ RemovedAreGone'
    BY <1>0, <1>8, MovesWork DEF GoneWithDirectory, RemovedAreGone
  <2> QED
    BY <2>1, <2>2
<1>9. ASSUME NEW f \in Uploads, RemoveCopy(f)
      PROVE  StagedWhere' /\ GoneWithDirectory' /\ RemovedAreGone' /\ DirectApart'
  BY <1>0, <1>9, RemovesOne DEF StagedWhere, GoneWithDirectory, RemovedAreGone, DirectApart
<1> QED
  BY <1>1, <1>2, <1>3, <1>4, <1>5, <1>6, <1>7, <1>8, <1>9, Steps

\* Directories are swept when they are stale, and removed by Close.
LEMMA DirectoriesNext ==
    ASSUME StagingInv, StagingNext
    PROVE  SweptWhenStale' /\ OwnDirectory'
<1>0. StagingTypeOK /\ OwnersKnown /\ StagedWhere /\ SweptWhenStale /\ OwnDirectory
  BY DEF StagingInv
<1>1. CASE Tick
  <2>1. \A i \in Instances : touched[i] + StaleAge <= hour => touched[i] + StaleAge <= hour + 1
    BY <1>0, StagingAssumption DEF StagingTypeOK
  <2> QED
    BY <1>0, <1>1, <2>1, TickForward DEF SweptWhenStale, OwnDirectory
<1>2. ASSUME NEW i \in Instances, NEW resumes \in BOOLEAN, Open(i, resumes)
      PROVE  SweptWhenStale' /\ OwnDirectory'
  <2>1. stagingDir[i] = "none" /\ stagingDir'[i] = "none"
    BY <1>0, <1>2, OpenSweeps DEF OwnDirectory, Stale
  <2> QED
    BY <1>0, <1>2, <2>1, OpenSweeps DEF SweptWhenStale, OwnDirectory, Stale
<1>3. ASSUME NEW i \in Instances, Lives(i) PROVE SweptWhenStale' /\ OwnDirectory'
  BY <1>0, <1>3, LivesOn DEF SweptWhenStale, OwnDirectory
<1>4. ASSUME NEW i \in Instances, CleanupTempDir(i) PROVE SweptWhenStale' /\ OwnDirectory'
  BY <1>0, <1>4, CloseRemoves DEF SweptWhenStale, OwnDirectory
<1>5. ASSUME NEW i \in Instances, Dies(i) PROVE SweptWhenStale' /\ OwnDirectory'
  BY <1>0, <1>5, DiesWith DEF SweptWhenStale, OwnDirectory
<1>6. ASSUME NEW i \in Instances, NEW f \in Uploads, Stage(i, f) PROVE SweptWhenStale' /\ OwnDirectory'
  <2>1. copy[f] # "staged"
    BY <1>0, <1>6, StagingStep DEF OwnersKnown
  <2>2. stagingDir'[i] = "removed" => touched' = touched /\ stagingDir[i] = "removed"
    BY <1>6, <1>0, <2>1, StagingStep
  <2> QED
    BY <1>0, <1>6, <2>2, StagingStep DEF SweptWhenStale, OwnDirectory
<1>7. ASSUME NEW i \in Instances, NEW f \in Uploads, IndexSync(i, f)
      PROVE  SweptWhenStale' /\ OwnDirectory'
  BY <1>0, <1>7, SyncsOwn DEF SweptWhenStale, OwnDirectory
<1>8. ASSUME NEW f \in Uploads, Moves(f) PROVE SweptWhenStale' /\ OwnDirectory'
  BY <1>0, <1>8, MovesWork DEF SweptWhenStale, OwnDirectory
<1>9. ASSUME NEW f \in Uploads, RemoveCopy(f) PROVE SweptWhenStale' /\ OwnDirectory'
  BY <1>0, <1>9, RemovesOne DEF SweptWhenStale, OwnDirectory, StagedWhere
<1> QED
  BY <1>1, <1>2, <1>3, <1>4, <1>5, <1>6, <1>7, <1>8, <1>9, Steps

\* Tasks are run where they belong, and not by an instance that is drained.
LEMMA RunnersNext ==
    ASSUME StagingInv, StagingNext
    PROVE  OwnRunner' /\ DrainedIsIdle'
<1>0. StagingTypeOK /\ OwnersKnown /\ OwnRunner /\ DrainedIsIdle
  BY DEF StagingInv
<1> USE DEF Handling, Busy
<1>1. CASE Tick
  BY <1>0, <1>1, TickForward DEF OwnRunner, DrainedIsIdle
<1>2. ASSUME NEW i \in Instances, NEW resumes \in BOOLEAN, Open(i, resumes)
      PROVE  OwnRunner' /\ DrainedIsIdle'
  BY <1>0, <1>2, OpenSweeps DEF OwnRunner, DrainedIsIdle
<1>3. ASSUME NEW i \in Instances, Lives(i) PROVE OwnRunner' /\ DrainedIsIdle'
  BY <1>0, <1>3, LivesOn DEF OwnRunner, DrainedIsIdle
<1>4. ASSUME NEW i \in Instances, CleanupTempDir(i) PROVE OwnRunner' /\ DrainedIsIdle'
  BY <1>0, <1>4, CloseRemoves DEF OwnRunner, DrainedIsIdle
<1>5. ASSUME NEW i \in Instances, Dies(i) PROVE OwnRunner' /\ DrainedIsIdle'
  BY <1>0, <1>5, DiesWith DEF OwnRunner, DrainedIsIdle
<1>6. ASSUME NEW i \in Instances, NEW f \in Uploads, Stage(i, f) PROVE OwnRunner' /\ DrainedIsIdle'
  BY <1>0, <1>6, StagingStep DEF OwnRunner, DrainedIsIdle
<1>7. ASSUME NEW i \in Instances, NEW f \in Uploads, IndexSync(i, f)
      PROVE  OwnRunner' /\ DrainedIsIdle'
  BY <1>0, <1>7, SyncsOwn DEF OwnRunner, DrainedIsIdle
<1>8. ASSUME NEW f \in Uploads, Moves(f) PROVE OwnRunner' /\ DrainedIsIdle'
  BY <1>0, <1>8, MovesWork DEF OwnRunner, DrainedIsIdle
<1>9. ASSUME NEW f \in Uploads, RemoveCopy(f) PROVE OwnRunner' /\ DrainedIsIdle'
  BY <1>0, <1>9, RemovesOne DEF OwnRunner, DrainedIsIdle
<1> QED
  BY <1>1, <1>2, <1>3, <1>4, <1>5, <1>6, <1>7, <1>8, <1>9, Steps

\* The invariant holds initially.
LEMMA StagingInvInit == StagingInit => StagingInv
<1> SUFFICES ASSUME StagingInit PROVE StagingInv
  OBVIOUS
<1>1. StagingTypeOK
  BY StagingAssumption DEF StagingInit, StagingTypeOK, Work
<1> QED
  BY <1>1 DEF StagingInit, StagingInv, OwnersKnown, StagedWhere, GoneWithDirectory, SweptWhenStale,
              RemovedAreGone, DirectApart, OwnRunner, DrainedIsIdle, OwnDirectory, Handling, Unread

\* Every step keeps it.
LEMMA StagingInvNext == StagingInv /\ [StagingNext]_stagingVars => StagingInv'
<1> SUFFICES ASSUME StagingInv, [StagingNext]_stagingVars PROVE StagingInv'
  OBVIOUS
<1>1. CASE StagingNext
  BY <1>1, TypeNext, CopiesNext, DirectoriesNext, RunnersNext DEF StagingInv
<1>2. CASE UNCHANGED stagingVars
  BY <1>2 DEF stagingVars, StagingInv, StagingTypeOK, OwnersKnown, StagedWhere, GoneWithDirectory,
              SweptWhenStale, RemovedAreGone, DirectApart, OwnRunner, DrainedIsIdle, OwnDirectory, Busy
<1> QED
  BY <1>1, <1>2

\* A task whose instance is open finds its copy unless its directory is stale, and
\* a closed instance or an ended task leaves nothing behind.
LEMMA StagingInvKeeps ==
    StagingInv => StagingTypeOK /\ FreshCopiesSurvive /\ ClosedLeavesNothing /\ EndedLeavesNoCopy
<1> SUFFICES ASSUME StagingInv
             PROVE  FreshCopiesSurvive /\ ClosedLeavesNothing /\ EndedLeavesNoCopy
  BY DEF StagingInv
<1>1. FreshCopiesSurvive
  <2> SUFFICES ASSUME NEW f \in Uploads, work[f] \in Unopened, copy[f] = "gone", owner[f] \notin persistent,
                      life[owner[f]] \in {"open", "closing"}
               PROVE  touched[owner[f]] + StaleAge <= hour
    BY DEF FreshCopiesSurvive
  <2>1. stagingDir[owner[f]] = "removed"
    BY DEF StagingInv, GoneWithDirectory, Unopened, Unread
  <2>2. owner[f] \in Instances
    BY DEF StagingInv, OwnersKnown, Unopened
  <2> QED
    BY <2>1, <2>2 DEF StagingInv, SweptWhenStale
<1>2. ClosedLeavesNothing
  BY DEF StagingInv, OwnDirectory, StagedWhere, ClosedLeavesNothing
<1>3. EndedLeavesNoCopy
  BY DEF StagingInv, RemovedAreGone, EndedLeavesNoCopy
<1> QED
  BY <1>1, <1>2, <1>3

\* Only the handler of a task takes a stable copy away.
LEMMA StableStep ==
    ASSUME StagingInv, StagingNext, NEW f \in Uploads, copy[f] = "stable", copy'[f] # "stable"
    PROVE  work[f] = "reading"
<1>0. StagingTypeOK /\ OwnersKnown
  BY DEF StagingInv
<1>1. CASE Tick \/ \E i \in Instances : Lives(i) \/ Dies(i)
  BY <1>0, <1>1, TickForward, LivesOn, DiesWith
<1>2. ASSUME NEW i \in Instances, NEW resumes \in BOOLEAN, Open(i, resumes) PROVE FALSE
  BY <1>0, <1>2, OpenSweeps
<1>3. ASSUME NEW i \in Instances, CleanupTempDir(i) PROVE FALSE
  BY <1>0, <1>3, CloseRemoves
<1>4. ASSUME NEW i \in Instances, NEW g \in Uploads, Stage(i, g) \/ IndexSync(i, g) PROVE FALSE
  <2>1. g = f => copy[f] = "none"
    BY <1>0, <1>4, StagingStep, SyncsOwn DEF OwnersKnown
  <2> QED
    BY <1>0, <1>4, <2>1, StagingStep, SyncsOwn
<1>5. ASSUME NEW g \in Uploads, Moves(g) PROVE FALSE
  BY <1>0, <1>5, MovesWork
<1>6. ASSUME NEW g \in Uploads, RemoveCopy(g) PROVE work[f] = "reading"
  BY <1>0, <1>6, RemovesOne
<1> QED
  BY <1>1, <1>2, <1>3, <1>4, <1>5, <1>6, Steps

\* A Close that drained takes no copy a task still needs.
LEMMA GracefulStep ==
    ASSUME StagingInv, StagingNext, NEW i \in Instances, NEW f \in Uploads,
           life[i] = "drained", life'[i] = "closed", copy[f] # copy'[f]
    PROVE  work[f] \notin {"taken", "reading"}
<1>0. StagingTypeOK
  BY DEF StagingInv
<1>1. CleanupTempDir(i)
  <2>1. ASSUME NEW j \in Instances, NEW resumes \in BOOLEAN, Open(j, resumes) PROVE FALSE
    BY <1>0, <2>1, OpenSweeps
  <2>2. ASSUME NEW j \in Instances, Lives(j) \/ Dies(j) PROVE FALSE
    BY <1>0, <2>2, LivesOn, DiesWith
  <2>3. ASSUME NEW j \in Instances, CleanupTempDir(j) PROVE j = i
    BY <1>0, <2>3, CloseRemoves
  <2>4. ASSUME NEW j \in Instances, NEW g \in Uploads, Stage(j, g) \/ IndexSync(j, g) PROVE FALSE
    BY <1>0, <2>4, StagingStep, SyncsOwn
  <2>5. ASSUME NEW g \in Uploads, Moves(g) \/ RemoveCopy(g) PROVE FALSE
    BY <1>0, <2>5, MovesWork, RemovesOne
  <2> QED
    BY <1>0, <2>1, <2>2, <2>3, <2>4, <2>5, Steps, TickForward
<1>2. copy[f] = "staged" /\ owner[f] = i
  BY <1>0, <1>1, CloseRemoves
<1>3. f \notin direct /\ owner[f] \notin persistent
  BY <1>2 DEF StagingInv, DirectApart, StagedWhere
<1>4. work[f] \in {"taken", "reading"} => runner[f] = i
  BY <1>2, <1>3 DEF StagingInv, OwnRunner, Handling
<1> QED
  BY <1>3, <1>4 DEF StagingInv, DrainedIsIdle, Busy, Handling

\* The copies of files follow their tasks, for any number of instances and files:
\* a task finds its copy unless its directory has been idle for staleTempDirAge or
\* its instance is closing late, a stable copy goes with its handler only, a drained
\* Close takes nothing a task needs, and nothing is left behind.
THEOREM CopiesKept == StagingSpec => CopiesFollowTasks
<1>1. StagingInv /\ [StagingNext]_stagingVars =>
        [\A f \in Uploads : copy[f] = "stable" /\ copy'[f] # "stable" => work[f] = "reading"]_stagingVars
  BY StableStep
<1>2. StagingInv /\ [StagingNext]_stagingVars =>
        [\A i \in Instances, f \in Uploads :
            life[i] = "drained" /\ life'[i] = "closed" /\ copy[f] # copy'[f]
                => work[f] \notin {"taken", "reading"}]_stagingVars
  BY GracefulStep
<1> QED
  BY StagingInvInit, StagingInvNext, StagingInvKeeps, <1>1, <1>2, PTL
     DEF StagingSpec, CopiesFollowTasks, StableCopiesSurvive, GracefulCloseTakesNothing

-----------------------------------------------------------------------------
(***************************************************************************)
(* The caches of the model clients                                         *)
(***************************************************************************)

Places == {"idle", "looking", "missed", "rechecking", "calling", "storing", "waiting", "done", "failed"}
Slots == Seq(CacheKeys \union {"none", "altered"})

CacheTyped ==
    /\ files \in [CacheKeys -> {"absent", "good", "corrupt"}]
    /\ place \in [Callers -> Places]
    /\ asked \in [Callers -> Batches \union {<<>>}]
    /\ slots \in [Callers -> Slots]
    /\ missing \in [Callers -> Seq(Nat)]
    /\ leader \in [Callers -> Callers \union {NoCaller}]
    /\ flights \subseteq Callers
    /\ landed \in [Callers -> {"none", "landed", "failed"}]
    /\ billed \in [Callers -> Nat] /\ reported \in [Callers -> Nat]
    /\ altered \subseteq Callers

-----------------------------------------------------------------------------
(* One caller: its place p, its inputs a, its slots s and what it misses m. *)

Misses(m, i) == \E j \in 1 .. Len(m) : m[j] = i

\* The lookup fills one slot after the other, and what is not in its slot is
\* missing until the caller ends.
Looked(p, a, s, m) ==
    /\ p = "idle" => a = <<>> /\ s = <<>> /\ m = <<>>
    /\ p # "idle" => a \in Batches
    /\ Len(s) <= Len(a) /\ Len(m) <= Len(s)
    /\ p = "looking" => Len(s) < Len(a)
    /\ p \notin {"idle", "looking"} => Len(s) = Len(a)
    /\ p # "done" => \A i \in 1 .. Len(s) : Misses(m, i) \/ s[i] = a[i]
    /\ \A j \in 1 .. Len(m) : m[j] \in 1 .. Len(s)
    /\ p = "done" => \A i \in 1 .. Len(a) : s[i] \in {a[i], "altered"}
    /\ p \in {"missed", "rechecking", "calling", "storing", "waiting"} /\ Len(a) = 1 => m = <<1>>

AllLooked == \A c \in Callers : Looked(place[c], asked[c], slots[c], missing[c])

\* A batch is a sequence of keys.
LEMMA BatchIs ==
    ASSUME NEW a \in Batches
    PROVE  a \in Seq(CacheKeys) /\ Len(a) \in Nat /\ Len(a) >= 1
<1>1. ASSUME NEW n \in Nat, n >= 1, NEW S \in SUBSET CacheKeys, a \in [1 .. n -> S]
      PROVE  a \in Seq(CacheKeys) /\ Len(a) \in Nat /\ Len(a) >= 1
  BY <1>1
<1>2. Texts \in SUBSET CacheKeys /\ Prompts \in SUBSET CacheKeys
  BY DEF CacheKeys
<1>3. ASSUME NEW n \in 1 .. MaxInputs, a \in [1 .. n -> Texts]
      PROVE  a \in Seq(CacheKeys) /\ Len(a) \in Nat /\ Len(a) >= 1
  <2>1. n \in Nat /\ n >= 1
    BY CacheAssumption
  <2> QED
    BY <1>1, <1>2, <1>3, <2>1
<1>4. ASSUME a \in [1 .. 1 -> Prompts]
      PROVE  a \in Seq(CacheKeys) /\ Len(a) \in Nat /\ Len(a) >= 1
  <2>1. 1 \in Nat /\ 1 >= 1
    OBVIOUS
  <2> QED
    BY <1>1, <1>2, <1>4, <2>1, Zenon
<1>5. (\E n \in 1 .. MaxInputs : a \in [1 .. n -> Texts]) \/ a \in [1 .. 1 -> Prompts]
  BY Zenon DEF Batches
<1> QED
  BY <1>3, <1>4, <1>5, Zenon

\* A completion has one input, and it is no text.
LEMMA ChatIs ==
    ASSUME NEW c \in Callers, IsChat(c)
    PROVE  Len(asked[c]) = 1 /\ asked[c][1] \in Prompts
  BY DEF IsChat

\* What a caller does.
Acts(c) == (\E inputs \in Batches : Ask(c, inputs)) \/ CallGoesOn(c) \/ FlightFails(c) \/ Alter(c)

\* A caller leaves the others as they are.
LEMMA Untouched ==
    ASSUME CacheTyped, NEW c \in Callers, Acts(c), NEW d \in Callers \ {c}
    PROVE  /\ place'[d] = place[d] /\ asked'[d] = asked[d] /\ slots'[d] = slots[d] /\ missing'[d] = missing[d]
           /\ billed'[d] = billed[d] /\ reported'[d] = reported[d]
<1> USE DEF CacheTyped, Goes, Lands
<1>1. ASSUME NEW inputs \in Batches, Ask(c, inputs)
      PROVE  /\ place'[d] = place[d] /\ asked'[d] = asked[d] /\ slots'[d] = slots[d] /\ missing'[d] = missing[d]
             /\ billed'[d] = billed[d] /\ reported'[d] = reported[d]
  BY <1>1 DEF Ask
<1>2. CASE Look(c)
  BY <1>2 DEF Look
<1>3. CASE Join(c)
  BY <1>3 DEF Join
<1>4. CASE Recheck(c)
  BY <1>4 DEF Recheck
<1>5. CASE Charged(c) \/ StoreFile(c)
  BY <1>5 DEF Charged, StoreFile
<1>6. CASE Return(c)
  BY <1>6 DEF Return
<1>7. CASE Wake(c)
  BY <1>7 DEF Wake
<1>8. CASE FlightFails(c) \/ Alter(c)
  BY <1>8 DEF FlightFails, Alter
<1> QED
  BY <1>1, <1>2, <1>3, <1>4, <1>5, <1>6, <1>7, <1>8 DEF Acts, CallGoesOn

\* Filling the missing slots completes the answer.
LEMMA Fills ==
    ASSUME CacheTyped, NEW c \in Callers, NEW changed \in BOOLEAN,
           asked[c] \in Batches, Len(slots[c]) = Len(asked[c]),
           \A i \in 1 .. Len(slots[c]) : Misses(missing[c], i) \/ slots[c][i] = asked[c][i]
    PROVE  /\ Filled(c, changed) \in Slots /\ Len(Filled(c, changed)) = Len(asked[c])
           /\ \A i \in 1 .. Len(asked[c]) : Filled(c, changed)[i] \in {asked[c][i], "altered"}
<1> DEFINE a == asked[c]
           s == slots[c]
           f == Filled(c, changed)
<1>1. a \in Seq(CacheKeys) /\ Len(a) \in Nat
  BY BatchIs
<1>2. s \in Slots /\ Len(s) = Len(a)
  BY DEF CacheTyped
<1>3. f = [i \in 1 .. Len(s) |-> IF Misses(missing[c], i) THEN IF changed THEN "altered" ELSE a[i] ELSE s[i]]
  BY DEF Filled, Misses
<1>4. \A i \in 1 .. Len(s) : f[i] \in {a[i], "altered"} /\ a[i] \in CacheKeys
  BY <1>1, <1>2, <1>3
<1>5. f \in [1 .. Len(s) -> CacheKeys \union {"none", "altered"}]
  <2>1. \A i \in 1 .. Len(s) : f[i] \in CacheKeys \union {"none", "altered"}
    BY <1>4
  <2> HIDE DEF a, s
  <2> QED
    BY <1>3, <2>1
<1> HIDE DEF f, a, s
<1>6. f \in Slots /\ Len(f) = Len(s)
  BY <1>1, <1>2, <1>5 DEF Slots
<1> QED
  BY <1>2, <1>4, <1>6 DEF f, a, s

\* One lookup: the slot of the next input, found or missing.
LEMMA LookKeeps ==
    ASSUME CacheTyped, AllLooked, NEW c \in Callers, Look(c)
    PROVE  /\ slots' \in [Callers -> Slots] /\ missing' \in [Callers -> Seq(Nat)] /\ place' \in [Callers -> Places]
           /\ Looked(place'[c], asked'[c], slots'[c], missing'[c])
           /\ place'[c] \in {"looking", "done", "missed"}
<1> DEFINE a == asked[c]
           s == slots[c]
           m == missing[c]
           i == Len(s) + 1
           hit == files[a[i]] = "good"
           e == IF hit THEN a[i] ELSE "none"
           t == Append(s, e)
           n == IF hit THEN m ELSE Append(m, i)
           p == IF i < Len(a) THEN "looking" ELSE IF n = <<>> THEN "done" ELSE "missed"
<1>1. Looked("looking", a, s, m) /\ a \in Batches /\ s \in Slots /\ m \in Seq(Nat)
  BY DEF AllLooked, Looked, Look, CacheTyped
<1>2. /\ a \in Seq(CacheKeys) /\ Len(a) \in Nat /\ Len(s) \in Nat /\ Len(s) < Len(a) /\ i \in 1 .. Len(a)
      /\ Len(m) \in Nat /\ Len(m) <= Len(s)
  <2>1. a \in Seq(CacheKeys) /\ Len(a) \in Nat /\ Len(s) \in Nat /\ Len(m) \in Nat
    BY <1>1, BatchIs DEF Slots
  <2>2. Len(s) < Len(a) /\ Len(m) <= Len(s)
    BY <1>1 DEF Looked
  <2> QED
    BY <2>1, <2>2
<1>3. e \in CacheKeys \union {"none", "altered"}
  BY <1>2
<1>4. slots' = [slots EXCEPT ![c] = t]
  BY DEF Look
<1>5. missing' = [missing EXCEPT ![c] = n]
  BY DEF Look
<1>6. missing'[c] = n
  BY <1>5 DEF CacheTyped
<1>7. place' = [place EXCEPT ![c] = p]
  BY <1>6 DEF Look, Goes
<1>8. asked' = asked
  BY DEF Look
<1> HIDE DEF e
<1>9. /\ t \in Slots /\ Len(t) = i /\ t[i] = e /\ \A j \in 1 .. Len(s) : t[j] = s[j]
  BY <1>1, <1>2, <1>3 DEF Slots
<1>10. /\ n \in Seq(Nat) /\ Len(n) \in Nat /\ Len(n) <= i
       /\ \A j \in 1 .. Len(m) : j \in 1 .. Len(n) /\ n[j] = m[j]
       /\ ~hit => Len(n) = Len(m) + 1 /\ n[Len(n)] = i
       /\ hit => n = m
  <2>1. CASE hit
    BY <1>1, <1>2, <2>1
  <2>2. CASE ~hit
    <3>1. n = Append(m, i) /\ i \in Nat
      BY <1>2, <2>2
    <3> HIDE DEF n, i, hit
    <3>2. n \in Seq(Nat) /\ Len(n) = Len(m) + 1 /\ n[Len(m) + 1] = i /\ \A j \in 1 .. Len(m) : n[j] = m[j]
      BY <1>1, <3>1
    <3>3. Len(m) + 1 <= i
      BY <1>2 DEF i
    <3> QED
      BY <1>2, <2>2, <3>2, <3>3
  <2> QED
    BY <2>1, <2>2
<1> HIDE DEF t, n
<1>11. \A j \in 1 .. i : j \in 1 .. Len(s) \/ j = i
  BY <1>2
<1>12. \A j \in 1 .. Len(t) : Misses(n, j) \/ t[j] = a[j]
  <2>1. ASSUME NEW j \in 1 .. Len(s)
        PROVE  Misses(n, j) \/ t[j] = a[j]
    BY <1>1, <1>9, <1>10, <2>1 DEF Looked, Misses
  <2>2. Misses(n, i) \/ t[i] = a[i]
    <3>1. ~hit => Len(n) \in 1 .. Len(n)
      BY <1>2, <1>10
    <3> QED
      BY <1>9, <1>10, <3>1 DEF Misses, e
  <2> QED
    BY <1>9, <1>11, <2>1, <2>2
<1>13. \A j \in 1 .. Len(n) : n[j] \in 1 .. Len(t)
  <2> SUFFICES ASSUME NEW j \in 1 .. Len(n)
               PROVE  n[j] \in 1 .. i
    BY <1>9
  <2>1. j \in 1 .. Len(m) \/ (~hit /\ j = Len(n))
    BY <1>2, <1>10
  <2>2. CASE j \in 1 .. Len(m)
    <3>1. n[j] = m[j] /\ m[j] \in 1 .. Len(s)
      BY <1>1, <1>10, <2>2 DEF Looked
    <3> QED
      BY <1>2, <3>1
  <2>3. CASE ~hit /\ j = Len(n)
    BY <1>2, <1>10, <2>3
  <2> QED
    BY <2>1, <2>2, <2>3
<1>14. p = "done" => \A j \in 1 .. Len(a) : t[j] \in {a[j], "altered"}
  <2> SUFFICES ASSUME p = "done", NEW j \in 1 .. Len(a)
               PROVE  t[j] \in {a[j], "altered"}
    OBVIOUS
  <2>1. n = <<>> /\ Len(a) = i
    BY <1>2
  <2>2. ~Misses(n, j)
    BY <2>1 DEF Misses
  <2> QED
    BY <1>9, <1>12, <2>1, <2>2
<1>15. p = "missed" /\ Len(a) = 1 => n = <<1>>
  <2> SUFFICES ASSUME p = "missed", Len(a) = 1
               PROVE  n = <<1>>
    OBVIOUS
  <2>1. Len(s) = 0 /\ Len(m) = 0 /\ i = 1
    BY <1>2
  <2>2. m = <<>> /\ n # <<>>
    BY <1>1, <2>1
  <2>3. ~hit
    BY <1>10, <2>2
  <2>4. n = Append(<<>>, 1)
    BY <2>1, <2>2, <2>3 DEF n
  <2> QED
    BY <2>4
<1>16. p \in {"looking", "done", "missed"} /\ (p = "looking" => i < Len(a)) /\ (p # "looking" => i = Len(a))
  BY <1>2
<1> HIDE DEF p, i, hit
<1>17. Looked(p, a, t, n)
  BY <1>1, <1>2, <1>9, <1>10, <1>12, <1>13, <1>14, <1>15, <1>16 DEF Looked
<1>18. /\ slots' \in [Callers -> Slots] /\ slots'[c] = t /\ missing' \in [Callers -> Seq(Nat)] /\ missing'[c] = n
       /\ place' \in [Callers -> Places] /\ place'[c] = p /\ asked'[c] = a
  <2> HIDE DEF a, s, m
  <2>1. p \in Places
    BY <1>16 DEF Places
  <2>2. asked[c] = a
    BY DEF a
  <2> QED
    BY <1>4, <1>5, <1>7, <1>8, <1>9, <1>10, <2>1, <2>2 DEF CacheTyped
<1> QED
  BY <1>16, <1>17, <1>18

\* An answer that is filled in.
LEMMA DoneKeeps ==
    ASSUME CacheTyped, AllLooked, NEW c \in Callers, NEW changed \in BOOLEAN,
           place[c] \in {"rechecking", "storing", "waiting"}
    PROVE  /\ Filled(c, changed) \in Slots
           /\ Looked("done", asked[c], Filled(c, changed), missing[c])
<1>1. Looked(place[c], asked[c], slots[c], missing[c])
  BY DEF AllLooked
<1>2. /\ asked[c] \in Batches /\ Len(slots[c]) = Len(asked[c])
      /\ \A i \in 1 .. Len(slots[c]) : Misses(missing[c], i) \/ slots[c][i] = asked[c][i]
  BY <1>1 DEF Looked
<1>3. /\ Filled(c, changed) \in Slots /\ Len(Filled(c, changed)) = Len(asked[c])
      /\ \A i \in 1 .. Len(asked[c]) : Filled(c, changed)[i] \in {asked[c][i], "altered"}
  BY <1>2, Fills
<1>4. Len(asked[c]) \in Nat
  BY <1>2, BatchIs
<1> QED
  BY <1>1, <1>2, <1>3, <1>4 DEF Looked

\* Whoever waits, waits for a caller.
Led == \A c \in Callers : place[c] = "waiting" => leader[c] \in Callers

\* Every step keeps the types, and what each caller looked up.
LEMMA ActsKeep ==
    ASSUME CacheTyped, AllLooked, Led, NEW c \in Callers, Acts(c)
    PROVE  CacheTyped' /\ Looked(place'[c], asked'[c], slots'[c], missing'[c])
<1> DEFINE Keeps == CacheTyped' /\ Looked(place'[c], asked'[c], slots'[c], missing'[c])
<1>1. Looked(place[c], asked[c], slots[c], missing[c])
  BY DEF AllLooked
<1>2. ASSUME NEW inputs \in Batches, Ask(c, inputs)
      PROVE  Keeps
  <2>1. /\ asked' = [asked EXCEPT ![c] = inputs] /\ place' = [place EXCEPT ![c] = "looking"] /\ place[c] = "idle"
        /\ UNCHANGED <<files, slots, missing, leader, flights, landed, billed, reported, altered>>
    BY <1>2 DEF Ask, Goes
  <2>2. asked[c] = <<>> /\ slots[c] = <<>> /\ missing[c] = <<>>
    BY <1>1, <2>1 DEF Looked
  <2>3. Len(inputs) \in Nat /\ Len(inputs) >= 1
    BY BatchIs
  <2>4. CacheTyped'
    BY <2>1 DEF CacheTyped, Places
  <2>5. place'[c] = "looking" /\ asked'[c] = inputs /\ slots'[c] = <<>> /\ missing'[c] = <<>>
    BY <2>1, <2>2 DEF CacheTyped
  <2>6. Looked("looking", inputs, <<>>, <<>>)
    BY <2>3 DEF Looked, Misses
  <2> QED
    BY <2>4, <2>5, <2>6
<1>3. CASE Look(c)
  <2>1. UNCHANGED <<files, asked, leader, flights, landed, billed, reported, altered>>
    BY <1>3 DEF Look
  <2> QED
    BY <1>3, <2>1, LookKeeps DEF CacheTyped
<1>4. CASE Join(c)
  <2>1. /\ UNCHANGED <<files, asked, slots, missing, landed, billed, reported, altered>>
        /\ place[c] = "missed"
        /\ \E p \in {"rechecking", "calling", "waiting"} : place' = [place EXCEPT ![c] = p]
        /\ flights' \subseteq Callers
    BY <1>4 DEF Join, Goes, CacheTyped
  <2>2. leader' \in [Callers -> Callers \union {NoCaller}]
    <3>1. SameFlight(c) # {} => (CHOOSE d \in SameFlight(c) : TRUE) \in Callers
      BY DEF SameFlight, CacheTyped
    <3>2. leader \in [Callers -> Callers \union {NoCaller}]
      BY DEF CacheTyped
    <3>3. \/ leader' = leader
          \/ SameFlight(c) # {} /\ leader' = [leader EXCEPT ![c] = CHOOSE d \in SameFlight(c) : TRUE]
      BY <1>4 DEF Join
    <3> QED
      BY <3>1, <3>2, <3>3
  <2>3. CacheTyped'
    <3>1. place' \in [Callers -> Places]
      BY <2>1 DEF CacheTyped, Places
    <3> QED
      BY <2>1, <2>2, <3>1 DEF CacheTyped
  <2>4. /\ place'[c] \in {"rechecking", "calling", "waiting"}
        /\ asked'[c] = asked[c] /\ slots'[c] = slots[c] /\ missing'[c] = missing[c]
    BY <2>1 DEF CacheTyped
  <2> QED
    BY <1>1, <2>1, <2>3, <2>4 DEF Looked
<1>5. ASSUME NEW p \in {"calling", "storing", "failed"}, place' = [place EXCEPT ![c] = p],
             place[c] \in {"rechecking", "calling", "storing", "waiting"},
             UNCHANGED <<asked, slots, missing>>
      PROVE  place' \in [Callers -> Places] /\ Looked(place'[c], asked'[c], slots'[c], missing'[c])
  <2>1. place' \in [Callers -> Places] /\ place'[c] = p
    BY <1>5 DEF CacheTyped, Places
  <2> QED
    BY <1>1, <1>5, <2>1 DEF Looked
<1>6. ASSUME NEW changed \in BOOLEAN, place' = [place EXCEPT ![c] = "done"],
             place[c] \in {"rechecking", "storing", "waiting"},
             slots' = [slots EXCEPT ![c] = Filled(c, changed)], UNCHANGED <<asked, missing>>
      PROVE  /\ place' \in [Callers -> Places] /\ slots' \in [Callers -> Slots]
             /\ Looked(place'[c], asked'[c], slots'[c], missing'[c])
  <2>1. Filled(c, changed) \in Slots /\ Looked("done", asked[c], Filled(c, changed), missing[c])
    BY <1>6, DoneKeeps
  <2>2. place' \in [Callers -> Places] /\ place'[c] = "done" /\ slots' \in [Callers -> Slots]
    BY <1>6, <2>1 DEF CacheTyped, Places
  <2>3. slots'[c] = Filled(c, changed)
    BY <1>6 DEF CacheTyped
  <2> QED
    BY <1>6, <2>1, <2>2, <2>3
<1>7. CASE Recheck(c)
  <2>1. /\ UNCHANGED <<files, asked, missing, leader, billed, reported, altered>>
        /\ place[c] = "rechecking"
        /\ \/ /\ place' = [place EXCEPT ![c] = "done"] /\ slots' = [slots EXCEPT ![c] = Filled(c, FALSE)]
              /\ landed' = [landed EXCEPT ![c] = "landed"]
           \/ place' = [place EXCEPT ![c] = "calling"] /\ UNCHANGED <<slots, landed>>
        /\ flights' \subseteq flights
    BY <1>7 DEF Recheck, Goes, Lands
  <2>2. landed' \in [Callers -> {"none", "landed", "failed"}]
    BY <2>1 DEF CacheTyped
  <2>3. /\ place' \in [Callers -> Places] /\ slots' \in [Callers -> Slots]
        /\ Looked(place'[c], asked'[c], slots'[c], missing'[c])
    <3>1. CASE /\ place' = [place EXCEPT ![c] = "done"] /\ slots' = [slots EXCEPT ![c] = Filled(c, FALSE)]
      BY <1>6, <2>1, <3>1
    <3>2. CASE place' = [place EXCEPT ![c] = "calling"] /\ slots' = slots
      BY <1>5, <2>1, <3>2 DEF CacheTyped
    <3> QED
      BY <2>1, <3>1, <3>2
  <2> QED
    BY <2>1, <2>2, <2>3 DEF CacheTyped
<1>8. CASE Charged(c)
  <2>1. /\ UNCHANGED <<files, asked, slots, missing, leader, flights, landed, reported, altered>>
        /\ place[c] = "calling" /\ place' = [place EXCEPT ![c] = "storing"]
        /\ billed' = [billed EXCEPT ![c] = Len(missing[c])]
    BY <1>8 DEF Charged, Goes
  <2>2. Len(missing[c]) \in Nat
    BY DEF CacheTyped
  <2>3. billed' \in [Callers -> Nat]
    BY <2>1, <2>2 DEF CacheTyped
  <2> QED
    BY <1>5, <2>1, <2>3 DEF CacheTyped
<1>9. CASE StoreFile(c)
  <2>1. /\ UNCHANGED <<place, asked, slots, missing, leader, flights, landed, billed, reported, altered>>
        /\ \E k : files' = [files EXCEPT ![k] = "good"]
    BY <1>9 DEF StoreFile
  <2> QED
    BY <1>1, <2>1 DEF CacheTyped
<1>10. CASE Return(c)
  <2>1. /\ UNCHANGED <<files, asked, missing, leader, billed, altered>>
        /\ place[c] = "storing" /\ place' = [place EXCEPT ![c] = "done"]
        /\ slots' = [slots EXCEPT ![c] = Filled(c, FALSE)]
        /\ landed' = [landed EXCEPT ![c] = "landed"] /\ flights' \subseteq flights
        /\ reported' = [reported EXCEPT ![c] = billed[c]]
    BY <1>10 DEF Return, Goes, Lands
  <2>2. landed' \in [Callers -> {"none", "landed", "failed"}] /\ reported' \in [Callers -> Nat]
    BY <2>1 DEF CacheTyped
  <2> QED
    BY <1>6, <2>1, <2>2 DEF CacheTyped
<1>11. CASE Wake(c)
  <2>1. /\ UNCHANGED <<files, asked, missing, leader, flights, landed, billed, altered>>
        /\ place[c] = "waiting"
        /\ \/ /\ slots' = [slots EXCEPT ![c] = Filled(c, leader[c] \in altered)]
              /\ place' = [place EXCEPT ![c] = "done"] /\ reported' = [reported EXCEPT ![c] = Paid(c)]
              /\ landed[leader[c]] # "none"
           \/ place' = [place EXCEPT ![c] = "failed"] /\ UNCHANGED <<slots, reported>>
    BY <1>11 DEF Wake, Goes
  <2>2. CASE /\ slots' = [slots EXCEPT ![c] = Filled(c, leader[c] \in altered)]
             /\ place' = [place EXCEPT ![c] = "done"] /\ reported' = [reported EXCEPT ![c] = Paid(c)]
    <3>1. leader[c] \in Callers
      BY <2>1 DEF Led
    <3>2. Paid(c) \in Nat
      BY <3>1 DEF Paid, CacheTyped
    <3>3. reported' \in [Callers -> Nat]
      BY <2>2, <3>2 DEF CacheTyped
    <3>4. (leader[c] \in altered) \in BOOLEAN
      OBVIOUS
    <3>5. /\ place' \in [Callers -> Places] /\ slots' \in [Callers -> Slots]
          /\ Looked(place'[c], asked'[c], slots'[c], missing'[c])
      BY <1>6, <2>1, <2>2, <3>4
    <3> QED
      BY <2>1, <3>3, <3>5 DEF CacheTyped
  <2>3. CASE place' = [place EXCEPT ![c] = "failed"] /\ UNCHANGED <<slots, reported>>
    BY <1>5, <2>1, <2>3 DEF CacheTyped
  <2> QED
    BY <2>1, <2>2, <2>3
<1>12. CASE FlightFails(c)
  <2>1. /\ UNCHANGED <<files, asked, slots, missing, leader, billed, reported, altered>>
        /\ place[c] \in {"calling", "storing"} /\ place' = [place EXCEPT ![c] = "failed"]
        /\ landed' = [landed EXCEPT ![c] = "failed"] /\ flights' \subseteq flights
    BY <1>12 DEF FlightFails, Goes, Lands
  <2>2. landed' \in [Callers -> {"none", "landed", "failed"}]
    BY <2>1 DEF CacheTyped
  <2> QED
    BY <1>5, <2>1, <2>2 DEF CacheTyped
<1>13. CASE Alter(c)
  <2>1. /\ UNCHANGED <<files, place, asked, slots, missing, leader, flights, landed, billed, reported>>
        /\ altered' = altered \union {c}
    BY <1>13 DEF Alter
  <2> QED
    BY <1>1, <2>1 DEF CacheTyped
<1> QED
  BY <1>2, <1>3, <1>4, <1>7, <1>8, <1>9, <1>10, <1>11, <1>12, <1>13 DEF Acts, CallGoesOn
-----------------------------------------------------------------------------
(* The flights. *)

InFlight == {"rechecking", "calling", "storing"}

\* The group holds the callers that lead a flight, one for each batch.
FlightsRight ==
    /\ flights = {c \in Callers : place[c] \in InFlight}
    /\ \A c \in flights : \A d \in flights \ {c} : FlightKey(c) # FlightKey(d)
    /\ \A c \in Callers : place[c] = "rechecking" => IsChat(c)

\* What a caller does to its place and to the group.
LEMMA CallerMoves ==
    ASSUME CacheTyped, NEW c \in Callers, Acts(c)
    PROVE  /\ \/ UNCHANGED <<asked, missing>> \/ place[c] \in {"idle", "looking"}
           /\ \/ /\ place[c] \notin InFlight /\ place'[c] \notin InFlight /\ flights' = flights
                 /\ (place[c] # "missed" => leader'[c] = leader[c])
              \/ /\ place[c] \in InFlight /\ place'[c] \in InFlight /\ flights' = flights
                 /\ (place'[c] = "rechecking" => place[c] = "rechecking")
              \/ /\ place[c] = "missed" /\ SameFlight(c) = {} /\ place'[c] \in InFlight
                 /\ (place'[c] = "rechecking" => IsChat(c)) /\ flights' = flights \union {c}
              \/ /\ place[c] \in InFlight /\ place'[c] \notin InFlight /\ flights' = flights \ {c}
           /\ place'[c] = "waiting" => \/ place[c] = "waiting" /\ leader'[c] = leader[c]
                                       \/ place[c] = "missed" /\ leader'[c] \in Callers
<1> USE DEF CacheTyped, Goes, Lands, InFlight
<1>1. CASE \E inputs \in Batches : Ask(c, inputs)
  BY <1>1 DEF Ask
<1>2. CASE Look(c)
  <2>1. /\ place[c] = "looking" /\ UNCHANGED <<leader, flights>>
        /\ \E p \in {"looking", "done", "missed"} : place' = [place EXCEPT ![c] = p]
    BY <1>2 DEF Look
  <2> QED
    BY <2>1
<1>3. CASE Join(c)
  <2>1. /\ place[c] = "missed" /\ UNCHANGED <<asked, missing>>
    BY <1>3 DEF Join
  <2>2. CASE SameFlight(c) = {}
    <3>1. /\ flights' = flights \union {c} /\ place' = [place EXCEPT ![c] = IF IsChat(c) THEN "rechecking" ELSE "calling"]
      BY <1>3, <2>2 DEF Join
    <3> QED
      BY <2>1, <2>2, <3>1
  <2>3. CASE SameFlight(c) # {}
    <3>1. (CHOOSE d \in SameFlight(c) : TRUE) \in Callers
      BY <2>3 DEF SameFlight
    <3>2. /\ flights' = flights /\ place' = [place EXCEPT ![c] = "waiting"]
          /\ leader' = [leader EXCEPT ![c] = CHOOSE d \in SameFlight(c) : TRUE]
      BY <1>3, <2>3 DEF Join
    <3> QED
      BY <2>1, <3>1, <3>2
  <2> QED
    BY <2>2, <2>3
<1>4. CASE Recheck(c)
  BY <1>4 DEF Recheck
<1>5. CASE Charged(c) \/ StoreFile(c)
  BY <1>5 DEF Charged, StoreFile
<1>6. CASE Return(c)
  BY <1>6 DEF Return
<1>7. CASE Wake(c)
  BY <1>7 DEF Wake
<1>8. CASE FlightFails(c) \/ Alter(c)
  BY <1>8 DEF FlightFails, Alter
<1> QED
  BY <1>1, <1>2, <1>3, <1>4, <1>5, <1>6, <1>7, <1>8 DEF Acts, CallGoesOn

\* Every step keeps one flight for each batch.
LEMMA FlightsStay ==
    ASSUME CacheTyped, FlightsRight, Led, NEW c \in Callers, Acts(c)
    PROVE  FlightsRight' /\ Led'
<1>1. \A d \in Callers \ {c} : /\ place'[d] = place[d] /\ asked'[d] = asked[d] /\ missing'[d] = missing[d]
  BY Untouched
<1>2. ASSUME NEW d \in Callers, d # c \/ place[c] \notin {"idle", "looking"}
      PROVE  FlightKey(d)' = FlightKey(d) /\ (IsChat(d)' <=> IsChat(d))
  <2>1. asked'[d] = asked[d] /\ missing'[d] = missing[d]
    BY <1>1, <1>2, CallerMoves
  <2> QED
    BY <2>1 DEF FlightKey, IsChat
<1>3. \A d \in flights : FlightKey(d)' = FlightKey(d)
  <2>1. \A d \in flights : d \in Callers /\ place[d] \notin {"idle", "looking"}
    BY DEF FlightsRight, InFlight
  <2> QED
    BY <1>2, <2>1
<1>4. flights' = {d \in Callers : place'[d] \in InFlight}
  BY <1>1, CallerMoves DEF FlightsRight
<1>5. \A d \in flights' : \A e \in flights' \ {d} : FlightKey(d)' # FlightKey(e)'
  <2>1. CASE flights' \subseteq flights
    BY <1>3, <2>1 DEF FlightsRight
  <2>2. CASE place[c] = "missed" /\ SameFlight(c) = {} /\ flights' = flights \union {c}
    <3>1. \A d \in flights : FlightKey(d) # FlightKey(c)
      BY <2>2 DEF SameFlight
    <3>2. FlightKey(c)' = FlightKey(c)
      BY <1>2, <2>2
    <3> QED
      BY <1>3, <2>2, <3>1, <3>2 DEF FlightsRight
  <2> QED
    BY <2>1, <2>2, CallerMoves
<1>6. ASSUME NEW d \in Callers, place'[d] = "rechecking"
      PROVE  IsChat(d)'
  <2>1. CASE d # c
    BY <1>1, <1>2, <1>6, <2>1 DEF FlightsRight
  <2>2. CASE d = c
    <3>1. place[c] \in InFlight \union {"missed"} /\ IsChat(c)
      BY <1>6, <2>2, CallerMoves DEF FlightsRight, InFlight
    <3> QED
      BY <1>2, <2>2, <3>1 DEF InFlight
  <2> QED
    BY <2>1, <2>2
<1>7. ASSUME NEW d \in Callers, place'[d] = "waiting"
      PROVE  leader'[d] \in Callers
  <2>1. CASE d = c
    BY <1>7, <2>1, CallerMoves DEF Led
  <2>2. CASE d # c
    <3>1. leader'[d] = leader[d]
      <4>1. Join(c) \/ UNCHANGED leader
        BY DEF Acts, CallGoesOn, Ask, Look, Recheck, Charged, StoreFile, Return, Wake, FlightFails, Alter
      <4> QED
        BY <2>2, <4>1 DEF Join, CacheTyped
    <3> QED
      BY <1>1, <1>7, <2>2, <3>1 DEF Led
  <2> QED
    BY <2>1, <2>2
<1> QED
  BY <1>4, <1>5, <1>6, <1>7 DEF FlightsRight, Led
-----------------------------------------------------------------------------
(* The bills, and the completions. *)

\* Nothing is billed to a caller before its request, nor reported before its end.
Billing ==
    \A c \in Callers :
        /\ place[c] \in {"idle", "looking", "missed", "rechecking", "calling", "waiting"} => billed[c] = 0
        /\ place[c] # "done" => reported[c] = 0
        /\ place[c] = "done" /\ ~IsChat(c) => reported[c] = billed[c]

\* Every step keeps the bills right.
LEMMA BillingStays ==
    ASSUME CacheTyped, FlightsRight, Billing, NEW c \in Callers, Acts(c)
    PROVE  Billing'
<1>1. ASSUME NEW d \in Callers \ {c}
      PROVE  /\ place'[d] = place[d] /\ billed'[d] = billed[d] /\ reported'[d] = reported[d]
             /\ (IsChat(d)' <=> IsChat(d))
  BY Untouched DEF IsChat
<1> DEFINE Right == /\ place'[c] \in {"idle", "looking", "missed", "rechecking", "calling", "waiting"} => billed'[c] = 0
                    /\ place'[c] # "done" => reported'[c] = 0
                    /\ place'[c] = "done" /\ ~IsChat(c)' => reported'[c] = billed'[c]
<1>2. place[c] \notin {"idle", "looking"} => (IsChat(c)' <=> IsChat(c))
  BY CallerMoves DEF IsChat
<1> SUFFICES Right
  BY <1>1 DEF Billing
<1> USE DEF CacheTyped, Goes, Lands, Billing
<1>3. CASE \E inputs \in Batches : Ask(c, inputs)
  BY <1>3 DEF Ask
<1>4. CASE Look(c)
  <2>1. /\ place[c] = "looking" /\ UNCHANGED <<billed, reported>>
        /\ \E p \in {"looking", "done", "missed"} : place' = [place EXCEPT ![c] = p]
    BY <1>4 DEF Look
  <2> QED
    BY <2>1
<1>5. CASE Join(c)
  <2>1. /\ place[c] = "missed" /\ UNCHANGED <<billed, reported>>
        /\ \E p \in {"rechecking", "calling", "waiting"} : place' = [place EXCEPT ![c] = p]
    BY <1>5 DEF Join
  <2> QED
    BY <2>1
<1>6. CASE Recheck(c)
  <2>1. IsChat(c) /\ place[c] = "rechecking" /\ UNCHANGED <<billed, reported>>
    BY <1>6 DEF Recheck, FlightsRight
  <2>2. place'[c] \in {"done", "calling"}
    BY <1>6 DEF Recheck
  <2> QED
    BY <1>2, <2>1, <2>2
<1>7. CASE Charged(c) \/ StoreFile(c)
  <2>1. /\ place[c] \in {"calling", "storing"} /\ place'[c] = "storing" /\ UNCHANGED reported
    BY <1>7 DEF Charged, StoreFile
  <2> QED
    BY <2>1
<1>8. CASE Return(c)
  BY <1>8 DEF Return
<1>9. CASE Wake(c)
  <2>1. /\ place[c] = "waiting" /\ UNCHANGED billed
        /\ \/ place'[c] = "done" /\ reported' = [reported EXCEPT ![c] = Paid(c)]
           \/ place'[c] = "failed" /\ UNCHANGED reported
    BY <1>9 DEF Wake
  <2>2. ~IsChat(c) => Paid(c) = 0
    BY DEF Paid
  <2> QED
    BY <1>2, <2>1, <2>2
<1>10. CASE FlightFails(c)
  BY <1>10 DEF FlightFails
<1>11. CASE Alter(c)
  BY <1>2, <1>11 DEF Alter
<1> QED
  BY <1>3, <1>4, <1>5, <1>6, <1>7, <1>8, <1>9, <1>10, <1>11 DEF Acts, CallGoesOn

\* A completion that is at the provider is not in the cache: its file can only
\* come from the flight of that completion, of which there is one.
Unanswered == \A c \in Callers : IsChat(c) /\ place[c] = "calling" => files[asked[c][1]] # "good"

\* Every step keeps the completions at the provider out of the cache.
LEMMA UnansweredStays ==
    ASSUME CacheTyped, AllLooked, FlightsRight, Unanswered, NEW c \in Callers, Acts(c)
    PROVE  Unanswered'
<1>1. ASSUME NEW d \in Callers, IsChat(d)', place'[d] = "calling", NEW k, k = asked'[d][1]
      PROVE  files'[k] # "good"
  <2>1. \/ place[d] = "calling" /\ IsChat(d) /\ asked'[d] = asked[d]
        \/ Recheck(c) /\ d = c /\ asked' = asked
    <3>1. CASE d # c
      BY <1>1, <3>1, Untouched DEF IsChat
    <3>2. CASE d = c /\ place[c] \in {"idle", "looking"}
      <4>1. place'[c] \in {"looking", "done", "missed"}
        <5>1. ASSUME NEW inputs \in Batches, Ask(c, inputs)
              PROVE  place'[c] = "looking"
          BY <5>1 DEF Ask, Goes, CacheTyped
        <5> QED
          BY <3>2, <5>1, LookKeeps DEF Acts, CallGoesOn, Join, Recheck, Charged, StoreFile, Return, Wake, FlightFails, Alter
      <4> QED
        BY <1>1, <3>2, <4>1
    <3>3. CASE d = c /\ place[c] \notin {"idle", "looking"}
      <4>1. asked'[c] = asked[c] /\ IsChat(c) /\ ~Look(c) /\ ~\E inputs \in Batches : Ask(c, inputs)
        BY <1>1, <3>3, CallerMoves DEF IsChat, Look, Ask
      <4>2. CASE Join(c)
        <5>1. place'[c] \in {"rechecking", "waiting"}
          BY <4>1, <4>2 DEF Join, Goes, CacheTyped
        <5> QED
          BY <1>1, <3>3, <5>1
      <4>3. CASE Recheck(c)
        BY <3>3, <4>3 DEF Recheck
      <4>4. CASE Charged(c) \/ Return(c) \/ Wake(c) \/ FlightFails(c)
        <5>1. place'[c] # "calling"
          BY <4>4 DEF Charged, Return, Wake, FlightFails, Goes, CacheTyped
        <5> QED
          BY <1>1, <3>3, <5>1
      <4>5. CASE StoreFile(c) \/ Alter(c)
        BY <1>1, <3>3, <4>1, <4>5 DEF StoreFile, Alter
      <4> QED
        BY <4>1, <4>2, <4>3, <4>4, <4>5 DEF Acts, CallGoesOn
    <3> QED
      BY <3>1, <3>2, <3>3
  <2>2. CASE Recheck(c) /\ d = c /\ asked' = asked
    <3>1. place'[c] = "calling" /\ UNCHANGED files
      BY <1>1, <2>2 DEF Recheck
    <3>2. files[asked[c][1]] # "good"
      BY <2>2, <3>1 DEF Recheck, Goes, CacheTyped
    <3> QED
      BY <1>1, <2>2, <3>1, <3>2
  <2>3. CASE place[d] = "calling" /\ IsChat(d) /\ asked'[d] = asked[d]
    <3>1. files[k] # "good" /\ Len(asked[d]) = 1 /\ k \in Prompts /\ k = asked[d][1]
      BY <1>1, <2>3, ChatIs DEF Unanswered
    <3>2. CASE files' = files
      BY <3>1, <3>2
    <3>3. ASSUME StoreFile(c), files'[k] = "good"
          PROVE  FALSE
      <4>1. /\ c # d /\ place[c] = "storing"
            /\ \E e \in Unstored(c) : files' = [files EXCEPT ![e] = "good"]
        BY <2>3, <3>3 DEF StoreFile
      <4>2. k \in Unstored(c)
        BY <3>1, <3>3, <4>1 DEF CacheTyped, CacheKeys
      <4>3. PICK j \in 1 .. Len(missing[c]) : k = FlightKey(c)[j]
        BY <4>2 DEF Unstored
      <4>4. k = asked[c][missing[c][j]] /\ missing[c][j] \in 1 .. Len(asked[c])
        BY <4>1, <4>3 DEF FlightKey, AllLooked, Looked
      <4>5. asked[c] \in Batches
        BY <4>1 DEF AllLooked, Looked
      <4>6. asked[c] \in [1 .. 1 -> Prompts]
        <5>1. ASSUME NEW n \in 1 .. MaxInputs, asked[c] \in [1 .. n -> Texts]
              PROVE  FALSE
          <6>1. missing[c][j] \in 1 .. n
            <7>1. n \in Nat
              BY CacheAssumption
            <7> QED
              BY <4>4, <5>1, <7>1
          <6>2. k \in Texts
            BY <4>4, <5>1, <6>1
          <6> QED
            BY <3>1, <6>2, CacheAssumption
        <5>2. \/ \E n \in 1 .. MaxInputs : asked[c] \in [1 .. n -> Texts]
              \/ asked[c] \in [1 .. 1 -> Prompts]
          BY <4>5, Zenon DEF Batches
        <5> QED
          BY <5>1, <5>2
      <4>7. Len(asked[c]) = 1
        <5>1. 1 \in Nat
          OBVIOUS
        <5> QED
          BY <4>6, <5>1
      <4>8. missing[c] = <<1>> /\ missing[d] = <<1>>
        BY <2>3, <3>1, <4>1, <4>7 DEF AllLooked, Looked
      <4>9. asked[c][1] = k /\ asked[d][1] = k
        BY <3>1, <4>4, <4>7
      <4>10. FlightKey(c) = <<k>> /\ FlightKey(d) = <<k>>
        BY <4>8, <4>9 DEF FlightKey
      <4> QED
        BY <2>3, <4>1, <4>10 DEF FlightsRight, InFlight
    <3>4. StoreFile(c) \/ files' = files
      BY DEF Acts, CallGoesOn, Ask, Look, Join, Recheck, Charged, Return, Wake, FlightFails, Alter
    <3> QED
      BY <3>2, <3>3, <3>4
  <2> QED
    BY <2>1, <2>2, <2>3
<1> QED
  BY <1>1 DEF Unanswered
-----------------------------------------------------------------------------
(* The theorem. *)

\* The inductive invariant.
CacheInv == CacheTyped /\ AllLooked /\ Led /\ FlightsRight /\ Billing /\ Unanswered

\* It holds before anything is asked.
LEMMA CacheBegins ==
    ASSUME CacheInit
    PROVE  CacheInv
<1>1. CacheTyped
  BY DEF CacheInit, CacheTyped, Places, Slots
<1>2. AllLooked
  BY DEF CacheInit, AllLooked, Looked, Misses
<1>3. Led /\ FlightsRight /\ Billing /\ Unanswered
  BY DEF CacheInit, Led, FlightsRight, InFlight, Billing, Unanswered
<1> QED
  BY <1>1, <1>2, <1>3 DEF CacheInv

\* Every step keeps it.
LEMMA CacheGoesOn ==
    ASSUME CacheInv, [CacheNext]_cacheVars
    PROVE  CacheInv'
<1> USE DEF CacheInv
<1>1. CASE UNCHANGED cacheVars
  BY <1>1 DEF cacheVars, CacheTyped, AllLooked, Led, FlightsRight, Billing, Unanswered, FlightKey, IsChat
<1>2. ASSUME NEW k \in CacheKeys, Corrupt(k)
      PROVE  CacheInv'
  <2>1. /\ UNCHANGED <<place, asked, slots, missing, leader, flights, landed, billed, reported, altered>>
        /\ files' = [files EXCEPT ![k] = "corrupt"]
    BY <1>2 DEF Corrupt
  <2>2. \A e : files'[e] = "good" => files[e] = "good"
    BY <2>1 DEF CacheTyped
  <2>3. CacheTyped' /\ AllLooked' /\ Led'
    BY <2>1 DEF CacheTyped, AllLooked, Led
  <2>4. FlightsRight' /\ Billing'
    BY <2>1 DEF FlightsRight, Billing, FlightKey, IsChat
  <2>5. Unanswered'
    BY <2>1, <2>2 DEF Unanswered, IsChat
  <2> QED
    BY <2>3, <2>4, <2>5
<1>3. ASSUME NEW c \in Callers, Acts(c)
      PROVE  CacheInv'
  <2>1. CacheTyped' /\ AllLooked'
    <3>1. \A d \in Callers \ {c} : Looked(place'[d], asked'[d], slots'[d], missing'[d])
      BY <1>3, Untouched DEF AllLooked
    <3> QED
      BY <1>3, <3>1, ActsKeep DEF AllLooked
  <2> QED
    BY <1>3, <2>1, FlightsStay, BillingStays, UnansweredStays
<1> QED
  BY <1>1, <1>2, <1>3 DEF CacheNext, Acts

\* What the invariant says of the properties.
LEMMA CacheInvSays ==
    ASSUME CacheInv
    PROVE  CacheTypeOK /\ OneRequestPerBatch /\ SlotsInOrder /\ ReportedIsBilled
<1> USE DEF CacheInv
<1>1. \A c \in Callers : Len(slots[c]) <= Len(asked[c]) /\ Len(missing[c]) <= Len(slots[c])
  BY DEF AllLooked, Looked
<1>2. CacheTypeOK
  BY <1>1 DEF CacheTypeOK, CacheTyped, Places, FlightsRight, InFlight
<1>3. OneRequestPerBatch
  BY DEF OneRequestPerBatch, FlightsRight, InFlight
<1>4. SlotsInOrder
  BY DEF SlotsInOrder, AllLooked, Looked
<1>5. ReportedIsBilled
  BY DEF ReportedIsBilled, Billing
<1> QED
  BY <1>2, <1>3, <1>4, <1>5

\* Callers of the caches of llmx that meet in flight share one request, get every
\* vector at its place and report what is billed once, and a completion in the
\* cache is never requested, whatever fails or becomes unreadable
\* (llmx/cache.go, Embeddings, ChatCompletion).
THEOREM CacheKept == CacheSpec => CacheKeepsFaith
<1>1. CacheInv /\ [CacheNext]_cacheVars => CacheInv'
  BY CacheGoesOn
<1>2. CacheInv => CacheTypeOK /\ OneRequestPerBatch /\ SlotsInOrder /\ ReportedIsBilled
  BY CacheInvSays
<1>3. CacheInv => [\A c \in Callers : IsChat(c) /\ place[c] = "calling" /\ place'[c] = "storing"
                      => files[asked[c][1]] # "good"]_cacheVars
  BY DEF CacheInv, Unanswered
<1> QED
  BY <1>1, <1>2, <1>3, CacheBegins, PTL DEF CacheSpec, CacheKeepsFaith, ChatNeverRepaid

-----------------------------------------------------------------------------
(***************************************************************************)
(* The assembly of a Codex                                                 *)
(***************************************************************************)

AssemblySpec == AssemblyInit /\ [][AssemblyNext]_assemblyVars

\* What New makes of options it does not refuse.
Opened(o) ==
    [status     |-> "open",
     stages     |-> [s \in Built(o) |-> Observed(o, ClientFor(o, s))],
     lexical    |-> On(o, "lexical"),
     rounds     |-> IF "reformulate" \in Built(o) THEN o.rounds ELSE 1,
     runner     |-> RunnerOf(o),
     stagingDir |-> StagingOf(o),
     describes  |-> Describes(o),
     imageBlobs |-> StoresImages(o)]

\* A Codex that is open was built from the options as they still are, and none
\* of them was refused.
BuiltFromOptions ==
    \/ codex.status # "open"
    \/ codex = Opened(options) /\ ~Refusal(options)

\* The last search ran what its Codex and its profile say, on an open Codex.
RanAsAllowed ==
    \/ request = NoRequest
    \/ /\ codex.status = "open" /\ request.entry \in {"search", "iterative"}
       /\ request.ran = Ran(request.entry, request.profile)

AssemblyInv == BuiltFromOptions /\ RanAsAllowed

\* A Codex that New has built or refused is not built again.
LEMMA OpenedOnce == ASSUME NEW o PROVE Opened(o).status = "open"
  BY DEF Opened

\* Nothing changes the options of an open Codex, nor the Codex itself.
LEMMA AssemblyStep ==
    ASSUME AssemblyInv, [AssemblyNext]_assemblyVars
    PROVE  AssemblyInv'
<1>1. ASSUME NEW x, Give(x)
      PROVE  AssemblyInv'
  <2>1. codex' = codex /\ request' = request /\ codex.status = "none"
    BY <1>1 DEF Give, NoCodex
  <2>2. request = NoRequest
    BY <2>1 DEF AssemblyInv, RanAsAllowed
  <2> QED
    BY <2>1, <2>2 DEF AssemblyInv, BuiltFromOptions, RanAsAllowed
<1>2. CASE New
  <2>1. codex.status = "none" /\ UNCHANGED <<options, request>>
    BY <1>2 DEF New, NoCodex
  <2>2. request = NoRequest
    BY <2>1 DEF AssemblyInv, RanAsAllowed
  <2>3. CASE Refusal(options)
    <3>1. codex'.status = "refused"
      BY <1>2, <2>3 DEF New, NoCodex
    <3> QED
      BY <2>1, <2>2, <3>1 DEF AssemblyInv, BuiltFromOptions, RanAsAllowed
  <2>4. CASE ~Refusal(options)
    <3>1. codex' = Opened(options)
      BY <1>2, <2>4 DEF New, Opened
    <3>2. Opened(options)' = Opened(options) /\ (Refusal(options)' <=> Refusal(options))
      BY <2>1
    <3> QED
      BY <2>1, <2>2, <2>4, <3>1, <3>2 DEF AssemblyInv, BuiltFromOptions, RanAsAllowed
  <2> QED
    BY <2>3, <2>4
<1>3. ASSUME NEW entry \in {"search", "iterative"}, NEW profile, Request(entry, profile)
      PROVE  AssemblyInv'
  <2>1. UNCHANGED <<options, codex>> /\ codex.status = "open"
    BY <1>3 DEF Request
  <2>2. request' = [entry |-> entry, profile |-> profile, ran |-> Ran(entry, profile)]
    BY <1>3 DEF Request
  <2>3. request'.ran = Ran(entry, profile) /\ request'.entry = entry /\ request'.profile = profile
    BY <2>2
  <2>4. Ran(entry, profile)' = Ran(entry, profile)
    BY <2>1 DEF Ran, Allowed, Reranker
  <2> QED
    BY <2>1, <2>3, <2>4 DEF AssemblyInv, BuiltFromOptions, RanAsAllowed
<1>4. CASE UNCHANGED assemblyVars
  BY <1>4 DEF assemblyVars, AssemblyInv, BuiltFromOptions, RanAsAllowed, Ran, Allowed, Reranker
<1> QED
  BY <1>1, <1>2, <1>3, <1>4 DEF AssemblyNext

\* What New builds: stages that are wanted, observed when asked, and a staging
\* directory for persistent tasks alone.
LEMMA OpenedAs ==
    ASSUME NEW o
    PROVE  /\ DOMAIN Opened(o).stages = Built(o)
           /\ \A s \in Built(o) : Opened(o).stages[s] = Observed(o, ClientFor(o, s))
           /\ Opened(o).lexical = On(o, "lexical")
           /\ Opened(o).runner = RunnerOf(o) /\ Opened(o).stagingDir = StagingOf(o)
  BY DEF Opened

\* Of the judge and the grounding evaluator, the options ask for one.
LEMMA BuiltStages ==
    ASSUME NEW o
    PROVE  Built(o) \subseteq Stages /\ ~({"judge", "grounding"} \subseteq Built(o))
<1>1. Built(o) \subseteq Wanted(o)
  BY DEF Built, Ready
<1>2. "judge" \in Wanted(o) => ~On(o, "grounding")
  BY DEF Wanted
<1>3. "grounding" \in Wanted(o) => On(o, "grounding")
  BY DEF Wanted
<1> QED
  BY <1>1, <1>2, <1>3 DEF Wanted

\* The stages of a search of an open Codex.
LEMMA RanStages ==
    ASSUME NEW profile, NEW entry
    PROVE  /\ Ran(entry, profile) \ {"lexical"} \subseteq Allowed(profile)
           /\ Ran(entry, profile) \intersect {"rerank", "lexical"} = Reranker(profile)
  BY DEF Ran, Reranker, InPipeline

\* The parts of AssembledAsAsked follow from what the Codex was built from.
LEMMA AssemblyHolds == AssemblyInv => AssembledAsAsked
<1> SUFFICES ASSUME AssemblyInv
             PROVE  AssembledAsAsked
  OBVIOUS
<1>1. codex.status = "open" => codex = Opened(options) /\ ~Refusal(options)
  BY DEF AssemblyInv, BuiltFromOptions
<1>2. EveryStageObserved
  <2> SUFFICES ASSUME codex.status = "open", On(options, "observability"),
                      NEW s \in DOMAIN codex.stages
               PROVE  codex.stages[s].observed
    BY DEF EveryStageObserved
  <2>1. codex = Opened(options)
    BY <1>1
  <2>2. s \in Built(options)
    BY <2>1, OpenedAs
  <2>3. codex.stages[s] = Observed(options, ClientFor(options, s))
    BY <2>1, <2>2, OpenedAs
  <2>4. Observed(options, ClientFor(options, s)).observed <=> On(options, "observability")
    BY DEF Observed
  <2> QED
    BY <2>3, <2>4
<1>3. codex.status = "open" => DOMAIN codex.stages = Built(options)
  BY <1>1, OpenedAs
<1>4. request # NoRequest => /\ codex.status = "open"
                             /\ request.ran = Ran(request.entry, request.profile)
  BY DEF AssemblyInv, RanAsAllowed
<1>5. JudgedOnce
  <2>1. CASE request = NoRequest
    BY <2>1 DEF JudgedOnce, NoRequest
  <2>2. CASE request # NoRequest
    <3>1. request.ran \ {"lexical"} \subseteq Built(options)
      BY <1>3, <1>4, <2>2, RanStages DEF Allowed
    <3> QED
      BY <3>1, BuiltStages DEF JudgedOnce
  <2> QED
    BY <2>1, <2>2
<1>6. ProfileOnlyRestricts
  <2> SUFFICES ASSUME request # NoRequest, NEW s \in request.ran \ {"lexical"}
               PROVE  s \in Ran(request.entry, AllStages) \intersect DOMAIN codex.stages \intersect request.profile
    BY DEF ProfileOnlyRestricts
  <2>1. s \in Allowed(request.profile) /\ s \in Ran(request.entry, request.profile)
    BY <1>4, RanStages
  <2>2. Allowed(request.profile) \subseteq Allowed(AllStages)
    BY <1>3, <1>4, BuiltStages DEF Allowed, AllStages
  <2>3. s \in Ran(request.entry, AllStages)
    <3>1. s \in Reranker(request.profile) => s \in Reranker(AllStages)
      BY <2>2 DEF Reranker
    <3> QED
      BY <2>1, <2>2, <3>1 DEF Ran
  <2> QED
    BY <2>1, <2>3 DEF Allowed
<1>7. RerankedOnce
  <2> SUFFICES ASSUME request # NoRequest, codex.lexical
               PROVE  Cardinality(request.ran \intersect {"rerank", "lexical"}) = 1
    BY DEF RerankedOnce
  <2>1. PICK s : Reranker(request.profile) = {s}
    BY DEF Reranker
  <2>2. request.ran \intersect {"rerank", "lexical"} = {s}
    BY <1>4, <2>1, RanStages
  <2>3. Cardinality({s}) = 1
    BY FS_Singleton
  <2> QED
    BY <2>2, <2>3
<1>8. StagingFollowsRunner
  <2> SUFFICES ASSUME codex.status = "open"
               PROVE  codex.runner = "persistent" <=> codex.stagingDir # "none"
    BY DEF StagingFollowsRunner
  <2>1. codex.runner = RunnerOf(options) /\ codex.stagingDir = StagingOf(options)
    BY <1>1, OpenedAs
  <2>2. RunnerOf(options) = "persistent" => options.stagingDir # "none"
    BY <1>1 DEF Refusal
  <2> QED
    BY <2>1, <2>2 DEF StagingOf
<1> QED
  BY <1>2, <1>5, <1>6, <1>7, <1>8 DEF AssembledAsAsked

\* What New makes of any options in any order, and what any profile then lets run,
\* is as asked.
THEOREM Assembled == AssemblySpec => []AssembledAsAsked
<1>1. AssemblyInit => AssemblyInv
  BY DEF AssemblyInit, AssemblyInv, BuiltFromOptions, RanAsAllowed, NoCodex
<1> QED
  BY <1>1, AssemblyStep, AssemblyHolds, PTL DEF AssemblySpec
=============================================================================
