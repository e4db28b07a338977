---------------------------- MODULE WorkspaceLock ----------------------------
(***************************************************************************)
(* The lock of a workspace on files (internal/cli/runtime/lock.go, Open and   *)
(* Close of internal/cli/runtime/codex.go): a file that is created            *)
(* exclusively, then gets the pid of its owner; a file that names no process  *)
(* that lives is removed and the creation tried again, three times in all.    *)
(* A process writes into the file it created, whatever has taken its place    *)
(* at the path, and lives on after it removed it. A removal of a file that is *)
(* there does not fail.                                                       *)
(***************************************************************************)
EXTENDS Naturals, FiniteSets

CONSTANTS
    Procs,      \* the processes, each a pid that is used once
    Nobody,     \* no process
    Strangers   \* processes the others may not signal

ASSUME LockAssumption == Nobody \notin Procs /\ Strangers \subseteq Procs

Attempts == 3

VARIABLES
    lockAt,     \* the process whose file is at the path, or Nobody
    signed,     \* the processes whose file has their pid in it
    lockStep,   \* per process, where it is
    tries,      \* per process, the attempts it began
    sawOwner,   \* per process, the pid it read, or Nobody
    overlapped  \* two processes were in acquireLock at once

lockVars == <<lockAt, signed, lockStep, tries, sawOwner, overlapped>>
-----------------------------------------------------------------------------
InAcquire == {"create", "write", "retract", "read", "judge", "remove"}

\* A process that released the lock, or failed to get it, lives until it ends.
Lives(p) == lockStep[p] \notin {"idle", "ended", "dead"}

\* What signal 0 says: a process one may not signal counts as gone.
ProcessAlive(p) == Lives(p) /\ p \notin Strangers

StepTo(p, step) == lockStep' = [lockStep EXCEPT ![p] = step]

\* Open, of a workspace with local state.
OpenWorkspace(p) ==
    /\ lockStep[p] = "idle"
    /\ StepTo(p, "create")
    /\ overlapped' = (overlapped \/ \E q \in Procs : lockStep[q] \in InAcquire)
    /\ UNCHANGED <<lockAt, signed, tries, sawOwner>>

\* Mutation of CreateLock: the file is created or opened.
CreateLockOver(p) ==
    /\ lockStep[p] = "create"
    /\ tries' = [tries EXCEPT ![p] = @ + 1]
    /\ IF tries[p] = Attempts THEN StepTo(p, "leaving") /\ UNCHANGED lockAt
       ELSE lockAt' = p /\ StepTo(p, "write")
    /\ UNCHANGED <<signed, sawOwner, overlapped>>

\* The exclusive creation of the file.
CreateLock(p) ==
    /\ lockStep[p] = "create"
    /\ tries' = [tries EXCEPT ![p] = @ + 1]
    /\ IF tries[p] = Attempts THEN StepTo(p, "leaving") /\ UNCHANGED lockAt
       ELSE IF lockAt = Nobody THEN lockAt' = p /\ StepTo(p, "write")
       ELSE StepTo(p, "read") /\ UNCHANGED lockAt
    /\ UNCHANGED <<signed, sawOwner, overlapped>>

\* Mutation of SignLock: the pid is left to be written later.
SignLockLater(p) ==
    /\ lockStep[p] = "write"
    /\ StepTo(p, "holding")
    /\ UNCHANGED <<lockAt, signed, tries, sawOwner, overlapped>>

\* The pid is written into the file that was created, wherever it is now. When
\* only its close fails, the pid is there all the same.
SignLock(p) ==
    /\ lockStep[p] = "write"
    /\ \/ StepTo(p, "holding") /\ signed' = signed \union {p}
       \/ StepTo(p, "retract") /\ signed' \in {signed, signed \union {p}}
    /\ UNCHANGED <<lockAt, tries, sawOwner, overlapped>>

\* After a failed write, whatever is at the path by now is removed.
RetractLock(p) ==
    /\ lockStep[p] = "retract"
    /\ lockAt' = Nobody
    /\ StepTo(p, "leaving")
    /\ UNCHANGED <<signed, tries, sawOwner, overlapped>>

\* readLock: nothing at the path, or a file without its pid yet, names nobody.
ReadLock(p) ==
    /\ lockStep[p] = "read"
    /\ sawOwner' = [sawOwner EXCEPT ![p] = IF lockAt \in signed THEN lockAt ELSE Nobody]
    /\ StepTo(p, "judge")
    /\ UNCHANGED <<lockAt, signed, tries, overlapped>>

\* Mutation of JudgeLock: a file that names a process is never stale.
JudgeLockByName(p) ==
    /\ lockStep[p] = "judge"
    /\ StepTo(p, IF sawOwner[p] # Nobody THEN "refused" ELSE "remove")
    /\ UNCHANGED <<lockAt, signed, tries, sawOwner, overlapped>>

\* The lock of a process that lives is an error; any other is stale.
JudgeLock(p) ==
    /\ lockStep[p] = "judge"
    /\ StepTo(p, IF sawOwner[p] # Nobody /\ ProcessAlive(sawOwner[p]) THEN "refused" ELSE "remove")
    /\ UNCHANGED <<lockAt, signed, tries, sawOwner, overlapped>>

\* Whatever is at the path by now is removed.
RemoveStale(p) ==
    /\ lockStep[p] = "remove"
    /\ lockAt' = Nobody
    /\ StepTo(p, "create")
    /\ UNCHANGED <<signed, tries, sawOwner, overlapped>>

\* Mutation of ReleaseLock: the file is left for the next process to find stale.
ReleaseLockKept(p) ==
    /\ lockStep[p] = "holding"
    /\ StepTo(p, "leaving")
    /\ UNCHANGED <<lockAt, signed, tries, sawOwner, overlapped>>

\* Close: the lock last, after everything it protects is closed. The process
\* goes on until it ends.
ReleaseLock(p) ==
    /\ lockStep[p] = "holding"
    /\ lockAt' = Nobody
    /\ StepTo(p, "leaving")
    /\ UNCHANGED <<signed, tries, sawOwner, overlapped>>

\* The process ends by itself, after it released the lock or was denied it.
ProcessEnds(p) ==
    /\ lockStep[p] \in {"leaving", "refused"}
    /\ StepTo(p, "ended")
    /\ UNCHANGED <<lockAt, signed, tries, sawOwner, overlapped>>

\* The process is killed; the file stays.
Killed(p) ==
    /\ Lives(p)
    /\ StepTo(p, "dead")
    /\ UNCHANGED <<lockAt, signed, tries, sawOwner, overlapped>>
-----------------------------------------------------------------------------
LockInit ==
    /\ lockAt = Nobody /\ signed = {} /\ overlapped = FALSE
    /\ lockStep = [p \in Procs |-> "idle"]
    /\ tries = [p \in Procs |-> 0]
    /\ sawOwner = [p \in Procs |-> Nobody]

LockNext == \E p \in Procs :
    \/ OpenWorkspace(p) \/ CreateLock(p) \/ SignLock(p) \/ RetractLock(p) \/ ReadLock(p) \/ JudgeLock(p)
    \/ RemoveStale(p) \/ ReleaseLock(p) \/ ProcessEnds(p) \/ Killed(p)
-----------------------------------------------------------------------------
\* Every variable has its type, and a process that holds the lock has signed its
\* file: the one type invariant of this module.
LockTypeOK ==
    /\ lockAt \in Procs \union {Nobody} /\ signed \subseteq Procs
    /\ lockStep \in [Procs -> InAcquire \union {"idle", "holding", "refused", "leaving", "ended", "dead"}]
    /\ tries \in [Procs -> 0..(Attempts + 1)] /\ sawOwner \in [Procs -> signed \union {Nobody}]
    /\ \A p \in Procs : lockStep[p] = "holding" => p \in signed

\* "An exclusive per-workspace lock file" (lock.go:14): at most one process has
\* the workspace open.
OneProcess == Cardinality({p \in Procs : lockStep[p] = "holding"}) <= 1

\* The same, of processes that were never in acquireLock together: whatever
\* was killed at whatever step, and whoever closes next to the one that opens.
OneProcessAtATime == ~overlapped => OneProcess

\* What a process that came alone finds in the lock file is the holder or one
\* that was killed with it, never one that released it. It is sent away only by
\* the holder it found, which may have released the lock since but still lives
\* (processAlive asks nothing else), and has the lock at its second attempt at
\* the latest.
RefusedForOwner ==
    [][\A p \in Procs : ~overlapped' /\ lockStep'[p] # lockStep[p] =>
          /\ lockStep'[p] = "judge" => \/ sawOwner'[p] = Nobody
                                      \/ lockStep[sawOwner'[p]] \in {"holding", "dead"}
          /\ lockStep'[p] = "refused" => lockStep[sawOwner[p]] \in {"holding", "leaving"}
          /\ tries'[p] <= 2]_lockVars

\* What the lock of a workspace promises processes that come one after the other
\* (internal/cli/runtime/lock.go): one holder, and a refusal only by
\* one that held the lock when its file was read and still lives.
LockKeepsFaith ==
    /\ [](LockTypeOK /\ OneProcessAtATime)
    /\ RefusedForOwner
=============================================================================
