--------------------------- MODULE WorkspaceProofs ---------------------------
(***************************************************************************)
(* The commands that write a workspace, for any number of processes, files    *)
(* and commands: its lock excludes processes that come one after the other,   *)
(* killed and closed at any step, and a sync deletes only what is gone, skips *)
(* only what is current and, alone, leaves an index that agrees with its tree.*)
(***************************************************************************)
EXTENDS WorkspaceLock, TreeSync, FiniteSetTheorems, WellFoundedInduction, TLAPS

-----------------------------------------------------------------------------
(* The lock. *)

LockSpec == LockInit /\ [][LockNext]_lockVars

Acquiring(p) == lockStep[p] \in InAcquire

Holding(p) == lockStep[p] = "holding"

-----------------------------------------------------------------------------
\* Only a process past its write has signed a file, whether processes overlapped
\* or not.
SignedHeld == \A p \in signed : lockStep[p] \in {"retract", "holding", "leaving", "ended", "dead"}

\* The loop of acquireLock leaves an attempt to a process that goes on.
AttemptLeft ==
    \A p \in Procs :
        /\ lockStep[p] = "idle" => tries[p] = 0
        /\ Acquiring(p) => tries[p] <= Attempts

\* One process acquires at a time, and its file is at the path from its creation
\* to its release, or for ever when it is killed, and no other file is.
OwnFile ==
    /\ \A p, q \in Procs : Acquiring(p) /\ Acquiring(q) => p = q
    /\ \A p \in Procs : lockStep[p] \in {"write", "retract", "holding"} => lockAt = p
    /\ lockAt # Nobody => lockStep[lockAt] \in {"write", "retract", "holding", "dead"}

\* Nobody holds the lock when a process has made a file or takes one for stale,
\* and the process that judges one has read its holder, if there is one.
NoHolder ==
    \A p, q \in Procs : Holding(q) =>
        /\ lockStep[p] \notin {"write", "retract", "remove"}
        /\ lockStep[p] = "judge" => sawOwner[p] = q

\* What a process that judges a file has read in it is no process that acquires.
SawPast ==
    \A p \in Procs : lockStep[p] = "judge" /\ sawOwner[p] # Nobody => ~Acquiring(sawOwner[p])

\* The second attempt finds no file.
TwoAttempts ==
    \A p \in Procs :
        /\ tries[p] <= 2
        /\ lockStep[p] = "create" => tries[p] = 0 \/ (tries[p] = 1 /\ lockAt = Nobody)
        /\ lockStep[p] \in {"read", "judge", "remove"} => tries[p] = 1

Apart == OwnFile /\ NoHolder /\ SawPast /\ TwoAttempts

LockInv == LockTypeOK /\ SignedHeld /\ AttemptLeft /\ (~overlapped => Apart)

\* The invariant holds initially.
LEMMA LockInvInit == LockInit => LockInv
BY LockAssumption DEF LockInit, LockInv, LockTypeOK, SignedHeld, AttemptLeft, Apart, OwnFile, NoHolder, SawPast, TwoAttempts,
                      Acquiring, Holding, InAcquire, Attempts

\* What a step does to the process it is of: a proof about all steps has a case
\* for each.
LEMMA LockSteps ==
  ASSUME LockNext
  PROVE  \E p \in Procs : \/ OpenWorkspace(p) \/ CreateLock(p) \/ SignLock(p) \/ RetractLock(p) \/ ReadLock(p)
                          \/ JudgeLock(p) \/ RemoveStale(p) \/ ReleaseLock(p) \/ ProcessEnds(p) \/ Killed(p)
BY DEF LockNext

\* The types, the signatures and the attempts, whoever overlaps with whom.
LEMMA LockTypeNext ==
  ASSUME LockTypeOK, SignedHeld, AttemptLeft, [LockNext]_lockVars
  PROVE  LockTypeOK' /\ SignedHeld' /\ AttemptLeft'
<1> USE LockAssumption DEF LockTypeOK, SignedHeld, AttemptLeft, Acquiring, InAcquire, Attempts, StepTo
<1>1. ASSUME NEW p \in Procs, OpenWorkspace(p)
      PROVE  LockTypeOK' /\ SignedHeld' /\ AttemptLeft'
  BY <1>1 DEF OpenWorkspace
<1>2. ASSUME NEW p \in Procs, CreateLock(p)
      PROVE  LockTypeOK' /\ SignedHeld' /\ AttemptLeft'
  <2>1. CASE tries[p] = Attempts
    BY <1>2, <2>1 DEF CreateLock
  <2>2. CASE tries[p] # Attempts /\ lockAt = Nobody
    BY <1>2, <2>2 DEF CreateLock
  <2>3. CASE tries[p] # Attempts /\ lockAt # Nobody
    BY <1>2, <2>3 DEF CreateLock
  <2> QED
    BY <2>1, <2>2, <2>3
<1>3. ASSUME NEW p \in Procs, SignLock(p)
      PROVE  LockTypeOK' /\ SignedHeld' /\ AttemptLeft'
  BY <1>3 DEF SignLock
<1>4. ASSUME NEW p \in Procs, ReadLock(p)
      PROVE  LockTypeOK' /\ SignedHeld' /\ AttemptLeft'
  BY <1>4 DEF ReadLock
<1>5. ASSUME NEW p \in Procs, JudgeLock(p)
      PROVE  LockTypeOK' /\ SignedHeld' /\ AttemptLeft'
  BY <1>5 DEF JudgeLock
<1>6. ASSUME NEW p \in Procs, RetractLock(p) \/ RemoveStale(p) \/ ReleaseLock(p) \/ ProcessEnds(p) \/ Killed(p)
      PROVE  LockTypeOK' /\ SignedHeld' /\ AttemptLeft'
  BY <1>6 DEF RetractLock, RemoveStale, ReleaseLock, ProcessEnds, Killed, Lives
<1>7. CASE UNCHANGED lockVars
  BY <1>7 DEF lockVars
<1> QED
  BY <1>1, <1>2, <1>3, <1>4, <1>5, <1>6, <1>7, LockSteps

\* Processes that come one after the other stay apart.
LEMMA LockApartNext ==
  ASSUME Strangers = {}, LockInv, [LockNext]_lockVars, ~overlapped'
  PROVE  Apart'
<1>1. LockTypeOK /\ SignedHeld /\ AttemptLeft
  BY DEF LockInv
<1>2. ~overlapped
  BY LockSteps DEF OpenWorkspace, CreateLock, SignLock, RetractLock, ReadLock, JudgeLock, RemoveStale, ReleaseLock, ProcessEnds, Killed, lockVars
<1>3. OwnFile /\ NoHolder /\ SawPast /\ TwoAttempts
  BY <1>2 DEF LockInv, Apart
<1> USE LockAssumption, <1>1, <1>2, <1>3 DEF StepTo, Acquiring, Holding, InAcquire
<1> SUFFICES OwnFile' /\ NoHolder' /\ SawPast' /\ TwoAttempts'
  BY DEF Apart
<1>4. ASSUME NEW p \in Procs, OpenWorkspace(p)
      PROVE  OwnFile' /\ NoHolder' /\ SawPast' /\ TwoAttempts'
  <2>1. \A q \in Procs : lockStep[q] \notin InAcquire
    BY <1>4 DEF OpenWorkspace
  <2> QED
    BY <1>4, <2>1 DEF OpenWorkspace, OwnFile, NoHolder, SawPast, TwoAttempts, LockTypeOK, AttemptLeft
<1>5. ASSUME NEW p \in Procs, CreateLock(p)
      PROVE  OwnFile' /\ NoHolder' /\ SawPast' /\ TwoAttempts'
  <2>1. tries[p] = 0 \/ (tries[p] = 1 /\ lockAt = Nobody)
    BY <1>5 DEF CreateLock, TwoAttempts
  <2>2. CASE lockAt = Nobody
    <3>1. lockStep' = [lockStep EXCEPT ![p] = "write"] /\ lockAt' = p
      BY <1>5, <2>1, <2>2 DEF CreateLock, Attempts
    <3>2. \A q \in Procs : ~Holding(q)
      BY <2>2 DEF OwnFile
    <3> QED
      BY <1>5, <2>1, <2>2, <3>1, <3>2 DEF CreateLock, OwnFile, NoHolder, SawPast, TwoAttempts, LockTypeOK
  <2>3. CASE lockAt # Nobody
    BY <1>5, <2>1, <2>3 DEF CreateLock, OwnFile, NoHolder, SawPast, TwoAttempts, LockTypeOK, Attempts
  <2> QED
    BY <2>2, <2>3
<1>6. ASSUME NEW p \in Procs, SignLock(p)
      PROVE  OwnFile' /\ NoHolder' /\ SawPast' /\ TwoAttempts'
  <2>1. lockStep[p] = "write" /\ \A q \in Procs : ~Holding(q)
    BY <1>6 DEF SignLock, NoHolder
  <2>2. \A q \in Procs : q # p => lockStep[q] \notin InAcquire
    BY <2>1 DEF OwnFile
  <2> QED
    BY <1>6, <2>1, <2>2 DEF SignLock, OwnFile, NoHolder, SawPast, TwoAttempts, LockTypeOK
<1>7. ASSUME NEW p \in Procs, ReadLock(p)
      PROVE  OwnFile' /\ NoHolder' /\ SawPast' /\ TwoAttempts'
  <2>1. \A q \in Procs : Holding(q) => lockAt = q /\ q \in signed
    BY DEF OwnFile, LockTypeOK
  <2> QED
    BY <1>7, <2>1 DEF ReadLock, OwnFile, NoHolder, SawPast, TwoAttempts, LockTypeOK
<1>8. ASSUME NEW p \in Procs, JudgeLock(p)
      PROVE  OwnFile' /\ NoHolder' /\ SawPast' /\ TwoAttempts'
  <2>1. ASSUME NEW q \in Procs, Holding(q)
        PROVE  lockStep' = [lockStep EXCEPT ![p] = "refused"]
    <3>1. sawOwner[p] = q
      BY <1>8, <2>1 DEF JudgeLock, NoHolder
    <3> QED
      BY <1>8, <2>1, <3>1 DEF JudgeLock, ProcessAlive, Lives
  <2> QED
    BY <1>8, <2>1 DEF JudgeLock, OwnFile, NoHolder, SawPast, TwoAttempts, LockTypeOK
<1>9. ASSUME NEW p \in Procs, RemoveStale(p)
      PROVE  OwnFile' /\ NoHolder' /\ SawPast' /\ TwoAttempts'
  <2>1. lockStep[p] = "remove" /\ \A q \in Procs : ~Holding(q)
    BY <1>9 DEF RemoveStale, NoHolder
  <2>2. \A q \in Procs : lockStep[q] \notin {"write", "retract"}
    BY <2>1 DEF OwnFile
  <2> QED
    BY <1>9, <2>1, <2>2 DEF RemoveStale, OwnFile, NoHolder, SawPast, TwoAttempts, LockTypeOK
<1>10. ASSUME NEW p \in Procs, ReleaseLock(p)
       PROVE  OwnFile' /\ NoHolder' /\ SawPast' /\ TwoAttempts'
  <2>1. \A q \in Procs : q # p => lockStep[q] \notin {"write", "retract", "holding"}
    BY <1>10 DEF ReleaseLock, OwnFile
  <2> QED
    BY <1>10, <2>1 DEF ReleaseLock, OwnFile, NoHolder, SawPast, TwoAttempts, LockTypeOK
<1>11. ASSUME NEW p \in Procs, Killed(p)
       PROVE  OwnFile' /\ NoHolder' /\ SawPast' /\ TwoAttempts'
  BY <1>11 DEF Killed, Lives, OwnFile, NoHolder, SawPast, TwoAttempts, LockTypeOK
<1>12. ASSUME NEW p \in Procs, RetractLock(p)
       PROVE  OwnFile' /\ NoHolder' /\ SawPast' /\ TwoAttempts'
  <2>1. lockStep[p] = "retract" /\ \A q \in Procs : ~Holding(q)
    BY <1>12 DEF RetractLock, NoHolder
  <2>2. \A q \in Procs : q # p => lockStep[q] \notin InAcquire
    BY <2>1 DEF OwnFile
  <2> QED
    BY <1>12, <2>1, <2>2 DEF RetractLock, OwnFile, NoHolder, SawPast, TwoAttempts, LockTypeOK
<1>13. ASSUME NEW p \in Procs, ProcessEnds(p)
       PROVE  OwnFile' /\ NoHolder' /\ SawPast' /\ TwoAttempts'
  BY <1>13 DEF ProcessEnds, OwnFile, NoHolder, SawPast, TwoAttempts, LockTypeOK
<1>14. CASE UNCHANGED lockVars
  BY <1>14 DEF lockVars, OwnFile, NoHolder, SawPast, TwoAttempts
<1> QED
  BY <1>4, <1>5, <1>6, <1>7, <1>8, <1>9, <1>10, <1>11, <1>12, <1>13, <1>14, LockSteps

\* Every step keeps the invariant.
LEMMA LockInvNext == Strangers = {} /\ LockInv /\ [LockNext]_lockVars => LockInv'
BY LockTypeNext, LockApartNext DEF LockInv

\* At most one process holds the lock.
LEMMA LockInvExcludes == LockInv => LockTypeOK /\ OneProcessAtATime
<1> SUFFICES ASSUME LockInv, ~overlapped PROVE OneProcess
  BY DEF LockInv, OneProcessAtATime
<1> DEFINE holders == {p \in Procs : lockStep[p] = "holding"}
<1>1. \A p, q \in holders : p = q
  BY DEF LockInv, Apart, OwnFile
<1>2. holders = {} \/ \E p \in holders : holders = {p}
  BY <1>1
<1>3. Cardinality(holders) = 0 \/ Cardinality(holders) = 1
  BY <1>2, FS_EmptySet, FS_Singleton
<1> QED
  BY <1>3 DEF OneProcess

\* What a file says is its holder or a killed one, a refusal is that of one that
\* held the lock, and two attempts are enough.
LEMMA LockInvRefuses ==
  ASSUME Strangers = {}, LockInv, LockInv', [LockNext]_lockVars
  PROVE  [\A p \in Procs : ~overlapped' /\ lockStep'[p] # lockStep[p] =>
            /\ lockStep'[p] = "judge" => \/ sawOwner'[p] = Nobody
                                        \/ lockStep[sawOwner'[p]] \in {"holding", "dead"}
            /\ lockStep'[p] = "refused" => lockStep[sawOwner[p]] \in {"holding", "leaving"}
            /\ tries'[p] <= 2]_lockVars
<1> SUFFICES ASSUME NEW p \in Procs, ~overlapped', lockStep'[p] # lockStep[p]
             PROVE  /\ lockStep'[p] = "judge" => \/ sawOwner'[p] = Nobody
                                                \/ lockStep[sawOwner'[p]] \in {"holding", "dead"}
                    /\ lockStep'[p] = "refused" => lockStep[sawOwner[p]] \in {"holding", "leaving"}
                    /\ tries'[p] <= 2
  OBVIOUS
<1>1. tries'[p] <= 2
  BY DEF LockInv, Apart, TwoAttempts
<1>2. ~overlapped
  BY LockSteps DEF OpenWorkspace, CreateLock, SignLock, RetractLock, ReadLock, JudgeLock, RemoveStale, ReleaseLock, ProcessEnds, Killed, lockVars
<1>3. LockTypeOK /\ SignedHeld /\ OwnFile /\ SawPast
  BY <1>2 DEF LockInv, Apart
<1>4. ASSUME lockStep'[p] = "judge", sawOwner'[p] # Nobody
      PROVE  lockStep[sawOwner'[p]] \in {"holding", "dead"}
  <2>1. ReadLock(p)
    BY <1>3, <1>4, LockSteps DEF OpenWorkspace, CreateLock, SignLock, RetractLock, ReadLock, JudgeLock, RemoveStale,
       ReleaseLock, ProcessEnds, Killed, StepTo, lockVars, LockTypeOK
  <2>2. sawOwner'[p] = lockAt /\ lockAt \in signed /\ lockStep[p] = "read"
    BY <1>3, <1>4, <2>1 DEF ReadLock, LockTypeOK
  <2>3. lockStep[lockAt] \in {"retract", "holding", "leaving", "ended", "dead"} /\ lockAt \in Procs
    BY <1>3, <2>2 DEF SignedHeld, LockTypeOK
  <2>4. lockStep[lockAt] \notin {"leaving", "ended", "retract"}
    BY <1>3, <2>2, <2>3, LockAssumption DEF OwnFile, Acquiring, InAcquire
  <2> QED
    BY <2>2, <2>3, <2>4
<1>5. ASSUME lockStep'[p] = "refused"
      PROVE  lockStep[sawOwner[p]] \in {"holding", "leaving"}
  <2>1. JudgeLock(p)
    BY <1>3, <1>5, LockSteps DEF OpenWorkspace, CreateLock, SignLock, RetractLock, ReadLock, JudgeLock, RemoveStale,
       ReleaseLock, ProcessEnds, Killed, StepTo, lockVars, LockTypeOK
  <2>2. lockStep[p] = "judge" /\ sawOwner[p] # Nobody /\ Lives(sawOwner[p])
    <3>1. p \in Procs /\ lockStep \in [Procs -> InAcquire \union {"idle", "holding", "refused", "leaving", "ended", "dead"}]
      BY <1>3 DEF LockTypeOK
    <3>2. lockStep' = [lockStep EXCEPT ![p] = IF sawOwner[p] # Nobody /\ ProcessAlive(sawOwner[p]) THEN "refused" ELSE "remove"]
      BY <2>1 DEF JudgeLock, StepTo
    <3>3. sawOwner[p] # Nobody /\ ProcessAlive(sawOwner[p])
      BY <1>5, <3>1, <3>2
    <3> QED
      BY <2>1, <3>3 DEF JudgeLock, ProcessAlive
  <2>3. sawOwner[p] \in signed /\ ~Acquiring(sawOwner[p])
    BY <1>3, <2>2 DEF LockTypeOK, SawPast
  <2> QED
    BY <1>3, <2>2, <2>3 DEF SignedHeld, Lives, Acquiring, InAcquire
<1> QED
  BY <1>1, <1>4, <1>5

\* When every process may signal every other, processes that never acquire
\* together exclude each other; a process is refused only by one that held the
\* lock when its file was read and still lives, and what a killed one left behind
\* costs one attempt more: for any number of processes (acquireLock, Release,
\* Open and Close).
THEOREM LockKept == Strangers = {} => (LockSpec => LockKeepsFaith)
<1> SUFFICES ASSUME Strangers = {} PROVE LockSpec => LockKeepsFaith
  OBVIOUS
<1>1. LockInv /\ [LockNext]_lockVars => LockInv'
  BY LockInvNext
<1>2. LockInv /\ LockInv' /\ [LockNext]_lockVars
      => [\A p \in Procs : ~overlapped' /\ lockStep'[p] # lockStep[p] =>
            /\ lockStep'[p] = "judge" => \/ sawOwner'[p] = Nobody
                                        \/ lockStep[sawOwner'[p]] \in {"holding", "dead"}
            /\ lockStep'[p] = "refused" => lockStep[sawOwner[p]] \in {"holding", "leaving"}
            /\ tries'[p] <= 2]_lockVars
  BY LockInvRefuses
<1> QED
  BY LockInvInit, LockInvExcludes, <1>1, <1>2, PTL DEF LockSpec, LockKeepsFaith, RefusedForOwner

-----------------------------------------------------------------------------
(* The synchronization of a tree. *)

TreeSpec == TreeInit /\ [][TreeNext]_treeVars

-----------------------------------------------------------------------------
(* The documents of a set of names. *)

\* Some numbers have a least one.
LEMMA LeastNumber ==
    ASSUME NEW S, S \intersect Nat # {}
    PROVE  \E x \in S \intersect Nat : \A y \in S \intersect Nat : ~(y < x)
<1>1. IsWellFoundedOn(OpToRel(<, Nat), Nat)
  BY NatLessThanWellFounded
<1>2. \E x \in S \intersect Nat : \A y \in S \intersect Nat : ~(<<y, x>> \in OpToRel(<, Nat))
  BY <1>1, WFMin
<1>3. \A x, y \in Nat : y < x => <<y, x>> \in OpToRel(<, Nat)
  BY Zenon DEF OpToRel
<1> QED
  BY Zenon, <1>2, <1>3

\* What holds of zero and of the next of each number holds of all of them.
LEMMA NatSetInduction ==
    ASSUME NEW S, 0 \in S, \A n \in Nat : n \in S => n + 1 \in S
    PROVE  Nat \subseteq S
<1>1. SUFFICES ASSUME Nat \ S # {}
               PROVE  FALSE
  OBVIOUS
<1>2. PICK x \in Nat \ S : \A y \in Nat \ S : ~(y < x)
  <2>1. (Nat \ S) \intersect Nat = Nat \ S
    OBVIOUS
  <2> QED
    BY <1>1, <2>1, LeastNumber
<1>3. x # 0 /\ x - 1 \in Nat /\ x - 1 < x /\ (x - 1) + 1 = x
  BY <1>2
<1> QED
  BY <1>2, <1>3

\* The first of some numbers is one of them.
LEMMA FirstIn ==
    ASSUME NEW S \in SUBSET Nat, S # {}
    PROVE  First(S) \in S
<1>1. S \intersect Nat = S
  OBVIOUS
<1>2. PICK x \in S : \A y \in S : ~(y < x)
  BY <1>1, LeastNumber
<1>3. \A y \in S : x <= y
  BY <1>2
<1> QED
  BY <1>3 DEF First

\* The first of a sequence is one of its values, and so are the others.
LEMMA HeadIn ==
    ASSUME NEW T, NEW s \in Seq(T), s # <<>>
    PROVE  Head(s) \in T /\ Tail(s) \in Seq(T) /\ ToSet(s) = {Head(s)} \union ToSet(Tail(s))
<1>1. Len(s) \in Nat /\ Len(s) >= 1 /\ DOMAIN s = 1 .. Len(s)
  OBVIOUS
<1>2. Tail(s) \in Seq(T) /\ Len(Tail(s)) = Len(s) - 1 /\ \A i \in 1 .. Len(s) - 1 : Tail(s)[i] = s[i + 1]
  OBVIOUS
<1>3. Head(s) = s[1] /\ s[1] \in T
  BY <1>1
<1>4. DOMAIN Tail(s) = 1 .. Len(s) - 1
  BY <1>2
<1>5. \A x \in ToSet(s) : x = s[1] \/ x \in ToSet(Tail(s))
  <2> SUFFICES ASSUME NEW i \in 1 .. Len(s), i # 1
               PROVE  s[i] \in ToSet(Tail(s))
    BY <1>1 DEF ToSet
  <2>1. i - 1 \in 1 .. Len(s) - 1 /\ Tail(s)[i - 1] = s[i]
    BY <1>1, <1>2
  <2> QED
    BY <1>4, <2>1 DEF ToSet
<1>6. ToSet(Tail(s)) \subseteq ToSet(s) /\ s[1] \in ToSet(s)
  <2>1. \A i \in 1 .. Len(s) - 1 : i + 1 \in 1 .. Len(s)
    BY <1>1
  <2> QED
    BY <1>1, <1>2, <1>4, <2>1 DEF ToSet
<1> QED
  BY <1>2, <1>3, <1>5, <1>6

\* What is appended comes last.
LEMMA Appended ==
    ASSUME NEW T, NEW s \in Seq(T), NEW x \in T
    PROVE  /\ Append(s, x) \in Seq(T) /\ Len(Append(s, x)) = Len(s) + 1 /\ Append(s, x)[Len(s) + 1] = x
           /\ \A i \in 1 .. Len(s) : Append(s, x)[i] = s[i]
  OBVIOUS

Docs == [name : Names, stamp : 1 .. MaxWrites, body : 1 .. MaxWrites]

\* What is kept of the first documents when the next one is read.
KeptNext(docs, T, kept, i) == IF docs[i].name \in T THEN Append(kept, docs[i]) ELSE kept

KeptOf(docs, T, n, f) ==
    f = [i \in 0 .. n |-> IF i = 0 THEN <<>> ELSE KeptNext(docs, T, f[i - 1], i)]

\* The documents of T among the i first, in their order.
KeepsFirst(docs, T, i, kept) ==
    /\ kept \in Seq(Docs)
    /\ \A m \in 1 .. Len(kept) : kept[m].name \in T /\ \E j \in 1 .. i : docs[j] = kept[m]
    /\ \A j \in 1 .. i : docs[j].name \in T => \E m \in 1 .. Len(kept) : kept[m] = docs[j]
    /\ \A m, n \in 1 .. Len(kept) :
           m < n => \E j, k \in 1 .. i : j < k /\ docs[j] = kept[m] /\ docs[k] = kept[n]

\* The next document is kept when its name is one of T.
LEMMA KeepsOn ==
    ASSUME NEW docs \in Seq(Docs), NEW T, NEW i \in Nat, i + 1 <= Len(docs), NEW kept, KeepsFirst(docs, T, i, kept)
    PROVE  KeepsFirst(docs, T, i + 1, KeptNext(docs, T, kept, i + 1))
<1> DEFINE x == docs[i + 1]
           next == KeptNext(docs, T, kept, i + 1)
           N == Len(kept)
<1>1. x \in Docs /\ kept \in Seq(Docs) /\ N \in Nat
  <2>1. i + 1 \in 1 .. Len(docs)
    OBVIOUS
  <2> QED
    BY <2>1 DEF KeepsFirst
<1>2. 1 .. i + 1 = 1 .. i \union {i + 1} /\ \A j \in 1 .. i : j < i + 1
  OBVIOUS
<1>3. CASE x.name \in T
  <2>1. next = Append(kept, x)
    BY <1>3 DEF KeptNext
  <2> HIDE DEF x
  <2>2. next \in Seq(Docs) /\ Len(next) = N + 1 /\ next[N + 1] = x /\ \A m \in 1 .. N : next[m] = kept[m]
    <3>1. /\ Append(kept, x) \in Seq(Docs) /\ Len(Append(kept, x)) = N + 1 /\ Append(kept, x)[N + 1] = x
          /\ \A m \in 1 .. N : Append(kept, x)[m] = kept[m]
      BY <1>1, Appended
    <3> HIDE DEF next, N
    <3> QED
      BY <2>1, <3>1
  <2> USE DEF x
  <2> HIDE DEF next
  <2>3. \A m \in 1 .. N + 1 : m \in 1 .. N \/ m = N + 1
    BY <1>1
  <2>4. \A m \in 1 .. Len(next) : next[m].name \in T /\ \E j \in 1 .. i + 1 : docs[j] = next[m]
    <3> SUFFICES ASSUME NEW m \in 1 .. N + 1
                 PROVE  next[m].name \in T /\ \E j \in 1 .. i + 1 : docs[j] = next[m]
      BY <2>2
    <3>1. CASE m \in 1 .. N
      <4>1. kept[m].name \in T /\ \E j \in 1 .. i : docs[j] = kept[m]
        BY <3>1 DEF KeepsFirst
      <4>2. next[m] = kept[m]
        BY <2>2, <3>1
      <4> QED
        BY <1>2, <4>1, <4>2
    <3>2. CASE m = N + 1
      BY <1>2, <1>3, <2>2, <3>2
    <3> QED
      BY <2>3, <3>1, <3>2
  <2>5. \A j \in 1 .. i + 1 : docs[j].name \in T => \E m \in 1 .. Len(next) : next[m] = docs[j]
    <3> SUFFICES ASSUME NEW j \in 1 .. i + 1, docs[j].name \in T
                 PROVE  \E m \in 1 .. N + 1 : next[m] = docs[j]
      BY <2>2
    <3>1. N + 1 \in 1 .. N + 1 /\ \A m \in 1 .. N : m \in 1 .. N + 1
      BY <1>1
    <3>2. CASE j = i + 1
      BY <2>2, <3>1, <3>2
    <3>3. CASE j \in 1 .. i
      <4>1. PICK m \in 1 .. N : kept[m] = docs[j]
        BY <3>3 DEF KeepsFirst
      <4> QED
        BY <2>2, <3>1, <4>1
    <3> QED
      BY <1>2, <3>2, <3>3
  <2>6. \A m, n \in 1 .. Len(next) :
           m < n => \E j, k \in 1 .. i + 1 : j < k /\ docs[j] = next[m] /\ docs[k] = next[n]
    <3> SUFFICES ASSUME NEW m \in 1 .. Len(next), NEW n \in 1 .. Len(next), m < n
                 PROVE  \E j, k \in 1 .. i + 1 : j < k /\ docs[j] = next[m] /\ docs[k] = next[n]
      OBVIOUS
    <3>0. m \in 1 .. N + 1 /\ n \in 1 .. N + 1
      BY <2>2
    <3>1. m \in 1 .. N
      BY <1>1, <3>0
    <3>2. CASE n \in 1 .. N
      <4>1. PICK j, k \in 1 .. i : j < k /\ docs[j] = kept[m] /\ docs[k] = kept[n]
        BY <3>1, <3>2 DEF KeepsFirst
      <4> QED
        BY <1>2, <2>2, <3>1, <3>2, <4>1
    <3>3. CASE n = N + 1
      <4>1. PICK j \in 1 .. i : docs[j] = kept[m]
        BY <3>1 DEF KeepsFirst
      <4>2. j < i + 1 /\ docs[i + 1] = next[n] /\ next[m] = kept[m]
        BY <1>2, <2>2, <3>1, <3>3, <4>1
      <4> QED
        BY <1>2, <4>1, <4>2
    <3> QED
      BY <2>3, <3>0, <3>2, <3>3
  <2>7. next \in Seq(Docs)
    BY <2>2
  <2> HIDE DEF N
  <2>8. KeepsFirst(docs, T, i + 1, next)
    BY <2>4, <2>5, <2>6, <2>7 DEF KeepsFirst
  <2> QED
    BY <2>8 DEF next
<1>4. CASE x.name \notin T
  <2>1. next = kept
    BY <1>4 DEF KeptNext
  <2>2. \A m \in 1 .. Len(kept) : kept[m].name \in T /\ \E j \in 1 .. i + 1 : docs[j] = kept[m]
    BY <1>2 DEF KeepsFirst
  <2>3. \A j \in 1 .. i + 1 : docs[j].name \in T => \E m \in 1 .. Len(kept) : kept[m] = docs[j]
    <3> SUFFICES ASSUME NEW j \in 1 .. i + 1, docs[j].name \in T
                 PROVE  j \in 1 .. i
      BY DEF KeepsFirst
    <3> QED
      BY <1>4
  <2>4. \A m, n \in 1 .. Len(kept) :
           m < n => \E j, k \in 1 .. i + 1 : j < k /\ docs[j] = kept[m] /\ docs[k] = kept[n]
    BY <1>2 DEF KeepsFirst
  <2>5. KeepsFirst(docs, T, i + 1, kept)
    BY <1>1, <2>2, <2>3, <2>4 DEF KeepsFirst
  <2> QED
    BY <2>1, <2>5
<1> QED
  BY <1>3, <1>4

\* NamedIn keeps the documents of T, in their order.
LEMMA NamedInKeeps ==
    ASSUME NEW docs \in Seq(Docs), NEW T
    PROVE  KeepsFirst(docs, T, Len(docs), NamedIn(docs, T))
<1> DEFINE F == CHOOSE f : f = [i \in 0 .. Len(docs) |->
                   IF i = 0 THEN <<>> ELSE IF docs[i].name \in T THEN Append(f[i - 1], docs[i]) ELSE f[i - 1]]
           S == {n \in Nat : n <= Len(docs) => \E f : KeptOf(docs, T, n, f)}
           R == {n \in Nat : n <= Len(docs) => KeepsFirst(docs, T, n, F[n])}
<1>1. NamedIn(docs, T) = F[Len(docs)]
  BY DEF NamedIn
<1>2. 0 \in S
  <2>1. KeptOf(docs, T, 0, [i \in 0 .. 0 |-> <<>>])
    BY DEF KeptOf
  <2> QED
    BY <2>1
<1>3. ASSUME NEW n \in Nat, n \in S
      PROVE  n + 1 \in S
  <2> SUFFICES ASSUME n + 1 <= Len(docs)
               PROVE  \E f : KeptOf(docs, T, n + 1, f)
    OBVIOUS
  <2>1. PICK g : KeptOf(docs, T, n, g)
    BY <1>3
  <2> DEFINE h == [i \in 0 .. n + 1 |-> IF i = n + 1 THEN KeptNext(docs, T, g[n], n + 1) ELSE g[i]]
  <2>2. \A i \in 0 .. n + 1 : h[i] = IF i = 0 THEN <<>> ELSE KeptNext(docs, T, h[i - 1], i)
    <3> SUFFICES ASSUME NEW i \in 0 .. n + 1
                 PROVE  h[i] = IF i = 0 THEN <<>> ELSE KeptNext(docs, T, h[i - 1], i)
      OBVIOUS
    <3>1. CASE i = n + 1
      <4>1. i # 0 /\ i - 1 = n /\ n \in 0 .. n + 1 /\ n # n + 1
        BY <3>1
      <4>2. h[i] = KeptNext(docs, T, g[n], i) /\ h[i - 1] = g[n]
        BY <3>1, <4>1
      <4> QED
        BY <4>1, <4>2
    <3>2. CASE i # n + 1
      <4>1. i \in 0 .. n /\ h[i] = g[i] /\ (i # 0 => i - 1 \in 0 .. n /\ h[i - 1] = g[i - 1])
        BY <3>2
      <4>2. g[i] = IF i = 0 THEN <<>> ELSE KeptNext(docs, T, g[i - 1], i)
        BY <2>1, <4>1 DEF KeptOf
      <4> QED
        BY <4>1, <4>2
    <3> QED
      BY <3>1, <3>2
  <2>3. h = [i \in 0 .. n + 1 |-> h[i]]
    OBVIOUS
  <2> HIDE DEF h
  <2>4. KeptOf(docs, T, n + 1, h)
    BY <2>2, <2>3 DEF KeptOf
  <2> QED
    BY <2>4
<1> HIDE DEF S, R, F
<1>4. Len(docs) \in S
  BY <1>2, <1>3, NatSetInduction
<1>5. KeptOf(docs, T, Len(docs), F)
  <2>1. PICK g : KeptOf(docs, T, Len(docs), g)
    BY <1>4 DEF S
  <2>2. g = [i \in 0 .. Len(docs) |->
               IF i = 0 THEN <<>> ELSE IF docs[i].name \in T THEN Append(g[i - 1], docs[i]) ELSE g[i - 1]]
    BY <2>1 DEF KeptOf, KeptNext
  <2>3. F = [i \in 0 .. Len(docs) |->
               IF i = 0 THEN <<>> ELSE IF docs[i].name \in T THEN Append(F[i - 1], docs[i]) ELSE F[i - 1]]
    BY <2>2 DEF F
  <2> QED
    BY <2>3 DEF KeptOf, KeptNext
<1>6. F[0] = <<>> /\ \A i \in 1 .. Len(docs) : F[i] = KeptNext(docs, T, F[i - 1], i)
  <2>1. \A i \in 0 .. Len(docs) : F[i] = IF i = 0 THEN <<>> ELSE KeptNext(docs, T, F[i - 1], i)
    BY <1>5 DEF KeptOf
  <2> QED
    BY <2>1
<1>7. 0 \in R
  <2>1. KeepsFirst(docs, T, 0, <<>>)
    BY DEF KeepsFirst
  <2> QED
    BY <1>6, <2>1 DEF R
<1>8. ASSUME NEW n \in Nat, n \in R
      PROVE  n + 1 \in R
  <2> SUFFICES ASSUME n + 1 <= Len(docs)
               PROVE  KeepsFirst(docs, T, n + 1, F[n + 1])
    BY DEF R
  <2>1. KeepsFirst(docs, T, n, F[n])
    BY <1>8 DEF R
  <2>2. F[n + 1] = KeptNext(docs, T, F[n], n + 1)
    <3>1. n + 1 \in 1 .. Len(docs) /\ (n + 1) - 1 = n
      OBVIOUS
    <3> QED
      BY <1>6, <3>1
  <2> QED
    BY <2>1, <2>2, KeepsOn
<1>9. Len(docs) \in R
  BY <1>7, <1>8, NatSetInduction
<1> QED
  BY <1>1, <1>9 DEF R

OneEach(docs) == \A i, j \in 1 .. Len(docs) : docs[i].name = docs[j].name => i = j

\* No document of T is lost, none is added, and none is there twice.
LEMMA NamedInRight ==
    ASSUME NEW docs \in Seq(Docs), NEW T
    PROVE  /\ NamedIn(docs, T) \in Seq(Docs)
           /\ ToSet(NamedIn(docs, T)) = {d \in ToSet(docs) : d.name \in T}
           /\ OneEach(docs) => OneEach(NamedIn(docs, T))
<1> DEFINE K == NamedIn(docs, T)
<1>1. KeepsFirst(docs, T, Len(docs), K)
  BY NamedInKeeps
<1> HIDE DEF K
<1>2. K \in Seq(Docs)
  BY <1>1 DEF KeepsFirst
<1>3. /\ DOMAIN docs = 1 .. Len(docs) /\ DOMAIN K = 1 .. Len(K)
      /\ Len(docs) \in Nat /\ Len(K) \in Nat
  BY <1>2
<1>4. ToSet(K) = {d \in ToSet(docs) : d.name \in T}
  <2>1. \A m \in 1 .. Len(K) : K[m].name \in T /\ \E j \in 1 .. Len(docs) : docs[j] = K[m]
    BY <1>1 DEF KeepsFirst
  <2>2. \A j \in 1 .. Len(docs) : docs[j].name \in T => \E m \in 1 .. Len(K) : K[m] = docs[j]
    BY <1>1 DEF KeepsFirst
  <2>3. ToSet(K) \subseteq {d \in ToSet(docs) : d.name \in T}
    BY <1>3, <2>1 DEF ToSet
  <2>4. {d \in ToSet(docs) : d.name \in T} \subseteq ToSet(K)
    BY <1>3, <2>2 DEF ToSet
  <2> QED
    BY <2>3, <2>4
<1>5. ASSUME OneEach(docs)
      PROVE  OneEach(K)
  <2>1. \A m, n \in 1 .. Len(K) : m < n => K[m].name # K[n].name
    <3> SUFFICES ASSUME NEW m \in 1 .. Len(K), NEW n \in 1 .. Len(K), m < n, K[m].name = K[n].name
                 PROVE  FALSE
      OBVIOUS
    <3>1. PICK j, k \in 1 .. Len(docs) : j < k /\ docs[j] = K[m] /\ docs[k] = K[n]
      BY <1>1 DEF KeepsFirst
    <3>2. j = k
      BY <1>5, <3>1 DEF OneEach
    <3> QED
      BY <3>1, <3>2
  <2> SUFFICES ASSUME NEW m \in 1 .. Len(K), NEW n \in 1 .. Len(K), K[m].name = K[n].name, m # n
               PROVE  FALSE
    BY DEF OneEach
  <2>2. m < n \/ n < m
    BY <1>3
  <2> QED
    BY <2>1, <2>2
<1> QED
  BY <1>2, <1>4, <1>5 DEF K

-----------------------------------------------------------------------------
(* The state of a command. *)

CmdSteps == {"none", "list", "walk", "gone", "stat", "copy", "wait", "purge"}
Tags == [name : InTree, stamp : 1 .. MaxWrites]
TreeDocs == [name : InTree, stamp : 1 .. MaxWrites, body : 1 .. MaxWrites]
States == [body : 0 .. MaxWrites, stamp : 0 .. MaxWrites]

Commands ==
    [at : CmdSteps, mode : {"wait", "noWait", "dryRun"}, match : SUBSET Names, page : Nat, known : SUBSET Tags,
     left : SUBSET InTree, seen : SUBSET InTree, plan : Seq(InTree), caught : States, held : SUBSET TreeDocs,
     gone : SUBSET InTree, failed : BOOLEAN, absent : SUBSET Names, quiet : BOOLEAN]

Fields == {"at", "mode", "match", "page", "known", "left", "seen", "plan", "caught", "held", "gone", "failed", "absent", "quiet"}

\* The command changes in these fields alone.
Changes(F) == cmd' \in Commands /\ \A f \in Fields \ F : cmd'[f] = cmd[f]

TreeTyped ==
    /\ disk \in [Names -> States]
    /\ library \in Seq(Docs) /\ jobs \subseteq Docs
    /\ cmd \in Commands
    /\ writes \in 0 .. MaxWrites

\* A file has a stamp when it has a body, and no stamp is of the future.
Dated == \A n \in Names : (disk[n].body = 0 <=> disk[n].stamp = 0) /\ disk[n].stamp <= writes
Stamped == \A d \in ToSet(library) \union jobs : d.stamp <= writes

\* A copy with the stamp of the file on disk has its body, unless two can have one stamp.
Current == ~SameStamp => \A d \in ToSet(library) \union jobs : d.stamp = disk[d.name].stamp => d.body = disk[d.name].body

\* What is copied was there when its attributes were read.
CaughtDated == cmd.at = "copy" => cmd.plan # <<>> /\ cmd.caught.stamp \in 1 .. writes

\* What is missing while a command runs was missing while it ran, and so was what
\* it found gone.
Absences == Running => \A n \in Names : ~OnDisk(n) => n \in cmd.absent
GoneAbsent == cmd.gone \subseteq cmd.absent

SafeInv ==
    /\ TreeTyped
    /\ Dated
    /\ OneEach(library)
    /\ Stamped
    /\ Current
    /\ CaughtDated
    /\ Absences
    /\ GoneAbsent

\* What the model assumes of its constants, for the steps below.
LEMMA Assumed ==
    /\ Names \subseteq Nat /\ InTree \subseteq Names /\ Patterns \subseteq SUBSET Names
    /\ DigestPage \in Nat \ {0} /\ MaxWrites \in Nat
  BY TreeAssumption

\* No command is a command.
LEMMA NoCommand == NoCmd \in Commands
<1>1. NoFile \in States
  BY Assumed DEF NoFile, States
<1> QED
  BY <1>1 DEF NoCmd, Commands, CmdSteps

\* A file that is written or removed: the command that runs is no longer quiet.
LEMMA WriteFacts ==
    ASSUME TreeTyped, Dated, NEW n \in Names, WriteFile(n)
    PROVE  /\ Changes({"quiet"}) /\ (cmd'.quiet <=> ~Running)
           /\ writes' = writes + 1 /\ writes' \in 0 .. MaxWrites
           /\ \E stamp \in 1 .. writes' :
                 /\ disk' = [disk EXCEPT ![n] = [body |-> writes', stamp |-> stamp]]
                 /\ ~SameStamp => stamp = writes'
           /\ UNCHANGED <<library, jobs>>
<1>1. cmd \in Commands /\ cmd' = [cmd EXCEPT !.quiet = ~Running]
  BY DEF TreeTyped, WriteFile
<1>2. cmd' \in Commands
  BY <1>1 DEF Commands
<1>3. DOMAIN cmd = Fields
  BY <1>1 DEF Commands, Fields
<1>4. Changes({"quiet"}) /\ (cmd'.quiet <=> ~Running)
  BY <1>1, <1>2, <1>3 DEF Changes, Fields
<1>5. writes' = writes + 1 /\ writes' \in 0 .. MaxWrites /\ writes \in Nat
  BY Assumed DEF WriteFile, TreeTyped
<1>6. PICK stamp \in {writes'} \union (IF SameStamp /\ OnDisk(n) THEN {disk[n].stamp} ELSE {}) :
         disk' = [disk EXCEPT ![n] = [body |-> writes', stamp |-> stamp]]
  BY DEF WriteFile
<1>7. stamp \in 1 .. writes' /\ (~SameStamp => stamp = writes')
  <2>1. CASE stamp = writes'
    BY <1>5, <2>1
  <2>2. CASE SameStamp /\ OnDisk(n) /\ stamp = disk[n].stamp
    <3>1. disk[n].stamp \in Nat
      <4>1. disk[n] \in States
        BY DEF TreeTyped
      <4> QED
        BY <4>1, Assumed DEF States
    <3>2. disk[n].stamp # 0 /\ disk[n].stamp <= writes
      BY <2>2 DEF Dated, OnDisk
    <3> QED
      BY <1>5, <2>2, <3>1, <3>2
  <2> QED
    BY <1>6, <2>1, <2>2
<1> QED
  BY <1>4, <1>5, <1>6, <1>7 DEF WriteFile

\* A file that is removed: the command that runs is told, and is no longer quiet.
LEMMA RemoveFacts ==
    ASSUME TreeTyped, NEW n \in Names, RemoveFromDisk(n)
    PROVE  /\ Changes({"quiet", "absent"})
           /\ Running => ~cmd'.quiet /\ cmd'.absent = cmd.absent \union {n}
           /\ ~Running => cmd' = cmd
           /\ writes' = writes + 1 /\ writes' \in 0 .. MaxWrites
           /\ disk' = [disk EXCEPT ![n] = NoFile]
           /\ UNCHANGED <<library, jobs>>
<1>1. cmd \in Commands
  BY DEF TreeTyped
<1>2. DOMAIN cmd = Fields
  BY <1>1 DEF Commands, Fields
<1>0. writes' = writes + 1 /\ writes' \in 0 .. MaxWrites
  BY Assumed DEF RemoveFromDisk, TreeTyped
<1>3. CASE Running
  <2>1. cmd' = [cmd EXCEPT !.quiet = FALSE, !.absent = cmd.absent \union {n}]
    BY <1>3 DEF RemoveFromDisk
  <2>2. cmd.absent \union {n} \in SUBSET Names
    BY <1>1 DEF Commands
  <2>3. cmd' \in Commands
    BY <1>1, <2>1, <2>2 DEF Commands
  <2>4. Changes({"quiet", "absent"}) /\ ~cmd'.quiet /\ cmd'.absent = cmd.absent \union {n}
    BY <1>2, <2>1, <2>3 DEF Changes, Fields
  <2> QED
    BY <1>0, <1>3, <2>4 DEF RemoveFromDisk
<1>4. CASE ~Running
  <2>1. cmd' = cmd
    BY <1>4 DEF RemoveFromDisk
  <2> QED
    BY <1>0, <1>1, <1>4, <2>1 DEF Changes, RemoveFromDisk
<1> QED
  BY <1>3, <1>4

\* What a sync begins with.
LEMMA StartFacts ==
    ASSUME TreeTyped, NEW match \in Patterns, StartSync(match)
    PROVE  /\ cmd' \in Commands /\ cmd'.at = "list" /\ cmd'.page = 0 /\ cmd'.known = {} /\ cmd'.seen = {}
           /\ cmd'.gone = {} /\ cmd'.held = {} /\ (cmd'.quiet <=> jobs = {})
           /\ cmd'.absent = {n \in Names : ~OnDisk(n)}
           /\ UNCHANGED <<disk, library, jobs, writes>>
<1>1. PICK mode \in {"wait", "noWait", "dryRun"} :
         cmd' = [NoCmd EXCEPT !.at = "list", !.mode = mode, !.match = match, !.quiet = (jobs = {}),
                              !.absent = {n \in Names : ~OnDisk(n)}]
  BY DEF StartSync
<1>2. match \in SUBSET Names /\ {n \in Names : ~OnDisk(n)} \in SUBSET Names
  BY Assumed
<1>3. cmd' \in Commands
  BY <1>1, <1>2, NoCommand DEF Commands, CmdSteps
<1>4. DOMAIN NoCmd = Fields
  BY DEF NoCmd, Fields
<1>5. /\ cmd'.at = "list" /\ cmd'.page = 0 /\ cmd'.known = {} /\ cmd'.seen = {}
      /\ cmd'.gone = {} /\ cmd'.held = {} /\ (cmd'.quiet <=> jobs = {})
      /\ cmd'.absent = {n \in Names : ~OnDisk(n)}
  BY <1>1 DEF NoCmd
<1> QED
  BY <1>3, <1>5 DEF StartSync, NothingElse

\* A task ends: its copy is the document of its name, or the command that waits
\* for it has failed.
LEMMA RunFacts ==
    ASSUME TreeTyped, NEW j \in jobs, RunJob(j)
    PROVE  /\ jobs' = jobs \ {j} /\ UNCHANGED <<disk, writes>> /\ Changes({"failed", "held"})
           /\ \/ library' = Append(Without(library, j.name), j) /\ cmd' = cmd
              \/ /\ library' \in {library, Without(library, j.name)}
                 /\ (cmd'.failed <=> cmd.failed \/ j \in cmd.held) /\ cmd'.held = cmd.held \ {j}
<1>1. cmd \in Commands /\ j \in Docs
  BY DEF TreeTyped
<1>2. DOMAIN cmd = Fields
  BY <1>1 DEF Commands, Fields
<1>3. Filed(j.name, j.stamp, j.body) = j
  BY <1>1 DEF Filed, Docs
<1>4. CASE library' = Append(Without(library, j.name), j) /\ cmd' = cmd
  BY <1>1, <1>4 DEF RunJob, Changes
<1>5. CASE /\ library' \in {library, Without(library, j.name)}
           /\ cmd' = [cmd EXCEPT !.failed = cmd.failed \/ j \in cmd.held, !.held = cmd.held \ {j}]
  <2>1. cmd.held \ {j} \in SUBSET TreeDocs
    BY <1>1 DEF Commands
  <2>2. cmd' \in Commands
    BY <1>1, <1>5, <2>1 DEF Commands
  <2>3. /\ Changes({"failed", "held"})
        /\ (cmd'.failed <=> cmd.failed \/ j \in cmd.held) /\ cmd'.held = cmd.held \ {j}
    BY <1>2, <1>5, <2>2 DEF Changes, Fields
  <2> QED
    BY <1>5, <2>3 DEF RunJob
<1>6. \/ library' = Append(Without(library, j.name), j) /\ cmd' = cmd
      \/ /\ library' \in {library, Without(library, j.name)}
         /\ cmd' = [cmd EXCEPT !.failed = cmd.failed \/ j \in cmd.held, !.held = cmd.held \ {j}]
  BY <1>3 DEF RunJob
<1> QED
  BY <1>4, <1>5, <1>6

\* A page of the listing: what is met on it is known, and the page after it is next.
LEMMA ListFacts ==
    ASSUME TreeTyped, ListDigests
    PROVE  LET docs == NamedIn(library, InTree)
               upTo == (cmd.page + 1) * DigestPage
               page == SubSeq(docs, cmd.page * DigestPage + 1, IF upTo < Len(docs) THEN upTo ELSE Len(docs))
               met  == {[name |-> page[i].name, stamp |-> page[i].stamp] : i \in DOMAIN page}
           IN  /\ Changes({"known", "page", "at", "left"})
               /\ cmd'.known = {k \in cmd.known : \A m \in met : m.name # k.name} \union met
               /\ cmd'.page = cmd.page + 1
               /\ cmd'.at = IF Len(page) < DigestPage THEN "walk" ELSE cmd.at
               /\ cmd'.left = IF Len(page) < DigestPage THEN {n \in InTree : OnDisk(n)} ELSE cmd.left
               /\ cmd.at = "list" /\ UNCHANGED <<disk, library, jobs, writes>>
<1> DEFINE docs == NamedIn(library, InTree)
           upTo == (cmd.page + 1) * DigestPage
           page == SubSeq(docs, cmd.page * DigestPage + 1, IF upTo < Len(docs) THEN upTo ELSE Len(docs))
           met  == {[name |-> page[i].name, stamp |-> page[i].stamp] : i \in DOMAIN page}
           known == {k \in cmd.known : \A m \in met : m.name # k.name} \union met
           at == IF Len(page) < DigestPage THEN "walk" ELSE cmd.at
           left == IF Len(page) < DigestPage THEN {n \in InTree : OnDisk(n)} ELSE cmd.left
<1>1. cmd \in Commands /\ cmd.page \in Nat
  BY DEF TreeTyped, Commands
<1>2. DOMAIN cmd = Fields
  BY <1>1 DEF Commands, Fields
<1>3. cmd' = [cmd EXCEPT !.known = known, !.page = cmd.page + 1, !.at = at, !.left = left]
  BY DEF ListDigests
<1>4. met \subseteq Tags
  <2>1. docs \in Seq(Docs) /\ ToSet(docs) = {d \in ToSet(library) : d.name \in InTree}
    BY NamedInRight DEF TreeTyped
  <2> DEFINE last == IF upTo < Len(docs) THEN upTo ELSE Len(docs)
             off == cmd.page * DigestPage
  <2>2. off \in Nat /\ upTo \in Nat
    BY <1>1, Assumed
  <2>3. Len(docs) \in Nat /\ DOMAIN docs = 1 .. Len(docs)
    BY <2>1
  <2> HIDE DEF docs, upTo, off
  <2>4. last \in 0 .. Len(docs)
    BY <2>2, <2>3
  <2>5. page = SubSeq(docs, off + 1, last)
    BY DEF off
  <2> HIDE DEF last, page
  <2>6. /\ DOMAIN page = 1 .. Len(page)
        /\ \A i \in DOMAIN page : off + i \in 1 .. Len(docs) /\ page[i] = docs[off + i]
    BY <2>1, <2>2, <2>3, <2>4, <2>5
  <2>7. \A i \in DOMAIN page : page[i] \in Docs /\ page[i].name \in InTree
    BY <2>1, <2>3, <2>6 DEF ToSet
  <2> QED
    BY <2>7 DEF Docs, Tags
<1>5. known \subseteq Tags
  <2> HIDE DEF met
  <2> QED
    BY <1>1, <1>4 DEF Commands
<1>6. at \in CmdSteps /\ left \subseteq InTree
  BY <1>1 DEF Commands, CmdSteps
<1>7. cmd.at = "list" /\ UNCHANGED <<disk, library, jobs, writes>>
  BY DEF ListDigests, NothingElse, Counters
<1> HIDE DEF known, at, left
<1>8. cmd' \in Commands
  <2> DEFINE next == cmd.page + 1
  <2>1. next \in Nat /\ known \in SUBSET Tags /\ left \in SUBSET InTree
    BY <1>1, <1>5, <1>6
  <2>2. cmd' = [cmd EXCEPT !.known = known, !.page = next, !.at = at, !.left = left]
    BY <1>3
  <2> HIDE DEF next
  <2> QED
    BY <1>1, <1>6, <2>1, <2>2 DEF Commands
<1>9. /\ Changes({"known", "page", "at", "left"})
      /\ cmd'.known = known /\ cmd'.page = cmd.page + 1 /\ cmd'.at = at /\ cmd'.left = left
  BY <1>2, <1>3, <1>8 DEF Changes, Fields
<1> QED
  BY <1>7, <1>9 DEF known, at, left

\* An entry of the directory: passed over, skipped as known, or planned.
LEMMA WalkFacts ==
    ASSUME TreeTyped, WalkEntry
    PROVE  /\ cmd.at = "walk" /\ First(cmd.left) \in cmd.left /\ UNCHANGED <<disk, library, jobs, writes>>
           /\ \/ cmd' = NoCmd
              \/ /\ Changes({"left", "seen", "plan"}) /\ cmd'.left = cmd.left \ {First(cmd.left)}
                 /\ \/ /\ IsIgnored(First(cmd.left)) \/ ~Matches(First(cmd.left))
                       /\ cmd'.seen = cmd.seen /\ cmd'.plan = cmd.plan
                    \/ /\ OnDisk(First(cmd.left)) /\ cmd'.seen = cmd.seen \union {First(cmd.left)}
                       /\ \/ /\ [name |-> First(cmd.left), stamp |-> disk[First(cmd.left)].stamp] \in cmd.known
                             /\ cmd'.plan = cmd.plan
                          \/ cmd'.plan = Append(cmd.plan, First(cmd.left))
<1> DEFINE n == First(cmd.left)
<1>1. cmd \in Commands /\ cmd.left \subseteq InTree /\ cmd.plan \in Seq(InTree) /\ cmd.seen \subseteq InTree
  BY DEF TreeTyped, Commands
<1>2. DOMAIN cmd = Fields
  BY <1>1 DEF Commands, Fields
<1>3. n \in cmd.left
  BY <1>1, FirstIn, Assumed DEF WalkEntry
<1>4. cmd.at = "walk" /\ UNCHANGED <<disk, library, jobs, writes>>
  BY DEF WalkEntry, NothingElse, Counters
<1> HIDE DEF n
<1>5. cmd.left \ {n} \subseteq InTree /\ cmd.seen \union {n} \subseteq InTree /\ Append(cmd.plan, n) \in Seq(InTree)
  BY <1>1, <1>3
<1>6. ASSUME cmd' = [cmd EXCEPT !.left = cmd.left \ {n}]
      PROVE  /\ Changes({"left", "seen", "plan"}) /\ cmd'.left = cmd.left \ {n}
             /\ cmd'.seen = cmd.seen /\ cmd'.plan = cmd.plan
  <2>1. cmd' \in Commands
    BY <1>1, <1>5, <1>6 DEF Commands
  <2> QED
    BY <1>2, <1>6, <2>1 DEF Changes, Fields
<1>7. ASSUME cmd' = [cmd EXCEPT !.left = cmd.left \ {n}, !.seen = cmd.seen \union {n}]
      PROVE  /\ Changes({"left", "seen", "plan"}) /\ cmd'.left = cmd.left \ {n}
             /\ cmd'.seen = cmd.seen \union {n} /\ cmd'.plan = cmd.plan
  <2>1. cmd' \in Commands
    BY <1>1, <1>5, <1>7 DEF Commands
  <2> QED
    BY <1>2, <1>7, <2>1 DEF Changes, Fields
<1>8. ASSUME cmd' = [cmd EXCEPT !.left = cmd.left \ {n}, !.seen = cmd.seen \union {n}, !.plan = Append(cmd.plan, n)]
      PROVE  /\ Changes({"left", "seen", "plan"}) /\ cmd'.left = cmd.left \ {n}
             /\ cmd'.seen = cmd.seen \union {n} /\ cmd'.plan = Append(cmd.plan, n)
  <2>1. cmd' \in Commands
    BY <1>1, <1>5, <1>8 DEF Commands
  <2> QED
    BY <1>2, <1>8, <2>1 DEF Changes, Fields
<1>9. CASE IsIgnored(n) \/ ~Matches(n)
  <2>1. cmd' = [cmd EXCEPT !.left = cmd.left \ {n}]
    BY <1>9 DEF WalkEntry, n
  <2> QED
    BY <1>3, <1>4, <1>6, <1>9, <2>1 DEF n
<1>10. CASE ~(IsIgnored(n) \/ ~Matches(n)) /\ ~OnDisk(n)
  <2>1. cmd' = NoCmd
    BY <1>10 DEF WalkEntry, AtEnd, n
  <2> QED
    BY <1>3, <1>4, <2>1 DEF n
<1>11. CASE /\ ~(IsIgnored(n) \/ ~Matches(n)) /\ OnDisk(n)
            /\ [name |-> n, stamp |-> disk[n].stamp] \in cmd.known
  <2>1. cmd' = [[cmd EXCEPT !.left = cmd.left \ {n}] EXCEPT !.seen = cmd.seen \union {n}]
    BY <1>2, <1>11 DEF WalkEntry, Fields, n
  <2>2. cmd' = [cmd EXCEPT !.left = cmd.left \ {n}, !.seen = cmd.seen \union {n}]
    BY <1>2, <2>1 DEF Fields
  <2> QED
    BY <1>3, <1>4, <1>7, <1>11, <2>2 DEF n
<1>12. CASE /\ ~(IsIgnored(n) \/ ~Matches(n)) /\ OnDisk(n)
            /\ [name |-> n, stamp |-> disk[n].stamp] \notin cmd.known
  <2>1. cmd' = [[cmd EXCEPT !.left = cmd.left \ {n}] EXCEPT !.seen = cmd.seen \union {n}, !.plan = Append(cmd.plan, n)]
    BY <1>2, <1>12 DEF WalkEntry, Fields, n
  <2>2. cmd' = [cmd EXCEPT !.left = cmd.left \ {n}, !.seen = cmd.seen \union {n}, !.plan = Append(cmd.plan, n)]
    BY <1>2, <2>1 DEF Fields
  <2> QED
    BY <1>3, <1>4, <1>8, <1>12, <2>2 DEF n
<1> QED
  BY <1>9, <1>10, <1>11, <1>12

\* The walk is over: what is known and was not seen is looked for.
LEMMA WalkEndsFacts ==
    ASSUME TreeTyped, WalkEnds
    PROVE  /\ cmd.at = "walk" /\ cmd.left = {} /\ UNCHANGED <<disk, library, jobs, writes>>
           /\ Changes({"at", "left"}) /\ cmd'.at = "gone" /\ cmd'.left = {k.name : k \in cmd.known} \ cmd.seen
<1> DEFINE left == {k.name : k \in cmd.known} \ cmd.seen
<1>1. cmd \in Commands
  BY DEF TreeTyped
<1>2. left \in SUBSET InTree
  BY <1>1 DEF Commands, Tags
<1>3. cmd' = [cmd EXCEPT !.at = "gone", !.left = left]
  BY DEF WalkEnds
<1> HIDE DEF left
<1>4. cmd' \in Commands
  BY <1>1, <1>2, <1>3 DEF Commands, CmdSteps
<1>5. DOMAIN cmd = Fields
  BY <1>1 DEF Commands, Fields
<1>6. Changes({"at", "left"}) /\ cmd'.at = "gone" /\ cmd'.left = left
  BY <1>3, <1>4, <1>5 DEF Changes, Fields
<1> QED
  BY <1>6 DEF WalkEnds, NothingElse, Counters, left

\* A source that was not seen is on disk or gone; then the planned files follow.
LEMMA GoneFacts ==
    ASSUME TreeTyped, FindGone
    PROVE  /\ cmd.at = "gone" /\ UNCHANGED <<disk, library, jobs, writes>>
           /\ \/ cmd' = NoCmd
              \/ cmd.left = {} /\ Changes({"at"}) /\ cmd'.at = "stat"
              \/ /\ Changes({"left", "gone"}) /\ First(cmd.left) \in cmd.left
                 /\ cmd'.left = cmd.left \ {First(cmd.left)}
                 /\ cmd'.gone = IF OnDisk(First(cmd.left)) THEN cmd.gone ELSE cmd.gone \union {First(cmd.left)}
<1> DEFINE n == First(cmd.left)
           gone == IF OnDisk(n) THEN cmd.gone ELSE cmd.gone \union {n}
<1>1. cmd \in Commands /\ cmd.left \subseteq InTree /\ cmd.gone \subseteq InTree
  BY DEF TreeTyped, Commands
<1>2. DOMAIN cmd = Fields
  BY <1>1 DEF Commands, Fields
<1>3. cmd.at = "gone" /\ UNCHANGED <<disk, library, jobs, writes>>
  BY DEF FindGone, NothingElse, Counters
<1>4. CASE cmd.left = {}
  <2>1. cmd' = NoCmd \/ cmd' = [cmd EXCEPT !.at = "stat"]
    BY <1>4 DEF FindGone
  <2>2. ASSUME cmd' = [cmd EXCEPT !.at = "stat"]
        PROVE  Changes({"at"}) /\ cmd'.at = "stat"
    <3>1. cmd' \in Commands
      BY <1>1, <2>2 DEF Commands, CmdSteps
    <3> QED
      BY <1>2, <2>2, <3>1 DEF Changes, Fields
  <2> QED
    BY <1>3, <1>4, <2>1, <2>2
<1>5. CASE cmd.left # {}
  <2>1. n \in cmd.left
    BY <1>1, <1>5, FirstIn, Assumed
  <2>2. cmd' = [cmd EXCEPT !.left = cmd.left \ {n}, !.gone = gone]
    BY <1>5 DEF FindGone
  <2> HIDE DEF n
  <2>3. cmd.left \ {n} \in SUBSET InTree /\ gone \in SUBSET InTree
    BY <1>1, <2>1
  <2> HIDE DEF gone
  <2>4. cmd' \in Commands
    BY <1>1, <2>2, <2>3 DEF Commands
  <2>5. Changes({"left", "gone"}) /\ cmd'.left = cmd.left \ {n} /\ cmd'.gone = gone
    BY <1>2, <2>2, <2>4 DEF Changes, Fields
  <2> QED
    BY <1>3, <2>1, <2>5 DEF n, gone
<1> QED
  BY <1>4, <1>5

\* A planned file has gone, or its attributes are read.
LEMMA StatFacts ==
    ASSUME TreeTyped, StatFile
    PROVE  /\ cmd.at = "stat" /\ UNCHANGED <<disk, library, jobs, writes>>
           /\ \/ cmd.plan = <<>> /\ Changes({"at"}) /\ cmd'.at = "wait"
              \/ Changes({"plan", "failed"}) /\ cmd'.failed
              \/ /\ cmd.plan # <<>> /\ Changes({"at", "caught"}) /\ cmd'.at = "copy"
                 /\ OnDisk(Head(cmd.plan)) /\ cmd'.caught = disk[Head(cmd.plan)]
<1>1. cmd \in Commands /\ cmd.plan \in Seq(InTree) /\ disk \in [Names -> States]
  BY DEF TreeTyped, Commands
<1>2. DOMAIN cmd = Fields
  BY <1>1 DEF Commands, Fields
<1>3. cmd.at = "stat" /\ UNCHANGED <<disk, library, jobs, writes>>
  BY DEF StatFile, NothingElse, Counters
<1>4. CASE cmd.plan = <<>>
  <2>1. cmd' = [cmd EXCEPT !.at = "wait"]
    BY <1>4 DEF StatFile
  <2>2. cmd' \in Commands
    BY <1>1, <2>1 DEF Commands, CmdSteps
  <2>3. Changes({"at"}) /\ cmd'.at = "wait"
    BY <1>2, <2>1, <2>2 DEF Changes, Fields
  <2> QED
    BY <1>3, <1>4, <2>3
<1>5. CASE cmd.plan # <<>> /\ ~OnDisk(Head(cmd.plan))
  <2>1. cmd' = [cmd EXCEPT !.plan = Tail(cmd.plan), !.failed = TRUE]
    BY <1>5 DEF StatFile
  <2>2. Tail(cmd.plan) \in Seq(InTree)
    BY <1>1, <1>5
  <2>3. cmd' \in Commands
    BY <1>1, <2>1, <2>2 DEF Commands
  <2>4. Changes({"plan", "failed"}) /\ cmd'.failed
    BY <1>2, <2>1, <2>3 DEF Changes, Fields
  <2> QED
    BY <1>3, <2>4
<1>6. CASE cmd.plan # <<>> /\ OnDisk(Head(cmd.plan))
  <2>1. cmd' = [cmd EXCEPT !.at = "copy", !.caught = disk[Head(cmd.plan)]]
    BY <1>6 DEF StatFile
  <2>2. Head(cmd.plan) \in InTree /\ InTree \subseteq Names
    BY <1>1, <1>6, Assumed, HeadIn
  <2>3. disk[Head(cmd.plan)] \in States
    BY <1>1, <2>2
  <2>4. cmd' \in Commands
    BY <1>1, <2>1, <2>3 DEF Commands, CmdSteps
  <2>5. Changes({"at", "caught"}) /\ cmd'.at = "copy" /\ cmd'.caught = disk[Head(cmd.plan)]
    BY <1>2, <2>1, <2>4 DEF Changes, Fields
  <2> QED
    BY <1>3, <1>6, <2>5
<1> QED
  BY <1>4, <1>5, <1>6

\* The copy of a file is staged as it is now, under the attributes read before.
LEMMA CopyFacts ==
    ASSUME TreeTyped, cmd.plan # <<>>, cmd.caught.stamp # 0, StageCopy
    PROVE  /\ cmd.at = "copy" /\ UNCHANGED <<disk, library, writes>> /\ cmd'.at = "stat" /\ cmd'.plan = Tail(cmd.plan)
           /\ \/ UNCHANGED jobs /\ Changes({"at", "plan", "failed"}) /\ cmd'.failed
              \/ \E job \in Docs :
                     /\ Changes({"at", "plan", "held"}) /\ jobs' = jobs \union {job} /\ cmd'.held = cmd.held \union {job}
                     /\ job.name = Head(cmd.plan) /\ OnDisk(job.name) /\ job.stamp = cmd.caught.stamp
                     /\ job.body = disk[job.name].body
<1> DEFINE n == Head(cmd.plan)
           job == Filed(n, cmd.caught.stamp, disk[n].body)
<1>1. cmd \in Commands /\ cmd.plan \in Seq(InTree) /\ disk \in [Names -> States] /\ cmd.caught \in States
  BY DEF TreeTyped, Commands
<1>2. DOMAIN cmd = Fields
  BY <1>1 DEF Commands, Fields
<1>3. cmd.at = "copy" /\ UNCHANGED <<disk, library, writes>>
  BY DEF StageCopy, Counters
<1>4. Tail(cmd.plan) \in Seq(InTree) /\ n \in InTree /\ n \in Names
  BY <1>1, Assumed, HeadIn
<1>5. CASE ~OnDisk(n)
  <2>1. cmd' = [cmd EXCEPT !.at = "stat", !.plan = Tail(cmd.plan), !.failed = TRUE] /\ UNCHANGED jobs
    BY <1>5 DEF StageCopy
  <2>2. cmd' \in Commands
    BY <1>1, <1>4, <2>1 DEF Commands, CmdSteps
  <2>3. Changes({"at", "plan", "failed"}) /\ cmd'.failed /\ cmd'.at = "stat" /\ cmd'.plan = Tail(cmd.plan)
    BY <1>2, <2>1, <2>2 DEF Changes, Fields
  <2> QED
    BY <1>3, <2>1, <2>3
<1>6. CASE OnDisk(n)
  <2>1. /\ cmd' = [cmd EXCEPT !.at = "stat", !.plan = Tail(cmd.plan), !.held = cmd.held \union {job}]
        /\ jobs' = jobs \union {job}
    BY <1>6 DEF StageCopy
  <2>2. disk[n].body \in 1 .. MaxWrites /\ cmd.caught.stamp \in 1 .. MaxWrites
    <3> HIDE DEF n
    <3>1. disk[n] \in States /\ disk[n].body # 0
      BY <1>1, <1>4, <1>6 DEF OnDisk
    <3>2. \A s \in States : s.body \in 0 .. MaxWrites /\ s.stamp \in 0 .. MaxWrites
      BY DEF States
    <3>3. \A k \in 0 .. MaxWrites : k # 0 => k \in 1 .. MaxWrites
      BY Assumed
    <3> QED
      BY <1>1, <3>1, <3>2, <3>3
  <2>3. job \in Docs /\ job \in TreeDocs /\ job.name = n /\ job.stamp = cmd.caught.stamp /\ job.body = disk[n].body
    BY <1>4, <2>2 DEF Filed, Docs, TreeDocs
  <2> HIDE DEF job, n
  <2>4. cmd.held \union {job} \in SUBSET TreeDocs
    BY <1>1, <2>3 DEF Commands
  <2>5. cmd' \in Commands
    BY <1>1, <1>4, <2>1, <2>4 DEF Commands, CmdSteps
  <2>6. /\ Changes({"at", "plan", "held"}) /\ cmd'.at = "stat" /\ cmd'.plan = Tail(cmd.plan)
        /\ cmd'.held = cmd.held \union {job}
    BY <1>2, <2>1, <2>5 DEF Changes, Fields
  <2> QED
    BY <1>3, <1>6, <2>1, <2>3, <2>6 DEF n
<1> QED
  BY <1>5, <1>6

\* The tasks have ended, or one of them is given up.
LEMMA AwaitFacts ==
    ASSUME TreeTyped, AwaitJobs
    PROVE  /\ cmd.at = "wait" /\ cmd'.at = "purge" /\ UNCHANGED <<disk, library, jobs, writes>>
           /\ \/ Changes({"at"}) /\ (cmd.mode = "noWait" \/ TasksDone)
              \/ Changes({"at", "failed"}) /\ cmd'.failed
<1>1. cmd \in Commands
  BY DEF TreeTyped
<1>2. DOMAIN cmd = Fields
  BY <1>1 DEF Commands, Fields
<1>3. cmd.at = "wait" /\ UNCHANGED <<disk, library, jobs, writes>>
  BY DEF AwaitJobs, NothingElse
<1>4. ASSUME cmd' = [cmd EXCEPT !.at = "purge"]
      PROVE  Changes({"at"}) /\ cmd'.at = "purge"
  <2>1. cmd' \in Commands
    BY <1>1, <1>4 DEF Commands, CmdSteps
  <2> QED
    BY <1>2, <1>4, <2>1 DEF Changes, Fields
<1>5. ASSUME cmd' = [cmd EXCEPT !.at = "purge", !.failed = TRUE]
      PROVE  Changes({"at", "failed"}) /\ cmd'.failed /\ cmd'.at = "purge"
  <2>1. cmd' \in Commands
    BY <1>1, <1>5 DEF Commands, CmdSteps
  <2> QED
    BY <1>2, <1>5, <2>1 DEF Changes, Fields
<1>6. \/ cmd' = [cmd EXCEPT !.at = "purge"] /\ (cmd.mode = "noWait" \/ TasksDone)
      \/ cmd' = [cmd EXCEPT !.at = "purge", !.failed = TRUE]
  BY DEF AwaitJobs
<1> QED
  BY <1>3, <1>4, <1>5, <1>6

\* A source that is gone loses its document.
LEMMA PurgeFacts ==
    ASSUME TreeTyped, Purge
    PROVE  /\ cmd.at = "purge" /\ UNCHANGED <<disk, jobs, writes>> /\ First(cmd.gone) \in cmd.gone
           /\ library' = Without(library, First(cmd.gone))
           /\ Changes({"gone"}) /\ cmd'.gone = cmd.gone \ {First(cmd.gone)}
<1> DEFINE n == First(cmd.gone)
<1>1. cmd \in Commands /\ cmd.gone \subseteq InTree
  BY DEF TreeTyped, Commands
<1>2. DOMAIN cmd = Fields
  BY <1>1 DEF Commands, Fields
<1>3. n \in cmd.gone
  BY <1>1, FirstIn, Assumed DEF Purge
<1>4. cmd' = [cmd EXCEPT !.gone = cmd.gone \ {n}]
  BY DEF Purge
<1> HIDE DEF n
<1>5. cmd.gone \ {n} \in SUBSET InTree
  BY <1>1
<1>6. cmd' \in Commands
  BY <1>1, <1>4, <1>5 DEF Commands
<1>7. Changes({"gone"}) /\ cmd'.gone = cmd.gone \ {n}
  BY <1>2, <1>4, <1>6 DEF Changes, Fields
<1> QED
  BY <1>3, <1>7 DEF Purge, Counters, n

-----------------------------------------------------------------------------
(* Dates, absences and the library. *)

\* Without the documents of a name: the others are kept.
LEMMA WithoutRight ==
    ASSUME TreeTyped, OneEach(library), NEW n
    PROVE  /\ Without(library, n) \in Seq(Docs) /\ OneEach(Without(library, n))
           /\ ToSet(Without(library, n)) = {d \in ToSet(library) : d.name # n}
<1>1. library \in Seq(Docs)
  BY DEF TreeTyped
<1>2. \A d \in ToSet(library) : d.name \in Names
  <2>1. \A d \in ToSet(library) : d \in Docs
    BY <1>1 DEF ToSet
  <2> QED
    BY <2>1 DEF Docs
<1>3. /\ Without(library, n) \in Seq(Docs) /\ OneEach(Without(library, n))
      /\ ToSet(Without(library, n)) = {d \in ToSet(library) : d.name \in Names \ {n}}
  BY <1>1, NamedInRight DEF Without
<1> QED
  BY <1>2, <1>3

\* What is appended is one of the values.
LEMMA AppendedSet ==
    ASSUME NEW T, NEW s \in Seq(T), NEW x \in T
    PROVE  ToSet(Append(s, x)) = ToSet(s) \union {x}
<1> DEFINE r == Append(s, x)
<1>1. /\ r \in Seq(T) /\ Len(r) = Len(s) + 1 /\ r[Len(s) + 1] = x
      /\ \A i \in 1 .. Len(s) : r[i] = s[i]
  BY Appended
<1>2. Len(s) \in Nat /\ DOMAIN s = 1 .. Len(s)
  OBVIOUS
<1> HIDE DEF r
<1>3. DOMAIN r = 1 .. Len(s) + 1
  BY <1>1
<1>4. \A i \in 1 .. Len(s) + 1 : i \in 1 .. Len(s) \/ i = Len(s) + 1
  BY <1>2
<1>5. Len(s) + 1 \in 1 .. Len(s) + 1 /\ \A i \in 1 .. Len(s) : i \in 1 .. Len(s) + 1
  BY <1>2
<1>6. ToSet(r) \subseteq ToSet(s) \union {x}
  BY <1>1, <1>2, <1>3, <1>4 DEF ToSet
<1>7. ToSet(s) \union {x} \subseteq ToSet(r)
  BY <1>1, <1>2, <1>3, <1>5 DEF ToSet
<1> QED
  BY <1>6, <1>7 DEF r

\* The document that replaces those of its name.
LEMMA ReplacedRight ==
    ASSUME TreeTyped, OneEach(library), NEW j \in Docs
    PROVE  LET docs == Append(Without(library, j.name), j)
           IN  /\ docs \in Seq(Docs) /\ OneEach(docs)
               /\ ToSet(docs) = {d \in ToSet(library) : d.name # j.name} \union {j}
<1> DEFINE rest == Without(library, j.name)
           docs == Append(rest, j)
<1>1. /\ rest \in Seq(Docs) /\ OneEach(rest)
      /\ ToSet(rest) = {d \in ToSet(library) : d.name # j.name}
  BY WithoutRight
<1> HIDE DEF rest
<1>2. ToSet(docs) = ToSet(rest) \union {j}
  BY <1>1, AppendedSet
<1>3. /\ docs \in Seq(Docs) /\ Len(docs) = Len(rest) + 1 /\ docs[Len(rest) + 1] = j
      /\ \A i \in 1 .. Len(rest) : docs[i] = rest[i]
  BY <1>1, Appended
<1> HIDE DEF docs
<1>4. \A i \in 1 .. Len(rest) : rest[i].name # j.name
  <2>1. \A i \in 1 .. Len(rest) : rest[i] \in ToSet(rest)
    BY <1>1 DEF ToSet
  <2> QED
    BY <1>1, <2>1
<1>5. Len(rest) \in Nat /\ \A i \in 1 .. Len(docs) : i \in 1 .. Len(rest) \/ i = Len(rest) + 1
  BY <1>1, <1>3
<1>6. OneEach(docs)
  <2> SUFFICES ASSUME NEW i \in 1 .. Len(docs), NEW k \in 1 .. Len(docs), docs[i].name = docs[k].name
               PROVE  i = k
    BY DEF OneEach
  <2>1. CASE i \in 1 .. Len(rest) /\ k \in 1 .. Len(rest)
    BY <1>1, <1>3, <2>1 DEF OneEach
  <2>2. CASE i \in 1 .. Len(rest) /\ k = Len(rest) + 1
    BY <1>3, <1>4, <2>2
  <2>3. CASE k \in 1 .. Len(rest) /\ i = Len(rest) + 1
    BY <1>3, <1>4, <2>3
  <2> QED
    BY <1>5, <2>1, <2>2, <2>3
<1>7. ToSet(docs) = {d \in ToSet(library) : d.name # j.name} \union {j}
  BY <1>1, <1>2
<1> QED
  BY <1>3, <1>6, <1>7 DEF docs, rest

\* A step of the command alone: the disk and the library stay.
LEMMA CommandMoves ==
    ASSUME SafeInv, UNCHANGED <<disk, library, writes>>, jobs' \subseteq jobs, cmd' \in Commands,
           cmd'.at = "copy" => cmd'.plan # <<>> /\ cmd'.caught.stamp \in 1 .. writes,
           cmd'.at # "none" => \A n \in Names : ~OnDisk(n) => n \in cmd'.absent,
           cmd'.gone \subseteq cmd'.absent
    PROVE  SafeInv'
<1>1. TreeTyped' /\ Dated' /\ OneEach(library)'
  BY DEF SafeInv, TreeTyped, Dated, OneEach
<1>2. Stamped' /\ Current'
  BY DEF SafeInv, Stamped, Current
<1>3. CaughtDated' /\ Absences' /\ GoneAbsent'
  BY DEF CaughtDated, Absences, GoneAbsent, Running, OnDisk
<1> QED
  BY <1>1, <1>2, <1>3 DEF SafeInv

\* One of the steps that leave the fields of the command's promises alone.
LEMMA CommandGoesOn ==
    ASSUME SafeInv, UNCHANGED <<disk, library, writes>>, jobs' \subseteq jobs, NEW F, Changes(F),
           "absent" \notin F, "gone" \notin F, "at" \in F => cmd.at # "none",
           "plan" \in F \/ "caught" \in F => cmd.at # "copy",
           "at" \in F => cmd'.at # "copy"
    PROVE  SafeInv'
<1>1. cmd' \in Commands /\ cmd'.absent = cmd.absent /\ cmd'.gone = cmd.gone
  BY DEF Changes, Fields
<1>2. cmd'.at # "none" => cmd.at # "none"
  BY DEF Changes, Fields
<1>3. cmd'.at = "copy" => cmd.at = "copy" /\ cmd'.plan = cmd.plan /\ cmd'.caught = cmd.caught
  BY DEF Changes, Fields
<1>4. cmd'.at = "copy" => cmd'.plan # <<>> /\ cmd'.caught.stamp \in 1 .. writes
  BY <1>3 DEF SafeInv, CaughtDated
<1>5. cmd'.at # "none" => \A n \in Names : ~OnDisk(n) => n \in cmd'.absent
  BY <1>1, <1>2 DEF SafeInv, Absences, Running
<1>6. cmd'.gone \subseteq cmd'.absent
  BY <1>1 DEF SafeInv, GoneAbsent
<1> QED
  BY <1>1, <1>4, <1>5, <1>6, CommandMoves

\* The command ends, whatever becomes of its tasks.
LEMMA CommandEnds ==
    ASSUME SafeInv, UNCHANGED <<disk, library, writes>>, jobs' \subseteq jobs, cmd' = NoCmd
    PROVE  SafeInv'
<1>1. cmd' \in Commands /\ cmd'.at = "none" /\ cmd'.gone = {}
  BY NoCommand DEF NoCmd
<1> QED
  BY <1>1, CommandMoves

\* A file of the tree is written.
LEMMA WriteKeeps ==
    ASSUME SafeInv, NEW n \in Names, WriteFile(n)
    PROVE  SafeInv'
<1>1. PICK stamp \in 1 .. writes' :
         /\ disk' = [disk EXCEPT ![n] = [body |-> writes', stamp |-> stamp]]
         /\ ~SameStamp => stamp = writes'
  BY WriteFacts DEF SafeInv
<1>2. /\ Changes({"quiet"}) /\ writes' = writes + 1 /\ writes' \in 0 .. MaxWrites
      /\ UNCHANGED <<library, jobs>>
  BY WriteFacts DEF SafeInv
<1>3. writes \in Nat /\ MaxWrites \in Nat /\ disk \in [Names -> States] /\ writes' \in 1 .. MaxWrites
  BY <1>2, Assumed DEF SafeInv, TreeTyped
<1>4. /\ disk'[n] = [body |-> writes', stamp |-> stamp]
      /\ \A m \in Names : m # n => disk'[m] = disk[m]
  BY <1>1, <1>3
<1>5. TreeTyped'
  <2>1. [body |-> writes', stamp |-> stamp] \in States
    BY <1>3 DEF States
  <2>2. disk' \in [Names -> States]
    BY <1>1, <1>3, <2>1
  <2> QED
    BY <1>2, <2>2 DEF SafeInv, TreeTyped, Changes
<1>6. Dated'
  <2> SUFFICES ASSUME NEW m \in Names
               PROVE  (disk'[m].body = 0 <=> disk'[m].stamp = 0) /\ disk'[m].stamp <= writes'
    BY DEF Dated
  <2>1. CASE m = n
    BY <1>3, <1>4, <2>1
  <2>2. CASE m # n
    <3>1. disk[m] \in States /\ disk[m].stamp \in Nat
      BY <1>3 DEF States
    <3>2. (disk[m].body = 0 <=> disk[m].stamp = 0) /\ disk[m].stamp <= writes
      BY DEF SafeInv, Dated
    <3> QED
      BY <1>2, <1>3, <1>4, <2>2, <3>1, <3>2
  <2> QED
    BY <2>1, <2>2
<1>7. \A d \in ToSet(library) \union jobs : d \in Docs /\ d.stamp \in Nat /\ d.stamp <= writes
  <2>1. \A d \in ToSet(library) : d \in Docs
    BY DEF SafeInv, TreeTyped, ToSet
  <2>2. \A d \in Docs : d.stamp \in Nat
    BY Assumed DEF Docs
  <2> QED
    BY <2>1, <2>2 DEF SafeInv, TreeTyped, Stamped
<1>8. Stamped'
  <2>1. \A d \in ToSet(library) \union jobs : d.stamp <= writes'
    BY <1>2, <1>3, <1>7
  <2> QED
    BY <1>2, <2>1 DEF Stamped
<1>9. Current'
  <2> SUFFICES ASSUME ~SameStamp, NEW d \in ToSet(library) \union jobs, d.stamp = disk'[d.name].stamp
               PROVE  d.body = disk'[d.name].body
    BY <1>2 DEF Current
  <2>1. d.name \in Names
    BY <1>7 DEF Docs
  <2>2. CASE d.name = n
    <3>1. d.stamp = writes'
      BY <1>1, <1>4, <2>2
    <3> QED
      BY <1>2, <1>3, <1>7, <3>1
  <2>3. CASE d.name # n
    <3>1. disk'[d.name] = disk[d.name]
      BY <1>4, <2>1, <2>3
    <3> QED
      BY <3>1 DEF SafeInv, Current
  <2> QED
    BY <2>2, <2>3
<1>10. /\ cmd'.at = cmd.at /\ cmd'.plan = cmd.plan /\ cmd'.caught = cmd.caught
       /\ cmd'.absent = cmd.absent /\ cmd'.gone = cmd.gone
  BY <1>2 DEF Changes, Fields
<1>11. CaughtDated'
  <2>1. 1 .. writes \subseteq 1 .. writes'
    BY <1>2, <1>3
  <2> QED
    BY <1>10, <2>1 DEF SafeInv, CaughtDated
<1>12. Absences'
  <2> SUFFICES ASSUME cmd.at # "none", NEW m \in Names, disk'[m].body = 0
               PROVE  m \in cmd.absent
    BY <1>10 DEF Absences, Running, OnDisk
  <2>1. m # n
    BY <1>2, <1>3, <1>4
  <2> QED
    BY <1>4, <2>1 DEF SafeInv, Absences, Running, OnDisk
<1>13. GoneAbsent' /\ OneEach(library)'
  BY <1>2, <1>10 DEF SafeInv, GoneAbsent, OneEach
<1> QED
  BY <1>5, <1>6, <1>8, <1>9, <1>11, <1>12, <1>13 DEF SafeInv

\* A file is removed.
LEMMA RemoveKeeps ==
    ASSUME SafeInv, NEW n \in Names, RemoveFromDisk(n)
    PROVE  SafeInv'
<1>1. /\ Changes({"quiet", "absent"})
      /\ Running => cmd'.absent = cmd.absent \union {n}
      /\ ~Running => cmd' = cmd
      /\ writes' = writes + 1 /\ writes' \in 0 .. MaxWrites
      /\ disk' = [disk EXCEPT ![n] = NoFile]
      /\ UNCHANGED <<library, jobs>>
  BY RemoveFacts DEF SafeInv
<1>2. writes \in Nat /\ MaxWrites \in Nat /\ disk \in [Names -> States]
  BY Assumed DEF SafeInv, TreeTyped
<1>3. /\ disk'[n] = NoFile
      /\ \A m \in Names : m # n => disk'[m] = disk[m]
  BY <1>1, <1>2
<1>4. TreeTyped'
  <2>1. NoFile \in States
    BY <1>2 DEF States, NoFile
  <2>2. disk' \in [Names -> States]
    BY <1>1, <1>2, <2>1
  <2> QED
    BY <1>1, <2>2 DEF SafeInv, TreeTyped, Changes
<1>5. Dated'
  <2> SUFFICES ASSUME NEW m \in Names
               PROVE  (disk'[m].body = 0 <=> disk'[m].stamp = 0) /\ disk'[m].stamp <= writes'
    BY DEF Dated
  <2>1. CASE m = n
    BY <1>1, <1>2, <1>3, <2>1 DEF NoFile
  <2>2. CASE m # n
    <3>1. disk[m] \in States /\ disk[m].stamp \in Nat
      BY <1>2 DEF States
    <3>2. (disk[m].body = 0 <=> disk[m].stamp = 0) /\ disk[m].stamp <= writes
      BY DEF SafeInv, Dated
    <3> QED
      BY <1>1, <1>2, <1>3, <2>2, <3>1, <3>2
  <2> QED
    BY <2>1, <2>2
<1>6. \A d \in ToSet(library) \union jobs : d \in Docs /\ d.stamp \in 1 .. MaxWrites /\ d.stamp <= writes
  <2>1. \A d \in ToSet(library) : d \in Docs
    BY DEF SafeInv, TreeTyped, ToSet
  <2>2. \A d \in Docs : d.stamp \in 1 .. MaxWrites
    BY DEF Docs
  <2> QED
    BY <2>1, <2>2 DEF SafeInv, TreeTyped, Stamped
<1>7. Stamped'
  <2>1. \A d \in ToSet(library) \union jobs : d.stamp <= writes'
    BY <1>1, <1>2, <1>6
  <2> QED
    BY <1>1, <2>1 DEF Stamped
<1>8. Current'
  <2> SUFFICES ASSUME ~SameStamp, NEW d \in ToSet(library) \union jobs, d.stamp = disk'[d.name].stamp
               PROVE  d.body = disk'[d.name].body
    BY <1>1 DEF Current
  <2>1. d.name \in Names
    BY <1>6 DEF Docs
  <2>2. d.name # n
    BY <1>2, <1>3, <1>6 DEF NoFile
  <2>3. disk'[d.name] = disk[d.name]
    BY <1>3, <2>1, <2>2
  <2> QED
    BY <2>3 DEF SafeInv, Current
<1>9. /\ cmd'.at = cmd.at /\ cmd'.plan = cmd.plan /\ cmd'.caught = cmd.caught
      /\ cmd.absent \subseteq cmd'.absent /\ cmd'.gone = cmd.gone
  BY <1>1 DEF Changes, Fields
<1>10. CaughtDated'
  <2>1. 1 .. writes \subseteq 1 .. writes'
    BY <1>1, <1>2
  <2> QED
    BY <1>9, <2>1 DEF SafeInv, CaughtDated
<1>11. Absences'
  <2> SUFFICES ASSUME cmd.at # "none", NEW m \in Names, disk'[m].body = 0
               PROVE  m \in cmd'.absent
    BY <1>9 DEF Absences, Running, OnDisk
  <2>1. CASE m = n
    BY <1>1, <2>1 DEF Running
  <2>2. CASE m # n
    <3>1. m \in cmd.absent
      BY <1>3, <2>2 DEF SafeInv, Absences, Running, OnDisk
    <3> QED
      BY <1>9, <3>1
  <2> QED
    BY <2>1, <2>2
<1>12. GoneAbsent' /\ OneEach(library)'
  BY <1>1, <1>9 DEF SafeInv, GoneAbsent, OneEach
<1> QED
  BY <1>4, <1>5, <1>7, <1>8, <1>10, <1>11, <1>12 DEF SafeInv

\* A task is added for a file that is there.
LEMMA AddKeeps ==
    ASSUME SafeInv, NEW n \in Names, AddFile(n)
    PROVE  SafeInv'
<1> DEFINE job == Filed(n, disk[n].stamp, disk[n].body)
<1>1. jobs' = jobs \union {job} /\ UNCHANGED <<disk, library, cmd, writes>> /\ disk[n].body # 0
  BY DEF AddFile, OnDisk
<1>2. job.name = n /\ job.stamp = disk[n].stamp /\ job.body = disk[n].body
  BY DEF Filed
<1>3. disk[n].stamp <= writes /\ disk[n].stamp # 0
  BY <1>1 DEF SafeInv, Dated
<1>4. job \in Docs
  <2>1. disk[n] \in States
    BY DEF SafeInv, TreeTyped
  <2>2. disk[n].body \in 0 .. MaxWrites /\ disk[n].stamp \in 0 .. MaxWrites
    BY <2>1 DEF States
  <2>3. disk[n].body \in 1 .. MaxWrites /\ disk[n].stamp \in 1 .. MaxWrites
    BY <1>1, <1>3, <2>2, Assumed
  <2> QED
    BY <2>3 DEF Filed, Docs
<1> HIDE DEF job
<1>5. TreeTyped' /\ Dated' /\ OneEach(library)'
  BY <1>1, <1>4 DEF SafeInv, TreeTyped, Dated, OneEach
<1>6. Stamped' /\ Current'
  BY <1>1, <1>2, <1>3 DEF SafeInv, Stamped, Current
<1>7. CaughtDated' /\ Absences' /\ GoneAbsent'
  BY <1>1 DEF SafeInv, CaughtDated, Absences, GoneAbsent, Running, OnDisk
<1> QED
  BY <1>5, <1>6, <1>7 DEF SafeInv

\* The library may lose documents, and gain one that was a task.
LEMMA LibraryMoves ==
    ASSUME SafeInv, UNCHANGED <<disk, writes>>, jobs' \subseteq jobs, NEW F, Changes(F),
           "absent" \notin F, "at" \notin F, "plan" \notin F, "caught" \notin F, cmd'.gone \subseteq cmd.gone,
           library' \in Seq(Docs), OneEach(library'), ToSet(library') \subseteq ToSet(library) \union jobs
    PROVE  SafeInv'
<1>1. TreeTyped' /\ Dated' /\ OneEach(library)'
  BY DEF SafeInv, TreeTyped, Dated, OneEach, Changes
<1>2. Stamped' /\ Current'
  BY DEF SafeInv, Stamped, Current
<1>3. /\ cmd'.at = cmd.at /\ cmd'.plan = cmd.plan /\ cmd'.caught = cmd.caught /\ cmd'.absent = cmd.absent
  BY DEF Changes, Fields
<1>4. CaughtDated' /\ Absences' /\ GoneAbsent'
  BY <1>3 DEF SafeInv, CaughtDated, Absences, GoneAbsent, Running, OnDisk
<1> QED
  BY <1>1, <1>2, <1>4 DEF SafeInv

\* A task ends.
LEMMA RunKeeps ==
    ASSUME SafeInv, NEW j \in jobs, RunJob(j)
    PROVE  SafeInv'
<1>1. /\ jobs' = jobs \ {j} /\ UNCHANGED <<disk, writes>> /\ Changes({"failed", "held"})
      /\ \/ library' = Append(Without(library, j.name), j)
         \/ library' \in {library, Without(library, j.name)}
  BY RunFacts DEF SafeInv
<1>2. j \in Docs /\ library \in Seq(Docs) /\ OneEach(library)
  BY DEF SafeInv, TreeTyped
<1>3. library' \in Seq(Docs) /\ OneEach(library') /\ ToSet(library') \subseteq ToSet(library) \union jobs
  <2>1. CASE library' = Append(Without(library, j.name), j)
    BY <1>2, <2>1, ReplacedRight DEF SafeInv
  <2>2. CASE library' = library
    BY <1>2, <2>2
  <2>3. CASE library' = Without(library, j.name)
    BY <1>2, <2>3, WithoutRight DEF SafeInv
  <2> QED
    BY <1>1, <2>1, <2>2, <2>3
<1>4. cmd'.gone \subseteq cmd.gone
  BY <1>1 DEF Changes, Fields
<1> QED
  BY <1>1, <1>3, <1>4, LibraryMoves

\* What is gone loses its document.
LEMMA PurgeKeeps ==
    ASSUME SafeInv, Purge
    PROVE  SafeInv'
<1>1. /\ UNCHANGED <<disk, jobs, writes>> /\ Changes({"gone"})
      /\ cmd'.gone \subseteq cmd.gone /\ library' = Without(library, First(cmd.gone))
  BY PurgeFacts DEF SafeInv
<1>2. library' \in Seq(Docs) /\ OneEach(library') /\ ToSet(library') \subseteq ToSet(library) \union jobs
  BY <1>1, WithoutRight DEF SafeInv
<1> QED
  BY <1>1, <1>2, LibraryMoves

\* A sync begins: what is missing by then is the first of what it finds missing.
LEMMA StartKeeps ==
    ASSUME SafeInv, NEW match \in Patterns, StartSync(match)
    PROVE  SafeInv'
<1>1. /\ cmd' \in Commands /\ cmd'.at = "list" /\ cmd'.gone = {}
      /\ cmd'.absent = {n \in Names : ~OnDisk(n)}
      /\ UNCHANGED <<disk, library, jobs, writes>>
  BY StartFacts DEF SafeInv
<1>2. \A n \in Names : ~OnDisk(n) => n \in cmd'.absent
  BY <1>1
<1> QED
  BY <1>1, <1>2, CommandMoves

\* A source that is not on disk by now was missing while the command ran.
LEMMA FindKeeps ==
    ASSUME SafeInv, FindGone
    PROVE  SafeInv'
<1> DEFINE n == First(cmd.left)
<1>1. /\ cmd.at = "gone" /\ UNCHANGED <<disk, library, jobs, writes>>
      /\ \/ cmd' = NoCmd
         \/ Changes({"at"}) /\ cmd'.at = "stat"
         \/ /\ Changes({"left", "gone"}) /\ n \in cmd.left
            /\ cmd'.gone = IF OnDisk(n) THEN cmd.gone ELSE cmd.gone \union {n}
  BY GoneFacts DEF SafeInv
<1> HIDE DEF n
<1>2. CASE cmd' = NoCmd
  BY <1>1, <1>2, CommandEnds
<1>3. CASE Changes({"at"}) /\ cmd'.at = "stat"
  BY <1>1, <1>3, CommandGoesOn
<1>4. CASE /\ Changes({"left", "gone"}) /\ n \in cmd.left
           /\ cmd'.gone = IF OnDisk(n) THEN cmd.gone ELSE cmd.gone \union {n}
  <2>1. n \in Names
    BY <1>4, Assumed DEF SafeInv, TreeTyped, Commands
  <2>2. cmd' \in Commands /\ cmd'.at = "gone" /\ cmd'.absent = cmd.absent
    BY <1>1, <1>4 DEF Changes, Fields
  <2>3. \A m \in Names : ~OnDisk(m) => m \in cmd.absent
    BY <1>1 DEF SafeInv, Absences, Running
  <2>4. cmd'.gone \subseteq cmd'.absent
    BY <1>4, <2>1, <2>2, <2>3 DEF SafeInv, GoneAbsent
  <2> QED
    BY <1>1, <2>2, <2>3, <2>4, CommandMoves
<1> QED
  BY <1>1, <1>2, <1>3, <1>4

\* The attributes of a file that is there have a date.
LEMMA StatKeeps ==
    ASSUME SafeInv, StatFile
    PROVE  SafeInv'
<1>1. /\ cmd.at = "stat" /\ UNCHANGED <<disk, library, jobs, writes>>
      /\ \/ Changes({"at"}) /\ cmd'.at = "wait"
         \/ Changes({"plan", "failed"})
         \/ /\ cmd.plan # <<>> /\ Changes({"at", "caught"}) /\ cmd'.at = "copy"
            /\ OnDisk(Head(cmd.plan)) /\ cmd'.caught = disk[Head(cmd.plan)]
  BY StatFacts DEF SafeInv
<1>2. CASE Changes({"at"}) /\ cmd'.at = "wait"
  BY <1>1, <1>2, CommandGoesOn
<1>3. CASE Changes({"plan", "failed"})
  BY <1>1, <1>3, CommandGoesOn
<1>4. CASE /\ cmd.plan # <<>> /\ Changes({"at", "caught"}) /\ cmd'.at = "copy"
           /\ OnDisk(Head(cmd.plan)) /\ cmd'.caught = disk[Head(cmd.plan)]
  <2> DEFINE n == Head(cmd.plan)
  <2>1. n \in Names
    <3>1. cmd.plan \in Seq(InTree)
      BY DEF SafeInv, TreeTyped, Commands
    <3> QED
      BY <1>4, <3>1, HeadIn, Assumed
  <2> HIDE DEF n
  <2>2. disk[n] \in States /\ disk[n].stamp # 0 /\ disk[n].stamp <= writes /\ writes \in Nat
    <3>1. disk[n].body # 0
      BY <1>4 DEF OnDisk, n
    <3> QED
      BY <2>1, <3>1, Assumed DEF SafeInv, TreeTyped, Dated
  <2>3. disk[n].stamp \in 1 .. writes
    <3>1. disk[n].stamp \in 0 .. MaxWrites
      BY <2>2 DEF States
    <3> QED
      BY <2>2, <3>1, Assumed
  <2>4. /\ cmd' \in Commands /\ cmd'.plan = cmd.plan /\ cmd'.absent = cmd.absent /\ cmd'.gone = cmd.gone
    BY <1>4 DEF Changes, Fields
  <2>5. cmd'.caught.stamp \in 1 .. writes /\ cmd'.plan # <<>>
    BY <1>4, <2>3, <2>4 DEF n
  <2>6. \A m \in Names : ~OnDisk(m) => m \in cmd'.absent
    BY <1>1, <2>4 DEF SafeInv, Absences, Running
  <2>7. cmd'.gone \subseteq cmd'.absent
    BY <2>4 DEF SafeInv, GoneAbsent
  <2> QED
    BY <1>1, <2>4, <2>5, <2>6, <2>7, CommandMoves
<1> QED
  BY <1>1, <1>2, <1>3, <1>4

\* A copy is dated when the attributes were, and current when their stamp is.
LEMMA CopyKeeps ==
    ASSUME SafeInv, StageCopy
    PROVE  SafeInv'
<1>1. cmd.plan # <<>> /\ cmd.caught.stamp \in 1 .. writes /\ cmd.caught.stamp # 0
  BY DEF SafeInv, CaughtDated, StageCopy
<1>2. /\ cmd.at = "copy" /\ UNCHANGED <<disk, library, writes>> /\ cmd'.at = "stat"
      /\ \/ UNCHANGED jobs /\ Changes({"at", "plan", "failed"})
         \/ \E job \in Docs :
                /\ Changes({"at", "plan", "held"}) /\ jobs' = jobs \union {job}
                /\ job.stamp = cmd.caught.stamp /\ job.body = disk[job.name].body
  BY <1>1, CopyFacts DEF SafeInv
<1>3. /\ cmd' \in Commands /\ cmd'.absent = cmd.absent /\ cmd'.gone = cmd.gone
  BY <1>2 DEF Changes, Fields
<1>4. CaughtDated' /\ Absences' /\ GoneAbsent'
  BY <1>2, <1>3 DEF SafeInv, CaughtDated, Absences, GoneAbsent, Running, OnDisk
<1>5. CASE UNCHANGED jobs
  <2>1. TreeTyped' /\ Dated' /\ OneEach(library)' /\ Stamped' /\ Current'
    BY <1>2, <1>3, <1>5 DEF SafeInv, TreeTyped, Dated, OneEach, Stamped, Current
  <2> QED
    BY <1>4, <2>1 DEF SafeInv
<1>6. CASE \E job \in Docs :
              /\ jobs' = jobs \union {job}
              /\ job.stamp = cmd.caught.stamp /\ job.body = disk[job.name].body
  <2>1. PICK job \in Docs :
              /\ jobs' = jobs \union {job}
              /\ job.stamp = cmd.caught.stamp /\ job.body = disk[job.name].body
    BY <1>6
  <2>2. job.stamp <= writes
    BY <1>1, <2>1
  <2>3. TreeTyped' /\ Dated' /\ OneEach(library)'
    BY <1>2, <1>3, <2>1 DEF SafeInv, TreeTyped, Dated, OneEach
  <2>4. Stamped'
    BY <1>2, <2>1, <2>2 DEF SafeInv, Stamped
  <2>5. Current'
    BY <1>2, <2>1 DEF SafeInv, Current
  <2> QED
    BY <1>4, <2>3, <2>4, <2>5 DEF SafeInv
<1> QED
  BY <1>2, <1>5, <1>6

\* No file, no document and no command are dated.
LEMMA SafeInit == ASSUME TreeInit PROVE SafeInv
<1>1. NoFile \in States /\ 0 \in 0 .. MaxWrites
  BY Assumed DEF States, NoFile
<1>2. TreeTyped
  BY <1>1, NoCommand DEF TreeInit, TreeTyped
<1>3. ToSet(library) = {} /\ Len(library) = 0
  BY DEF TreeInit, ToSet
<1>4. OneEach(library) /\ Stamped /\ Current
  BY <1>3 DEF TreeInit, OneEach, Stamped, Current
<1>5. Dated
  BY DEF TreeInit, Dated, NoFile
<1>6. CaughtDated /\ Absences /\ GoneAbsent
  BY DEF TreeInit, CaughtDated, Absences, GoneAbsent, Running, NoCmd
<1> QED
  BY <1>2, <1>4, <1>5, <1>6 DEF SafeInv

\* Every step keeps the dates, the absences and the library.
LEMMA SafeStep ==
    ASSUME SafeInv, [TreeNext]_treeVars
    PROVE  SafeInv'
<1>1. CASE \E n \in Names : WriteFile(n)
  BY <1>1, WriteKeeps
<1>2. CASE \E n \in Names : RemoveFromDisk(n)
  BY <1>2, RemoveKeeps
<1>3. CASE \E n \in Names : AddFile(n)
  BY <1>3, AddKeeps
<1>4. CASE \E j \in jobs : RunJob(j)
  BY <1>4, RunKeeps
<1>5. CASE \E match \in Patterns : StartSync(match)
  BY <1>5, StartKeeps
<1>6. CASE ListDigests
  <2>1. /\ Changes({"known", "page", "at", "left"}) /\ UNCHANGED <<disk, library, jobs, writes>>
        /\ cmd.at = "list" /\ cmd'.at \in {"walk", "list"}
    BY <1>6, ListFacts DEF SafeInv
  <2> QED
    BY <2>1, CommandGoesOn
<1>7. CASE WalkEntry
  <2>1. /\ cmd.at = "walk" /\ UNCHANGED <<disk, library, jobs, writes>>
        /\ cmd' = NoCmd \/ Changes({"left", "seen", "plan"})
    BY <1>7, WalkFacts DEF SafeInv
  <2> QED
    BY <2>1, CommandEnds, CommandGoesOn
<1>8. CASE WalkEnds
  <2>1. /\ cmd.at = "walk" /\ UNCHANGED <<disk, library, jobs, writes>>
        /\ Changes({"at", "left"}) /\ cmd'.at = "gone"
    BY <1>8, WalkEndsFacts DEF SafeInv
  <2> QED
    BY <2>1, CommandGoesOn
<1>9. CASE FindGone
  BY <1>9, FindKeeps
<1>10. CASE StatFile
  BY <1>10, StatKeeps
<1>11. CASE StageCopy
  BY <1>11, CopyKeeps
<1>12. CASE AwaitJobs
  <2>1. /\ cmd.at = "wait" /\ cmd'.at = "purge" /\ UNCHANGED <<disk, library, jobs, writes>>
        /\ Changes({"at"}) \/ Changes({"at", "failed"})
    BY <1>12, AwaitFacts DEF SafeInv
  <2> QED
    BY <2>1, CommandGoesOn
<1>13. CASE Purge
  BY <1>13, PurgeKeeps
<1>14. CASE SyncEnds
  <2>1. UNCHANGED <<disk, library, jobs, writes>> /\ cmd' = NoCmd
    BY <1>14 DEF SyncEnds, AtEnd, NothingElse, Counters
  <2> QED
    BY <2>1, CommandEnds
<1>15. CASE CmdKilled
  <2>1. UNCHANGED <<disk, library, writes>> /\ jobs' \subseteq jobs /\ cmd' = NoCmd
    BY <1>15 DEF CmdKilled, AtEnd
  <2> QED
    BY <2>1, CommandEnds
<1>16. CASE UNCHANGED treeVars
  <2>1. UNCHANGED <<disk, library, jobs, writes, cmd>>
    BY <1>16 DEF treeVars
  <2>2. TreeTyped' /\ Dated' /\ OneEach(library)' /\ Stamped' /\ Current'
    BY <2>1 DEF SafeInv, TreeTyped, Dated, OneEach, Stamped, Current
  <2>3. CaughtDated' /\ Absences' /\ GoneAbsent'
    BY <2>1 DEF SafeInv, CaughtDated, Absences, GoneAbsent, Running, OnDisk
  <2> QED
    BY <2>2, <2>3 DEF SafeInv
<1> QED
  BY <1>1, <1>2, <1>3, <1>4, <1>5, <1>6, <1>7, <1>8, <1>9, <1>10, <1>11, <1>12, <1>13, <1>14, <1>15, <1>16 DEF TreeNext

\* The types and, unless two writes can have one stamp, what is skipped.
LEMMA SafeKept ==
    ASSUME SafeInv
    PROVE  TreeTypeOK /\ (~SameStamp => SkippedIsCurrent)
<1>1. \A n \in Names : disk[n].body \in 0 .. MaxWrites /\ (disk[n].body = 0 <=> disk[n].stamp = 0)
  <2> SUFFICES ASSUME NEW n \in Names
               PROVE  disk[n].body \in 0 .. MaxWrites /\ (disk[n].body = 0 <=> disk[n].stamp = 0)
    OBVIOUS
  <2>1. disk[n] \in States
    BY DEF SafeInv, TreeTyped
  <2>2. disk[n].body \in 0 .. MaxWrites
    BY <2>1 DEF States
  <2> QED
    BY <2>2 DEF SafeInv, Dated
<1>2. library \in Seq(Docs) /\ DOMAIN library = 1 .. Len(library) /\ OneEach(library)
  BY DEF SafeInv, TreeTyped
<1>3. IsInjective([i \in DOMAIN library |-> library[i].name])
  BY <1>2 DEF IsInjective, OneEach
<1>4. ToSet(library) \union jobs \subseteq Docs
  BY <1>2 DEF SafeInv, TreeTyped, ToSet
<1>5. cmd.seen \subseteq InTree /\ cmd.gone \subseteq InTree /\ cmd.held \subseteq TreeDocs
  BY DEF SafeInv, TreeTyped, Commands
<1>6. TreeTypeOK
  BY <1>1, <1>3, <1>4, <1>5 DEF TreeTypeOK, Docs, TreeDocs
<1>7. ~SameStamp => SkippedIsCurrent
  BY DEF SafeInv, Current, SkippedIsCurrent
<1> QED
  BY <1>6, <1>7

\* Only a purge takes a document out of the library and leaves the tasks alone.
LEMMA DeletesGone ==
    ASSUME SafeInv, [TreeNext]_treeVars, NEW d \in ToSet(library), DocsOf(d.name)' = {}, jobs' = jobs
    PROVE  d.name \in cmd.absent \intersect InTree
<1>1. library' # library
  BY DEF DocsOf
<1>2. ~\E j \in jobs : RunJob(j)
  BY DEF RunJob
<1>3. Purge
  BY <1>1, <1>2 DEF TreeNext, treeVars, WriteFile, RemoveFromDisk, AddFile, StartSync, ListDigests, WalkEntry, WalkEnds,
     FindGone, StatFile, StageCopy, AwaitJobs, SyncEnds, CmdKilled, NothingElse
<1>4. First(cmd.gone) \in cmd.gone /\ library' = Without(library, First(cmd.gone))
  BY <1>3, PurgeFacts DEF SafeInv
<1>5. ToSet(library') = {e \in ToSet(library) : e.name # First(cmd.gone)}
  BY <1>4, WithoutRight DEF SafeInv
<1>6. d \notin ToSet(library')
  BY DEF DocsOf
<1>7. d.name = First(cmd.gone)
  BY <1>5, <1>6
<1>8. cmd.gone \subseteq InTree /\ cmd.gone \subseteq cmd.absent
  BY DEF SafeInv, TreeTyped, Commands, GoneAbsent
<1> QED
  BY <1>4, <1>7, <1>8

-----------------------------------------------------------------------------
(* A sync with nothing else at work. *)

TagOf(d) == [name |-> d.name, stamp |-> d.stamp]
TreeIndexed == {d \in ToSet(library) : d.name \in InTree}

Wanted(n) == n \in InTree \intersect cmd.match /\ OnDisk(n) /\ ~IsIgnored(n)
Indexed(n) == \E d \in ToSet(library) : d.name = n /\ d.body = disk[n].body
Planned(n) == \E m \in ToSet(cmd.plan) : m = n
Underway(n) == \E j \in jobs : j.name = n
Strays == {d \in TreeIndexed : ~OnDisk(d.name)}

\* The tags of the first documents of the tree.
TagsUpTo(docs, k) == {TagOf(docs[i]) : i \in {i \in 1 .. Len(docs) : i <= k}}

\* The tasks are those of the command, of files as they are.
QuietJobs == \A j \in jobs : j \in cmd.held /\ OnDisk(j.name) /\ j.body = disk[j.name].body

\* What was missing is missing, what was seen is there.
QuietDisk == (\A n \in cmd.absent : ~OnDisk(n)) /\ (\A n \in cmd.seen : OnDisk(n))

\* Nothing runs before the files are scheduled.
NothingRuns == cmd.at \in {"list", "walk", "gone"} => jobs = {}

\* The pages that were read are known, and in the end the whole tree.
Listed == cmd.at = "list" => cmd.known = TagsUpTo(NamedIn(library, InTree), cmd.page * DigestPage)
Known == cmd.at = "walk" => cmd.known = {TagOf(d) : d \in TreeIndexed}

\* A file that is wanted is to be walked, planned, under way or indexed; until it
\* failed, so it stays.
Walked == cmd.at = "walk" => \A n \in Names : Wanted(n) => n \in cmd.left \/ Planned(n) \/ Indexed(n)
Found == cmd.at = "gone" => \A n \in Names : Wanted(n) => Planned(n) \/ Indexed(n)
Served ==
    cmd.at \in {"stat", "copy", "wait", "purge"} /\ ~cmd.failed =>
        \A n \in Names : Wanted(n) => Planned(n) \/ Underway(n) \/ Indexed(n)

\* A document without its file is to be looked for, or gone.
StraysFound ==
    /\ cmd.at = "gone" => \A d \in Strays : d.name \in cmd.left \union cmd.gone
    /\ cmd.at \in {"stat", "copy", "wait", "purge"} => \A d \in Strays : d.name \in cmd.gone

\* What was planned was scheduled, and in the end nothing runs.
PlanDone == cmd.at \in {"wait", "purge"} => cmd.plan = <<>>
JobsDone == cmd.at = "purge" /\ cmd.mode = "wait" /\ ~cmd.failed => jobs = {}

Undisturbed ==
    /\ QuietJobs
    /\ QuietDisk
    /\ NothingRuns
    /\ Listed
    /\ Known
    /\ Walked
    /\ Found
    /\ Served
    /\ StraysFound
    /\ PlanDone
    /\ JobsDone

QuietInv == ~SameStamp /\ Running /\ cmd.quiet => Undisturbed

\* A sync begins with nothing at work.
LEMMA StartQuiet ==
    ASSUME SafeInv, NEW match \in Patterns, StartSync(match), cmd'.quiet
    PROVE  Undisturbed'
<1>1. /\ cmd'.at = "list" /\ cmd'.page = 0 /\ cmd'.known = {} /\ cmd'.seen = {}
      /\ cmd'.absent = {n \in Names : ~OnDisk(n)} /\ UNCHANGED <<disk, library, jobs>> /\ jobs = {}
  BY StartFacts DEF SafeInv
<1>2. QuietJobs' /\ QuietDisk' /\ NothingRuns'
  BY <1>1 DEF QuietJobs, QuietDisk, NothingRuns, OnDisk
<1>3. Listed'
  <2>1. cmd'.page * DigestPage = 0
    BY <1>1, Assumed
  <2>2. TagsUpTo(NamedIn(library, InTree)', 0) = {}
    BY DEF TagsUpTo
  <2> QED
    BY <1>1, <2>1, <2>2 DEF Listed
<1>4. Known' /\ Walked' /\ Found' /\ Served' /\ StraysFound' /\ PlanDone' /\ JobsDone'
  BY <1>1 DEF Known, Walked, Found, Served, StraysFound, PlanDone, JobsDone
<1> QED
  BY <1>2, <1>3, <1>4 DEF Undisturbed

\* A page of the listing, and the tags on it.
PageAt(docs, off, P) == SubSeq(docs, off + 1, IF off + P < Len(docs) THEN off + P ELSE Len(docs))
TagsOn(page) == {[name |-> page[i].name, stamp |-> page[i].stamp] : i \in DOMAIN page}

\* The tags of a page join those of the pages before it, in which no name of it is.
LEMMA PageListed ==
    ASSUME NEW docs \in Seq(Docs), OneEach(docs), NEW off \in Nat, NEW P \in Nat \ {0}
    PROVE  /\ \A k \in TagsUpTo(docs, off), m \in TagsOn(PageAt(docs, off, P)) : m.name # k.name
           /\ TagsUpTo(docs, off) \union TagsOn(PageAt(docs, off, P)) = TagsUpTo(docs, off + P)
           /\ Len(PageAt(docs, off, P)) < P => TagsUpTo(docs, off + P) = {TagOf(d) : d \in ToSet(docs)}
<1> DEFINE page == PageAt(docs, off, P)
           met == TagsOn(page)
           L == Len(docs)
           last == IF off + P < L THEN off + P ELSE L
<1>1. L \in Nat /\ DOMAIN docs = 1 .. L /\ last \in 0 .. L
  OBVIOUS
<1> HIDE DEF last
<1>2. page = SubSeq(docs, off + 1, last)
  BY DEF last, PageAt
<1> HIDE DEF page
<1>3. /\ Len(page) = IF off + 1 <= last THEN last - off ELSE 0
      /\ DOMAIN page = 1 .. Len(page)
      /\ \A i \in DOMAIN page : page[i] = docs[off + i]
  BY <1>1, <1>2
<1>4. \A i \in DOMAIN page : off + i \in 1 .. L /\ off < off + i /\ off + i <= off + P
  <2>1. last <= off + P
    BY <1>1 DEF last
  <2> QED
    BY <1>1, <1>3, <2>1
<1>5. \A i \in 1 .. L : off < i /\ i <= off + P => i - off \in DOMAIN page /\ off + (i - off) = i
  <2> SUFFICES ASSUME NEW i \in 1 .. L, off < i, i <= off + P
               PROVE  i - off \in DOMAIN page /\ off + (i - off) = i
    OBVIOUS
  <2>1. i <= last
    BY <1>1 DEF last
  <2>2. off + 1 <= last /\ i - off \in 1 .. last - off
    BY <1>1, <2>1
  <2>3. DOMAIN page = 1 .. last - off
    BY <1>3, <2>2
  <2>4. off + (i - off) = i
    OBVIOUS
  <2> QED
    BY <2>2, <2>3, <2>4
<1>6. met = {[name |-> page[i].name, stamp |-> page[i].stamp] : i \in DOMAIN page}
  BY DEF TagsOn
<1> HIDE DEF met
<1>7. met = {TagOf(docs[i]) : i \in {i \in 1 .. L : off < i /\ i <= off + P}}
  <2>1. ASSUME NEW m \in met
        PROVE  \E i \in 1 .. L : off < i /\ i <= off + P /\ m = TagOf(docs[i])
    <3>1. PICK i \in DOMAIN page : m = [name |-> page[i].name, stamp |-> page[i].stamp]
      BY <1>6
    <3>2. m = TagOf(docs[off + i])
      BY <1>3, <3>1 DEF TagOf
    <3> QED
      BY <1>4, <3>2
  <2>2. ASSUME NEW i \in 1 .. L, off < i, i <= off + P
        PROVE  TagOf(docs[i]) \in met
    <3>1. i - off \in DOMAIN page /\ page[i - off] = docs[i]
      BY <1>3, <1>5, <2>2
    <3> QED
      BY <1>6, <3>1 DEF TagOf
  <2> QED
    BY <2>1, <2>2
<1>8. \A k \in TagsUpTo(docs, off), m \in met : m.name # k.name
  <2> SUFFICES ASSUME NEW k \in TagsUpTo(docs, off), NEW m \in met, m.name = k.name
               PROVE  FALSE
    OBVIOUS
  <2>1. PICK i \in 1 .. L : i <= off /\ k = TagOf(docs[i])
    BY DEF TagsUpTo
  <2>2. PICK j \in 1 .. L : off < j /\ m = TagOf(docs[j])
    BY <1>7
  <2>3. docs[i].name = docs[j].name
    BY <2>1, <2>2 DEF TagOf
  <2>4. i = j
    BY <2>3 DEF OneEach
  <2> QED
    BY <1>1, <2>1, <2>2, <2>4
<1>9. TagsUpTo(docs, off) \union met = TagsUpTo(docs, off + P)
  <2>1. \A i \in 1 .. L : i <= off + P <=> i <= off \/ (off < i /\ i <= off + P)
    BY <1>1
  <2> QED
    BY <1>7, <2>1 DEF TagsUpTo
<1>10. ASSUME Len(page) < P
      PROVE  TagsUpTo(docs, off + P) = {TagOf(d) : d \in ToSet(docs)}
  <2>1. L <= off + P
    <3> SUFFICES ASSUME off + P < L
                 PROVE  FALSE
      BY <1>1
    <3>1. last = off + P
      BY DEF last
    <3>2. Len(page) = P
      BY <1>3, <3>1
    <3> QED
      BY <1>10, <3>2
  <2>2. \A i \in 1 .. L : i <= off + P
    BY <1>1, <2>1
  <2> QED
    BY <1>1, <2>2 DEF TagsUpTo, ToSet
<1> QED
  BY <1>8, <1>9, <1>10 DEF page, met

\* A page of the listing.
LEMMA ListQuiet ==
    ASSUME SafeInv, Undisturbed, ListDigests
    PROVE  Undisturbed'
<1> DEFINE docs == NamedIn(library, InTree)
           off == cmd.page * DigestPage
           upTo == (cmd.page + 1) * DigestPage
           page == SubSeq(docs, cmd.page * DigestPage + 1, IF upTo < Len(docs) THEN upTo ELSE Len(docs))
           met == {[name |-> page[i].name, stamp |-> page[i].stamp] : i \in DOMAIN page}
<1>1. /\ Changes({"known", "page", "at", "left"})
      /\ cmd'.known = {k \in cmd.known : \A m \in met : m.name # k.name} \union met
      /\ cmd'.page = cmd.page + 1
      /\ cmd'.at = IF Len(page) < DigestPage THEN "walk" ELSE cmd.at
      /\ cmd'.left = IF Len(page) < DigestPage THEN {n \in InTree : OnDisk(n)} ELSE cmd.left
      /\ cmd.at = "list" /\ UNCHANGED <<disk, library, jobs, writes>>
  BY ListFacts DEF SafeInv
<1>2. docs \in Seq(Docs) /\ OneEach(docs) /\ ToSet(docs) = TreeIndexed
  BY NamedInRight DEF SafeInv, TreeTyped, TreeIndexed
<1>3. off \in Nat /\ DigestPage \in Nat \ {0} /\ upTo = off + DigestPage
  <2>1. cmd.page \in Nat /\ DigestPage \in Nat \ {0}
    BY Assumed DEF SafeInv, TreeTyped, Commands
  <2> QED
    BY <2>1
<1> HIDE DEF docs, upTo
<1>4. page = PageAt(docs, off, DigestPage)
  BY <1>3 DEF PageAt
<1>5. cmd.known = TagsUpTo(docs, off)
  BY <1>1 DEF Undisturbed, Listed, docs
<1> HIDE DEF off, page
<1>6. met = TagsOn(page)
  BY DEF TagsOn
<1> HIDE DEF met
<1>7. /\ \A k \in TagsUpTo(docs, off), m \in met : m.name # k.name
      /\ TagsUpTo(docs, off) \union met = TagsUpTo(docs, off + DigestPage)
      /\ Len(page) < DigestPage => TagsUpTo(docs, off + DigestPage) = {TagOf(d) : d \in ToSet(docs)}
  BY <1>2, <1>3, <1>4, <1>6, PageListed
<1>8. cmd'.known = TagsUpTo(docs, upTo)
  BY <1>1, <1>3, <1>5, <1>7
<1>9. /\ cmd'.absent = cmd.absent /\ cmd'.seen = cmd.seen /\ cmd'.held = cmd.held
      /\ cmd'.at \in {"walk", "list"} /\ jobs' = {}
  BY <1>1 DEF Changes, Fields, Undisturbed, NothingRuns
<1>10. QuietJobs' /\ QuietDisk' /\ NothingRuns'
  BY <1>1, <1>9 DEF Undisturbed, QuietJobs, QuietDisk, NothingRuns, OnDisk
<1>11. Listed'
  <2>1. cmd'.page * DigestPage = upTo
    BY <1>1 DEF upTo
  <2>2. NamedIn(library, InTree)' = docs
    BY <1>1 DEF docs
  <2> QED
    BY <1>8, <2>1, <2>2 DEF Listed
<1>12. Known'
  <2> SUFFICES ASSUME cmd'.at = "walk"
               PROVE  cmd'.known = {TagOf(d) : d \in TreeIndexed}
    BY <1>1 DEF Known, TreeIndexed
  <2>1. Len(page) < DigestPage
    BY <1>1
  <2> QED
    BY <1>2, <1>3, <1>7, <1>8, <2>1
<1>13. Walked'
  <2> SUFFICES ASSUME cmd'.at = "walk", NEW n \in Names, n \in InTree, OnDisk(n)
               PROVE  n \in cmd'.left
    BY <1>1 DEF Walked, Wanted, OnDisk
  <2>1. Len(page) < DigestPage
    BY <1>1
  <2> QED
    BY <1>1, <2>1
<1>14. Found' /\ Served' /\ StraysFound' /\ PlanDone' /\ JobsDone'
  BY <1>9 DEF Found, Served, StraysFound, PlanDone, JobsDone
<1> QED
  BY <1>10, <1>11, <1>12, <1>13, <1>14 DEF Undisturbed

\* An entry of the directory: the file is not wanted, indexed as it is, or planned.
LEMMA WalkQuiet ==
    ASSUME SafeInv, Undisturbed, ~SameStamp, WalkEntry, cmd'.at # "none"
    PROVE  Undisturbed'
<1> DEFINE n == First(cmd.left)
<1>1. /\ cmd.at = "walk" /\ n \in cmd.left /\ UNCHANGED <<disk, library, jobs, writes>>
      /\ Changes({"left", "seen", "plan"}) /\ cmd'.left = cmd.left \ {n}
      /\ \/ /\ IsIgnored(n) \/ ~Matches(n)
            /\ cmd'.seen = cmd.seen /\ cmd'.plan = cmd.plan
         \/ /\ OnDisk(n) /\ cmd'.seen = cmd.seen \union {n}
            /\ \/ /\ [name |-> n, stamp |-> disk[n].stamp] \in cmd.known
                  /\ cmd'.plan = cmd.plan
               \/ cmd'.plan = Append(cmd.plan, n)
  <2>1. cmd' # NoCmd
    BY DEF NoCmd
  <2> QED
    BY <2>1, WalkFacts DEF SafeInv
<1>2. n \in InTree /\ cmd.plan \in Seq(InTree)
  BY <1>1 DEF SafeInv, TreeTyped, Commands
<1> HIDE DEF n
<1>3. /\ cmd'.at = "walk" /\ cmd'.match = cmd.match /\ cmd'.absent = cmd.absent /\ cmd'.held = cmd.held
      /\ cmd'.known = cmd.known
  BY <1>1 DEF Changes, Fields
<1>4. QuietJobs' /\ NothingRuns' /\ Listed' /\ Known'
  BY <1>1, <1>3 DEF Undisturbed, QuietJobs, NothingRuns, Listed, Known, TreeIndexed, OnDisk
<1>5. QuietDisk'
  BY <1>1, <1>3 DEF Undisturbed, QuietDisk, OnDisk
<1>6. Found' /\ Served' /\ StraysFound' /\ PlanDone' /\ JobsDone'
  BY <1>3 DEF Found, Served, StraysFound, PlanDone, JobsDone
<1>7. ToSet(cmd.plan) \subseteq ToSet(cmd'.plan)
  <2>1. ToSet(Append(cmd.plan, n)) = ToSet(cmd.plan) \union {n}
    BY <1>2, AppendedSet
  <2> QED
    BY <1>1, <2>1
<1>8. Wanted(n) => n \in ToSet(cmd'.plan) \/ Indexed(n)
  <2> SUFFICES ASSUME Wanted(n)
               PROVE  n \in ToSet(cmd'.plan) \/ Indexed(n)
    OBVIOUS
  <2>1. ~IsIgnored(n) /\ Matches(n)
    BY DEF Wanted, Matches
  <2>2. CASE [name |-> n, stamp |-> disk[n].stamp] \in cmd.known
    <3>1. cmd.known = {TagOf(d) : d \in TreeIndexed}
      BY <1>1 DEF Undisturbed, Known
    <3>2. PICK d \in TreeIndexed : [name |-> n, stamp |-> disk[n].stamp] = TagOf(d)
      BY <2>2, <3>1
    <3>3. d \in ToSet(library) /\ d.name = n /\ d.stamp = disk[n].stamp
      BY <3>2 DEF TreeIndexed, TagOf
    <3>4. d.body = disk[n].body
      BY <3>3 DEF SafeInv, Current
    <3> QED
      BY <3>3, <3>4 DEF Indexed
  <2>3. CASE cmd'.plan = Append(cmd.plan, n)
    BY <1>2, <2>3, AppendedSet
  <2> QED
    BY <1>1, <2>1, <2>2, <2>3
<1>9. Walked'
  <2> SUFFICES ASSUME NEW m \in Names, Wanted(m)
               PROVE  m \in cmd'.left \/ Planned(m)' \/ Indexed(m)
    BY <1>1, <1>3 DEF Walked, Wanted, Indexed, OnDisk
  <2>1. m \in cmd.left \/ Planned(m) \/ Indexed(m)
    BY <1>1 DEF Undisturbed, Walked
  <2>2. Planned(m) => Planned(m)'
    BY <1>7 DEF Planned
  <2>3. CASE m = n
    BY <1>8, <2>3 DEF Planned
  <2>4. CASE m # n
    BY <1>1, <2>1, <2>2, <2>4
  <2> QED
    BY <2>3, <2>4
<1> QED
  BY <1>4, <1>5, <1>6, <1>9 DEF Undisturbed

\* The walk is over: the documents without a file are known and were not seen.
LEMMA WalkEndsQuiet ==
    ASSUME SafeInv, Undisturbed, WalkEnds
    PROVE  Undisturbed'
<1>1. /\ cmd.at = "walk" /\ cmd.left = {} /\ UNCHANGED <<disk, library, jobs, writes>>
      /\ Changes({"at", "left"}) /\ cmd'.at = "gone" /\ cmd'.left = {k.name : k \in cmd.known} \ cmd.seen
  BY WalkEndsFacts DEF SafeInv
<1>2. /\ cmd'.match = cmd.match /\ cmd'.absent = cmd.absent /\ cmd'.held = cmd.held
      /\ cmd'.seen = cmd.seen /\ cmd'.plan = cmd.plan
  BY <1>1 DEF Changes, Fields
<1>3. QuietJobs' /\ QuietDisk' /\ NothingRuns'
  BY <1>1, <1>2 DEF Undisturbed, QuietJobs, QuietDisk, NothingRuns, OnDisk
<1>4. Listed' /\ Known' /\ Walked' /\ Served' /\ PlanDone' /\ JobsDone'
  BY <1>1 DEF Listed, Known, Walked, Served, PlanDone, JobsDone
<1>5. Found'
  <2> SUFFICES ASSUME NEW m \in Names, Wanted(m)
               PROVE  Planned(m) \/ Indexed(m)
    BY <1>1, <1>2 DEF Found, Wanted, Indexed, Planned, OnDisk
  <2> QED
    BY <1>1 DEF Undisturbed, Walked
<1>6. StraysFound'
  <2> SUFFICES ASSUME NEW d \in TreeIndexed, ~OnDisk(d.name)
               PROVE  d.name \in cmd'.left
    BY <1>1 DEF StraysFound, Strays, TreeIndexed, OnDisk
  <2>1. TagOf(d) \in cmd.known
    BY <1>1 DEF Undisturbed, Known
  <2>2. d.name \in {k.name : k \in cmd.known}
    BY <2>1 DEF TagOf
  <2>3. d.name \notin cmd.seen
    BY DEF Undisturbed, QuietDisk
  <2> QED
    BY <1>1, <2>2, <2>3
<1> QED
  BY <1>3, <1>4, <1>5, <1>6 DEF Undisturbed

\* A source that was not seen is looked for.
LEMMA FindQuiet ==
    ASSUME SafeInv, Undisturbed, FindGone, cmd'.at # "none"
    PROVE  Undisturbed'
<1> DEFINE n == First(cmd.left)
<1>1. /\ cmd.at = "gone" /\ UNCHANGED <<disk, library, jobs, writes>>
      /\ \/ cmd.left = {} /\ Changes({"at"}) /\ cmd'.at = "stat"
         \/ /\ Changes({"left", "gone"}) /\ n \in cmd.left
            /\ cmd'.left = cmd.left \ {n}
            /\ cmd'.gone = IF OnDisk(n) THEN cmd.gone ELSE cmd.gone \union {n}
  <2>1. cmd' # NoCmd
    BY DEF NoCmd
  <2> QED
    BY <2>1, GoneFacts DEF SafeInv
<1> HIDE DEF n
<1>2. /\ cmd'.match = cmd.match /\ cmd'.absent = cmd.absent /\ cmd'.held = cmd.held
      /\ cmd'.seen = cmd.seen /\ cmd'.plan = cmd.plan
  BY <1>1 DEF Changes, Fields
<1>3. cmd'.at \in {"gone", "stat"}
  BY <1>1 DEF Changes, Fields
<1>4. QuietJobs' /\ QuietDisk' /\ NothingRuns'
  BY <1>1, <1>2 DEF Undisturbed, QuietJobs, QuietDisk, NothingRuns, OnDisk
<1>5. Listed' /\ Known' /\ Walked' /\ PlanDone' /\ JobsDone'
  BY <1>3 DEF Listed, Known, Walked, PlanDone, JobsDone
<1>6. Found' /\ Served'
  <2> SUFFICES ASSUME NEW m \in Names, Wanted(m)
               PROVE  Planned(m) \/ Indexed(m)
    BY <1>1, <1>2 DEF Found, Served, Wanted, Indexed, Planned, OnDisk
  <2> QED
    BY <1>1 DEF Undisturbed, Found
<1>7. StraysFound'
  <2>1. ASSUME NEW d \in Strays
        PROVE  ~OnDisk(d.name) /\ d.name \in cmd.left \union cmd.gone
    BY <1>1 DEF Undisturbed, StraysFound, Strays
  <2>2. Strays' = Strays
    BY <1>1 DEF Strays, TreeIndexed, OnDisk
  <2>3. CASE cmd.left = {} /\ Changes({"at"}) /\ cmd'.at = "stat"
    <3>1. cmd'.gone = cmd.gone
      BY <2>3 DEF Changes, Fields
    <3> QED
      BY <2>1, <2>2, <2>3, <3>1 DEF StraysFound
  <2>4. CASE /\ Changes({"left", "gone"}) /\ n \in cmd.left
             /\ cmd'.left = cmd.left \ {n}
             /\ cmd'.gone = IF OnDisk(n) THEN cmd.gone ELSE cmd.gone \union {n}
    <3>1. cmd'.at = "gone"
      BY <1>1, <2>4 DEF Changes, Fields
    <3>2. \A d \in Strays : d.name \in cmd'.left \union cmd'.gone
      BY <2>1, <2>4
    <3> QED
      BY <2>2, <3>1, <3>2 DEF StraysFound
  <2> QED
    BY <1>1, <2>3, <2>4
<1> QED
  BY <1>4, <1>5, <1>6, <1>7 DEF Undisturbed

\* The attributes of a planned file are read, or all are scheduled.
LEMMA StatQuiet ==
    ASSUME SafeInv, Undisturbed, StatFile
    PROVE  Undisturbed'
<1>1. /\ cmd.at = "stat" /\ UNCHANGED <<disk, library, jobs, writes>>
      /\ \/ cmd.plan = <<>> /\ Changes({"at"}) /\ cmd'.at = "wait"
         \/ Changes({"plan", "failed"}) /\ cmd'.failed
         \/ Changes({"at", "caught"}) /\ cmd'.at = "copy"
  BY StatFacts DEF SafeInv
<1>2. /\ cmd'.match = cmd.match /\ cmd'.absent = cmd.absent /\ cmd'.held = cmd.held
      /\ cmd'.seen = cmd.seen /\ cmd'.gone = cmd.gone
      /\ cmd'.at \in {"stat", "copy"} \/ (cmd'.at = "wait" /\ cmd.plan = <<>> /\ cmd'.plan = cmd.plan)
      /\ cmd'.failed \/ (cmd'.plan = cmd.plan /\ ~cmd'.failed /\ ~cmd.failed)
  <2>1. CASE cmd.plan = <<>> /\ Changes({"at"}) /\ cmd'.at = "wait"
    BY <1>1, <2>1 DEF Changes, Fields, SafeInv, TreeTyped, Commands
  <2>2. CASE Changes({"plan", "failed"}) /\ cmd'.failed
    BY <1>1, <2>2 DEF Changes, Fields
  <2>3. CASE Changes({"at", "caught"}) /\ cmd'.at = "copy"
    BY <1>1, <2>3 DEF Changes, Fields, SafeInv, TreeTyped, Commands
  <2> QED
    BY <1>1, <2>1, <2>2, <2>3
<1>3. QuietJobs' /\ QuietDisk' /\ NothingRuns'
  BY <1>1, <1>2 DEF Undisturbed, QuietJobs, QuietDisk, NothingRuns, OnDisk
<1>4. Listed' /\ Known' /\ Walked' /\ Found' /\ PlanDone' /\ JobsDone'
  BY <1>2 DEF Listed, Known, Walked, Found, PlanDone, JobsDone
<1>5. Served'
  <2> SUFFICES ASSUME ~cmd'.failed, NEW m \in Names, Wanted(m)
               PROVE  Planned(m) \/ Underway(m) \/ Indexed(m)
    BY <1>1, <1>2 DEF Served, Wanted, Indexed, Planned, Underway, OnDisk
  <2> QED
    BY <1>1, <1>2 DEF Undisturbed, Served
<1>6. StraysFound'
  <2>1. Strays' = Strays
    BY <1>1 DEF Strays, TreeIndexed, OnDisk
  <2>2. \A d \in Strays : d.name \in cmd.gone
    BY <1>1 DEF Undisturbed, StraysFound
  <2> QED
    BY <1>2, <2>1, <2>2 DEF StraysFound
<1> QED
  BY <1>3, <1>4, <1>5, <1>6 DEF Undisturbed

\* A planned file is under way, as it is, or the command has failed.
LEMMA CopyQuiet ==
    ASSUME SafeInv, Undisturbed, StageCopy
    PROVE  Undisturbed'
<1>1. cmd.plan # <<>> /\ cmd.caught.stamp # 0
  BY DEF SafeInv, CaughtDated, StageCopy
<1>2. /\ cmd.at = "copy" /\ UNCHANGED <<disk, library, writes>> /\ cmd'.at = "stat" /\ cmd'.plan = Tail(cmd.plan)
      /\ \/ UNCHANGED jobs /\ Changes({"at", "plan", "failed"}) /\ cmd'.failed
         \/ \E job \in Docs :
                /\ Changes({"at", "plan", "held"}) /\ jobs' = jobs \union {job} /\ cmd'.held = cmd.held \union {job}
                /\ job.name = Head(cmd.plan) /\ OnDisk(job.name) /\ job.stamp = cmd.caught.stamp
                /\ job.body = disk[job.name].body
  BY <1>1, CopyFacts DEF SafeInv
<1>3. /\ cmd'.match = cmd.match /\ cmd'.absent = cmd.absent /\ cmd'.seen = cmd.seen /\ cmd'.gone = cmd.gone
      /\ cmd.held \subseteq cmd'.held
  BY <1>2 DEF Changes, Fields
<1>4. QuietDisk' /\ NothingRuns' /\ Listed' /\ Known' /\ Walked' /\ Found' /\ PlanDone' /\ JobsDone'
  BY <1>2, <1>3 DEF Undisturbed, QuietDisk, NothingRuns, Listed, Known, Walked, Found, PlanDone, JobsDone, OnDisk
<1>5. QuietJobs'
  <2>1. CASE UNCHANGED jobs
    BY <1>2, <1>3, <2>1 DEF Undisturbed, QuietJobs, OnDisk
  <2>2. CASE \E job \in Docs :
                /\ jobs' = jobs \union {job} /\ cmd'.held = cmd.held \union {job}
                /\ OnDisk(job.name) /\ job.body = disk[job.name].body
    BY <1>2, <1>3, <2>2 DEF Undisturbed, QuietJobs, OnDisk
  <2> QED
    BY <1>2, <2>1, <2>2
<1>6. Served'
  <2> SUFFICES ASSUME ~cmd'.failed, NEW m \in Names, Wanted(m)
               PROVE  Planned(m)' \/ Underway(m)' \/ Indexed(m)
    BY <1>2, <1>3 DEF Served, Wanted, Indexed, OnDisk
  <2>1. PICK job \in Docs :
            /\ Changes({"at", "plan", "held"}) /\ jobs' = jobs \union {job}
            /\ job.name = Head(cmd.plan)
    BY <1>2
  <2>2. ~cmd.failed
    BY <2>1 DEF Changes, Fields
  <2>3. Planned(m) \/ Underway(m) \/ Indexed(m)
    BY <1>2, <2>2 DEF Undisturbed, Served
  <2>4. ToSet(cmd.plan) = {Head(cmd.plan)} \union ToSet(cmd'.plan)
    <3>1. cmd.plan \in Seq(InTree)
      BY DEF SafeInv, TreeTyped, Commands
    <3> QED
      BY <1>1, <1>2, <3>1, HeadIn
  <2>5. Planned(m) => Planned(m)' \/ Underway(m)'
    BY <2>1, <2>4 DEF Planned, Underway
  <2>6. Underway(m) => Underway(m)'
    BY <2>1 DEF Underway
  <2> QED
    BY <2>3, <2>5, <2>6
<1>7. StraysFound'
  <2>1. Strays' = Strays
    BY <1>2 DEF Strays, TreeIndexed, OnDisk
  <2>2. \A d \in Strays : d.name \in cmd.gone
    BY <1>2 DEF Undisturbed, StraysFound
  <2> QED
    BY <1>2, <1>3, <2>1, <2>2 DEF StraysFound
<1> QED
  BY <1>4, <1>5, <1>6, <1>7 DEF Undisturbed

\* The tasks have ended, or the command has failed.
LEMMA AwaitQuiet ==
    ASSUME SafeInv, Undisturbed, AwaitJobs
    PROVE  Undisturbed'
<1>1. /\ cmd.at = "wait" /\ cmd'.at = "purge" /\ UNCHANGED <<disk, library, jobs, writes>>
      /\ \/ Changes({"at"}) /\ (cmd.mode = "noWait" \/ TasksDone)
         \/ Changes({"at", "failed"}) /\ cmd'.failed
  BY AwaitFacts DEF SafeInv
<1>2. /\ cmd'.match = cmd.match /\ cmd'.absent = cmd.absent /\ cmd'.seen = cmd.seen /\ cmd'.gone = cmd.gone
      /\ cmd'.held = cmd.held /\ cmd'.plan = cmd.plan /\ cmd'.mode = cmd.mode
      /\ ~cmd'.failed => ~cmd.failed /\ (cmd.mode = "noWait" \/ TasksDone)
  BY <1>1 DEF Changes, Fields
<1>3. QuietJobs' /\ QuietDisk' /\ NothingRuns'
  BY <1>1, <1>2 DEF Undisturbed, QuietJobs, QuietDisk, NothingRuns, OnDisk
<1>4. Listed' /\ Known' /\ Walked' /\ Found' /\ PlanDone'
  BY <1>1, <1>2 DEF Undisturbed, Listed, Known, Walked, Found, PlanDone
<1>5. Served'
  <2> SUFFICES ASSUME ~cmd'.failed, NEW m \in Names, Wanted(m)
               PROVE  Planned(m) \/ Underway(m) \/ Indexed(m)
    BY <1>1, <1>2 DEF Served, Wanted, Indexed, Planned, Underway, OnDisk
  <2> QED
    BY <1>1, <1>2 DEF Undisturbed, Served
<1>6. StraysFound'
  <2>1. Strays' = Strays
    BY <1>1 DEF Strays, TreeIndexed, OnDisk
  <2>2. \A d \in Strays : d.name \in cmd.gone
    BY <1>1 DEF Undisturbed, StraysFound
  <2> QED
    BY <1>1, <1>2, <2>1, <2>2 DEF StraysFound
<1>7. JobsDone'
  <2> SUFFICES ASSUME cmd.mode = "wait", ~cmd'.failed
               PROVE  jobs = {}
    BY <1>1, <1>2 DEF JobsDone
  <2>1. cmd.held \intersect jobs = {}
    BY <1>2 DEF TasksDone
  <2>2. jobs \subseteq cmd.held
    BY DEF Undisturbed, QuietJobs
  <2> QED
    BY <2>1, <2>2
<1> QED
  BY <1>3, <1>4, <1>5, <1>6, <1>7 DEF Undisturbed

\* What is purged is not on disk.
LEMMA PurgeQuiet ==
    ASSUME SafeInv, Undisturbed, Purge
    PROVE  Undisturbed'
<1> DEFINE n == First(cmd.gone)
<1>1. /\ cmd.at = "purge" /\ UNCHANGED <<disk, jobs, writes>> /\ n \in cmd.gone
      /\ library' = Without(library, n)
      /\ Changes({"gone"}) /\ cmd'.gone = cmd.gone \ {n}
  BY PurgeFacts DEF SafeInv
<1> HIDE DEF n
<1>2. ToSet(library') = {d \in ToSet(library) : d.name # n}
  BY <1>1, WithoutRight DEF SafeInv
<1>3. ~OnDisk(n)
  BY <1>1 DEF SafeInv, GoneAbsent, Undisturbed, QuietDisk
<1>4. /\ cmd'.match = cmd.match /\ cmd'.absent = cmd.absent /\ cmd'.seen = cmd.seen
      /\ cmd'.held = cmd.held /\ cmd'.plan = cmd.plan /\ cmd'.mode = cmd.mode /\ cmd'.failed = cmd.failed
      /\ cmd'.at = "purge"
  BY <1>1 DEF Changes, Fields
<1>5. QuietJobs' /\ QuietDisk' /\ NothingRuns'
  BY <1>1, <1>4 DEF Undisturbed, QuietJobs, QuietDisk, NothingRuns, OnDisk
<1>6. Listed' /\ Known' /\ Walked' /\ Found' /\ PlanDone' /\ JobsDone'
  BY <1>1, <1>4 DEF Undisturbed, Listed, Known, Walked, Found, PlanDone, JobsDone
<1>7. Served'
  <2> SUFFICES ASSUME ~cmd.failed, NEW m \in Names, Wanted(m)
               PROVE  Planned(m) \/ Underway(m) \/ Indexed(m)'
    BY <1>1, <1>4 DEF Served, Wanted, Planned, Underway, OnDisk
  <2>1. Planned(m) \/ Underway(m) \/ Indexed(m)
    BY <1>1 DEF Undisturbed, Served
  <2>2. m # n
    BY <1>3 DEF Wanted
  <2>3. Indexed(m) => Indexed(m)'
    BY <1>1, <1>2, <2>2 DEF Indexed
  <2> QED
    BY <2>1, <2>3
<1>8. StraysFound'
  <2>1. \A d \in Strays' : d \in Strays /\ d.name # n
    BY <1>1, <1>2 DEF Strays, TreeIndexed, OnDisk
  <2>2. \A d \in Strays : d.name \in cmd.gone
    BY <1>1 DEF Undisturbed, StraysFound
  <2>3. \A d \in Strays' : d.name \in cmd'.gone
    BY <1>1, <2>1, <2>2
  <2> QED
    BY <1>4, <2>3 DEF StraysFound
<1> QED
  BY <1>5, <1>6, <1>7, <1>8 DEF Undisturbed

\* A task of the command ends: its file is indexed as it is, or the command has failed.
LEMMA RunQuiet ==
    ASSUME SafeInv, Undisturbed, NEW j \in jobs, RunJob(j)
    PROVE  Undisturbed'
<1>1. /\ jobs' = jobs \ {j} /\ UNCHANGED <<disk, writes>> /\ Changes({"failed", "held"})
      /\ \/ library' = Append(Without(library, j.name), j) /\ cmd' = cmd
         \/ /\ library' \in {library, Without(library, j.name)}
            /\ (cmd'.failed <=> cmd.failed \/ j \in cmd.held) /\ cmd'.held = cmd.held \ {j}
  BY RunFacts DEF SafeInv
<1>2. j \in cmd.held /\ OnDisk(j.name) /\ j.body = disk[j.name].body
  BY DEF Undisturbed, QuietJobs
<1>3. cmd.at \notin {"list", "walk", "gone"}
  BY DEF Undisturbed, NothingRuns
<1>4. \/ /\ cmd' = cmd /\ ToSet(library') = {d \in ToSet(library) : d.name # j.name} \union {j}
      \/ /\ cmd'.failed /\ cmd'.held = cmd.held \ {j} /\ ToSet(library') \subseteq ToSet(library)
  <2>1. j \in Docs
    BY DEF SafeInv, TreeTyped
  <2>2. CASE library' = Append(Without(library, j.name), j) /\ cmd' = cmd
    BY <2>1, <2>2, ReplacedRight DEF SafeInv
  <2>3. CASE /\ library' \in {library, Without(library, j.name)}
             /\ (cmd'.failed <=> cmd.failed \/ j \in cmd.held) /\ cmd'.held = cmd.held \ {j}
    <3>1. ToSet(Without(library, j.name)) \subseteq ToSet(library)
      BY WithoutRight DEF SafeInv
    <3> QED
      BY <1>2, <2>3, <3>1
  <2> QED
    BY <1>1, <2>2, <2>3
<1>5. /\ cmd'.match = cmd.match /\ cmd'.absent = cmd.absent /\ cmd'.seen = cmd.seen
      /\ cmd'.gone = cmd.gone /\ cmd'.plan = cmd.plan /\ cmd'.mode = cmd.mode /\ cmd'.at = cmd.at
  BY <1>1 DEF Changes, Fields
<1>6. QuietJobs'
  <2> SUFFICES ASSUME NEW i \in jobs, i # j
               PROVE  i \in cmd'.held /\ OnDisk(i.name) /\ i.body = disk[i.name].body
    BY <1>1 DEF QuietJobs, OnDisk
  <2>1. i \in cmd.held /\ OnDisk(i.name) /\ i.body = disk[i.name].body
    BY DEF Undisturbed, QuietJobs
  <2> QED
    BY <1>4, <2>1
<1>7. QuietDisk' /\ NothingRuns'
  BY <1>1, <1>3, <1>5 DEF Undisturbed, QuietDisk, NothingRuns, OnDisk
<1>8. Listed' /\ Known' /\ Walked' /\ Found'
  BY <1>3, <1>5 DEF Listed, Known, Walked, Found
<1>9. PlanDone' /\ JobsDone'
  BY <1>1, <1>4, <1>5 DEF Undisturbed, PlanDone, JobsDone
<1>10. Served'
  <2> SUFFICES ASSUME cmd.at \in {"stat", "copy", "wait", "purge"}, ~cmd'.failed, NEW m \in Names, Wanted(m)
               PROVE  Planned(m) \/ Underway(m)' \/ Indexed(m)'
    BY <1>1, <1>5 DEF Served, Wanted, Planned, OnDisk
  <2>1. cmd' = cmd /\ ToSet(library') = {d \in ToSet(library) : d.name # j.name} \union {j}
    BY <1>4
  <2>2. Planned(m) \/ Underway(m) \/ Indexed(m)
    BY <2>1 DEF Undisturbed, Served
  <2>3. CASE m = j.name
    BY <1>1, <1>2, <2>1, <2>3 DEF Indexed
  <2>4. CASE m # j.name
    <3>1. Underway(m) => Underway(m)'
      BY <1>1, <2>4 DEF Underway
    <3>2. Indexed(m) => Indexed(m)'
      BY <1>1, <2>1, <2>4 DEF Indexed
    <3> QED
      BY <2>2, <3>1, <3>2
  <2> QED
    BY <2>3, <2>4
<1>11. StraysFound'
  <2>1. \A d \in Strays' : d \in Strays
    BY <1>1, <1>2, <1>4 DEF Strays, TreeIndexed, OnDisk
  <2>2. cmd.at \in {"stat", "copy", "wait", "purge"} => \A d \in Strays : d.name \in cmd.gone
    BY DEF Undisturbed, StraysFound
  <2> QED
    BY <1>3, <1>5, <2>1, <2>2 DEF StraysFound
<1> QED
  BY <1>6, <1>7, <1>8, <1>9, <1>10, <1>11 DEF Undisturbed

\* Every step of a sync with nothing else at work keeps what it knows.
LEMMA QuietStep ==
    ASSUME SafeInv, QuietInv, [TreeNext]_treeVars
    PROVE  QuietInv'
<1> SUFFICES ASSUME ~SameStamp, cmd'.at # "none", cmd'.quiet
             PROVE  Undisturbed'
  BY DEF QuietInv, Running
<1>1. CASE \E n \in Names : WriteFile(n)
  <2>1. cmd'.at = cmd.at /\ (cmd'.quiet <=> ~Running)
    BY <1>1, WriteFacts DEF SafeInv, Changes, Fields
  <2> QED
    BY <2>1 DEF Running
<1>2. CASE \E n \in Names : RemoveFromDisk(n)
  <2>1. cmd'.at = cmd.at /\ (Running => ~cmd'.quiet)
    BY <1>2, RemoveFacts DEF SafeInv, Changes, Fields
  <2> QED
    BY <2>1 DEF Running
<1>3. CASE \E n \in Names : AddFile(n)
  BY <1>3 DEF AddFile, Running
<1>4. CASE \E match \in Patterns : StartSync(match)
  BY <1>4, StartQuiet
<1>5. CASE SyncEnds \/ CmdKilled
  BY <1>5 DEF SyncEnds, CmdKilled, AtEnd, NoCmd
<1>6. ASSUME cmd.at # "none", cmd.quiet
      PROVE  Undisturbed
  BY <1>6 DEF QuietInv, Running
<1>7. ASSUME NEW F, Changes(F), "at" \notin F, "quiet" \notin F
      PROVE  Undisturbed
  <2>1. cmd'.at = cmd.at /\ cmd'.quiet = cmd.quiet
    BY <1>7 DEF Changes, Fields
  <2> QED
    BY <1>6, <2>1
<1>8. ASSUME NEW F, Changes(F), cmd.at # "none", "quiet" \notin F
      PROVE  Undisturbed
  <2>1. cmd'.quiet = cmd.quiet
    BY <1>8 DEF Changes, Fields
  <2> QED
    BY <1>6, <1>8, <2>1
<1>9. CASE \E j \in jobs : RunJob(j)
  <2>1. Changes({"failed", "held"})
    BY <1>9, RunFacts DEF SafeInv
  <2> QED
    BY <1>7, <1>9, <2>1, RunQuiet
<1>10. CASE ListDigests
  <2>1. Changes({"known", "page", "at", "left"}) /\ cmd.at = "list"
    BY <1>10, ListFacts DEF SafeInv
  <2> QED
    BY <1>8, <1>10, <2>1, ListQuiet
<1>11. CASE WalkEntry
  <2>1. cmd' # NoCmd
    BY DEF NoCmd
  <2>2. Changes({"left", "seen", "plan"})
    BY <1>11, <2>1, WalkFacts DEF SafeInv
  <2> QED
    BY <1>7, <1>11, <2>2, WalkQuiet
<1>12. CASE WalkEnds
  <2>1. Changes({"at", "left"}) /\ cmd.at = "walk"
    BY <1>12, WalkEndsFacts DEF SafeInv
  <2> QED
    BY <1>8, <1>12, <2>1, WalkEndsQuiet
<1>13. CASE FindGone
  <2>1. cmd' # NoCmd
    BY DEF NoCmd
  <2>2. cmd.at = "gone" /\ (Changes({"at"}) \/ Changes({"left", "gone"}))
    BY <1>13, <2>1, GoneFacts DEF SafeInv
  <2> QED
    BY <1>8, <1>13, <2>2, FindQuiet
<1>14. CASE StatFile
  <2>1. cmd.at = "stat" /\ (Changes({"at"}) \/ Changes({"plan", "failed"}) \/ Changes({"at", "caught"}))
    BY <1>14, StatFacts DEF SafeInv
  <2> QED
    BY <1>8, <1>14, <2>1, StatQuiet
<1>15. CASE StageCopy
  <2>1. cmd.plan # <<>> /\ cmd.caught.stamp # 0
    BY <1>15 DEF SafeInv, CaughtDated, StageCopy
  <2>2. cmd.at = "copy" /\ (Changes({"at", "plan", "failed"}) \/ Changes({"at", "plan", "held"}))
    BY <1>15, <2>1, CopyFacts DEF SafeInv
  <2> QED
    BY <1>8, <1>15, <2>2, CopyQuiet
<1>16. CASE AwaitJobs
  <2>1. cmd.at = "wait" /\ (Changes({"at"}) \/ Changes({"at", "failed"}))
    BY <1>16, AwaitFacts DEF SafeInv
  <2> QED
    BY <1>8, <1>16, <2>1, AwaitQuiet
<1>17. CASE Purge
  <2>1. Changes({"gone"})
    BY <1>17, PurgeFacts DEF SafeInv
  <2> QED
    BY <1>7, <1>17, <2>1, PurgeQuiet
<1>18. CASE UNCHANGED treeVars
  <2>1. UNCHANGED <<disk, library, jobs, cmd>>
    BY <1>18 DEF treeVars
  <2>2. Undisturbed
    BY <1>6, <2>1
  <2>3. QuietJobs' /\ QuietDisk' /\ NothingRuns' /\ Listed' /\ Known' /\ PlanDone' /\ JobsDone'
    BY <2>1, <2>2 DEF Undisturbed, QuietJobs, QuietDisk, NothingRuns, Listed, Known, PlanDone, JobsDone, TreeIndexed, OnDisk
  <2>4. Walked' /\ Found' /\ Served' /\ StraysFound'
    BY <2>1, <2>2 DEF Undisturbed, Walked, Found, Served, StraysFound, Wanted, Planned, Underway, Indexed, Strays,
       TreeIndexed, OnDisk
  <2> QED
    BY <2>3, <2>4 DEF Undisturbed
<1> QED
  BY <1>1, <1>2, <1>3, <1>4, <1>5, <1>9, <1>10, <1>11, <1>12, <1>13, <1>14, <1>15, <1>16, <1>17, <1>18 DEF TreeNext

\* A quiet sync that ends without a failure leaves an index that agrees with the tree.
LEMMA QuietAgrees ==
    ASSUME SafeInv, QuietInv, ~SameStamp, kills \in Nat, [TreeNext]_treeVars,
           cmd.at = "purge", cmd'.at = "none", kills' = kills, cmd.mode = "wait", cmd.quiet, ~cmd.failed
    PROVE  /\ \A n \in InTree \intersect cmd.match :
                 OnDisk(n) /\ ~IsIgnored(n) => \E d \in DocsOf(n) : d.body = disk[n].body
           /\ \A d \in ToSet(library) : d.name \in InTree => OnDisk(d.name)
<1>1. Undisturbed
  BY DEF QuietInv, Running
<1>2. cmd.plan = <<>> /\ jobs = {}
  BY <1>1 DEF Undisturbed, PlanDone, JobsDone
<1>3. cmd.gone = {}
  <2>1. cmd' # cmd
    OBVIOUS
  <2>2. ~\E j \in jobs : RunJob(j)
    BY <1>2
  <2>3. ~CmdKilled
    <3>1. kills + 1 # kills
      OBVIOUS
    <3> QED
      BY <3>1 DEF CmdKilled
  <2>4. ~\E n \in Names : WriteFile(n)
    <3>1. ASSUME NEW n \in Names, WriteFile(n)
          PROVE  FALSE
      <4>1. cmd'.at = cmd.at
        BY <3>1, WriteFacts DEF SafeInv, Changes, Fields
      <4> QED
        BY <4>1
    <3> QED
      BY <3>1
  <2>5. ~\E n \in Names : RemoveFromDisk(n)
    <3>1. ASSUME NEW n \in Names, RemoveFromDisk(n)
          PROVE  FALSE
      <4>1. cmd'.at = cmd.at
        BY <3>1, RemoveFacts DEF SafeInv, Changes, Fields
      <4> QED
        BY <4>1
    <3> QED
      BY <3>1
  <2>6. ~Purge
    <3>1. ASSUME Purge
          PROVE  FALSE
      <4>1. cmd'.at = cmd.at
        BY <3>1, PurgeFacts DEF SafeInv, Changes, Fields
      <4> QED
        BY <4>1
    <3> QED
      BY <3>1
  <2>7. SyncEnds
    BY <2>1, <2>2, <2>3, <2>4, <2>5, <2>6 DEF TreeNext, treeVars, AddFile, StartSync, ListDigests, WalkEntry, WalkEnds,
       FindGone, StatFile, StageCopy, AwaitJobs, Running
  <2> QED
    BY <2>7 DEF SyncEnds
<1>4. ASSUME NEW n \in InTree \intersect cmd.match, OnDisk(n), ~IsIgnored(n)
      PROVE  \E d \in DocsOf(n) : d.body = disk[n].body
  <2>1. n \in Names /\ Wanted(n)
    BY <1>4, Assumed DEF Wanted
  <2>2. Planned(n) \/ Underway(n) \/ Indexed(n)
    BY <1>1, <2>1 DEF Undisturbed, Served
  <2>3. ToSet(cmd.plan) = {}
    BY <1>2 DEF ToSet
  <2>4. Indexed(n)
    BY <1>2, <2>2, <2>3 DEF Planned, Underway
  <2> QED
    BY <2>4 DEF Indexed, DocsOf
<1>5. ASSUME NEW d \in ToSet(library), d.name \in InTree
      PROVE  OnDisk(d.name)
  <2>1. \A s \in Strays : s.name \in cmd.gone
    BY <1>1 DEF Undisturbed, StraysFound
  <2> QED
    BY <1>3, <1>5, <2>1 DEF Strays, TreeIndexed
<1> QED
  BY <1>4, <1>5

\* Commands are killed one at a time.
LEMMA KillsCount ==
    ASSUME kills \in Nat, [TreeNext]_treeVars
    PROVE  kills' \in Nat
<1>1. kills' = kills \/ kills' = kills + 1
  BY DEF TreeNext, treeVars, WriteFile, RemoveFromDisk, AddFile, RunJob, StartSync, ListDigests, WalkEntry, WalkEnds,
     FindGone, StatFile, StageCopy, AwaitJobs, Purge, SyncEnds, CmdKilled, Counters
<1> QED
  BY <1>1

SyncInv == SafeInv /\ QuietInv /\ kills \in Nat

\* With neither files nor commands nothing is promised yet.
LEMMA SyncInit == TreeInit => SyncInv
<1>1. TreeInit => SafeInv
  BY SafeInit
<1>2. TreeInit => QuietInv /\ kills \in Nat
  BY DEF TreeInit, QuietInv, Running, NoCmd
<1> QED
  BY <1>1, <1>2 DEF SyncInv

\* Every step keeps the invariant.
LEMMA SyncStep == SyncInv /\ [TreeNext]_treeVars => SyncInv'
BY SafeStep, QuietStep, KillsCount DEF SyncInv

\* Whatever runs next to a sync, and whatever has the stamp of what, a document
\* leaves the library only for a file of the tree that was missing while the sync
\* ran, and no source has two documents (newSyncCommand, DeleteBySource).
THEOREM GoneDeleted == TreeSpec => []TreeTypeOK /\ OnlyGoneDeleted
<1>1. SyncInv => TreeTypeOK
  BY SafeKept DEF SyncInv
<1>2. SyncInv /\ [TreeNext]_treeVars
      => [\A d \in ToSet(library) : DocsOf(d.name)' = {} /\ jobs' = jobs => d.name \in cmd.absent \intersect InTree]_treeVars
  BY DeletesGone DEF SyncInv
<1> QED
  BY SyncInit, SyncStep, <1>1, <1>2, PTL DEF TreeSpec, OnlyGoneDeleted

\* When no file is written twice in one second at one size, what a sync skips is
\* current, and one that ran alone and reported no failure leaves an index that
\* agrees with the tree: for any files, pages and patterns (newSyncCommand, loadIndexedDigests, scheduleFile).
THEOREM SyncKept == ~SameStamp => (TreeSpec => SyncKeepsFaith)
<1> SUFFICES ASSUME ~SameStamp PROVE TreeSpec => SyncKeepsFaith
  OBVIOUS
<1>1. SyncInv => TreeTypeOK /\ SkippedIsCurrent
  BY SafeKept DEF SyncInv
<1>2. SyncInv /\ [TreeNext]_treeVars
      => [cmd.at = "purge" /\ cmd'.at = "none" /\ kills' = kills /\ cmd.mode = "wait" /\ cmd.quiet /\ ~cmd.failed =>
            /\ \A n \in InTree \intersect cmd.match : OnDisk(n) /\ ~IsIgnored(n) => \E d \in DocsOf(n) : d.body = disk[n].body
            /\ \A d \in ToSet(library) : d.name \in InTree => OnDisk(d.name)]_treeVars
  BY QuietAgrees DEF SyncInv
<1>3. SyncInv /\ [TreeNext]_treeVars
      => [\A d \in ToSet(library) : DocsOf(d.name)' = {} /\ jobs' = jobs => d.name \in cmd.absent \intersect InTree]_treeVars
  BY DeletesGone DEF SyncInv
<1> QED
  BY SyncInit, SyncStep, <1>1, <1>2, <1>3, PTL DEF TreeSpec, SyncKeepsFaith, QuietSyncAgrees, OnlyGoneDeleted
=============================================================================
