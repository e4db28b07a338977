------------------------------- MODULE VecStore -------------------------------
(***************************************************************************)
(* The sqlite-vec index on its database: one connection that writes and,     *)
(* when NewIndexAtPath opened the index, a pool of connections that read     *)
(* (index/sqlitevec/index.go), with its backup and its restoration           *)
(* (index/sqlitevec/snapshot.go). Every use of the writing connection runs   *)
(* between a savepoint and its release; the savepoints of two goroutines on  *)
(* one connection nest, and carry the same name. A document is its version   *)
(* and the number of its chunks that are in the tables.                      *)
(***************************************************************************)
EXTENDS Naturals, Sequences, SequencesExt, FiniteSets

CONSTANTS
    Corpus,     \* of documents
    Versions,    \* of the content to index; 1 is what was indexed before
    Chunks,      \* of a document
    Indexers,    \* goroutines that index and delete
    Searchers,   \* goroutines that search
    Keeper,      \* the goroutine that backs up and restores
    PoolSize,    \* ReadPoolSize
    KeeperOverlaps,     \* whether a backup or a restoration may overlap a write
    MaxUses,     \* bound on the calls
    MaxFailures  \* bound on failing statements, busy databases and crashes

ASSUME VecAssumption ==
    /\ Chunks \in Nat \ {0} /\ PoolSize \in Nat \ {0}
    /\ Versions \subseteq Nat \ {0, 1}
    /\ KeeperOverlaps \in BOOLEAN /\ MaxUses \in Nat /\ MaxFailures \in Nat
    /\ IsFiniteSet(Corpus)
    /\ Indexers \intersect Searchers = {} /\ Keeper \notin Indexers \union Searchers

Doc(v, n) == [version |-> v, chunks |-> n]
NoDoc == Doc(0, 0)
Tables == [Corpus -> {NoDoc} \union {Doc(v, n) : v \in Versions \union {1}, n \in 1..Chunks}]

VARIABLES
    pooled,     \* "yes" (NewIndexAtPath), "no" (NewIndex), "none" before that
    file,       \* what is committed
    view,       \* what the writing connection sees
    savepoints, \* of the writing connection, with what it saw when each began
    rwLock,     \* the goroutines that hold it: one to write, or any to read
    free,       \* readers in the pool
    use,        \* what each goroutine is doing
    archive,    \* the snapshot the keeper last wrote: its records, and whether it ended
    uses, failures,
    acked       \* history: what each source may hold once nobody writes it

vecVars == <<pooled, file, view, savepoints, rwLock, free, use, archive, uses, failures, acked>>
-----------------------------------------------------------------------------
NoUse == [call |-> "none", at |-> "end", source |-> 0, version |-> 0, todo |-> <<>>, ok |-> TRUE, saw |-> <<>>]

People == Indexers \union Searchers \union {Keeper}

In(u, at) == use[u].at = at
Goes(u, at) == use' = [use EXCEPT ![u].at = at]
Ends(u, ok) == use' = [use EXCEPT ![u].at = "end", ![u].ok = ok]

\* A goroutine that has begun to write, or to read what it will write.
Writing(u) == use[u].at # "end" /\ use[u].call \in {"index", "delete", "backup", "restore"}

Alone(u) == KeeperOverlaps \/ \A x \in People \ {u} : ~(Writing(x) /\ (x = Keeper \/ u = Keeper))

BeginsUse(u, what, s, v, at) ==
    /\ use[u].at = "end" /\ pooled # "none" /\ uses < MaxUses
    /\ uses' = uses + 1
    /\ use' = [use EXCEPT ![u] = [NoUse EXCEPT !.call = what, !.at = at, !.source = s, !.version = v]]
    /\ UNCHANGED <<pooled, file, view, savepoints, rwLock, free, archive, failures, acked>>

\* conn.Savepoint: a statement after it changes what the connection sees only.
Enters(seen) ==
    /\ savepoints' = Append(savepoints, view)
    /\ view' = seen
    /\ UNCHANGED file

\* save.Release without an error: RELEASE of the innermost savepoint of that
\* name; the outermost one commits.
Releases ==
    /\ savepoints' = Front(savepoints)
    /\ file' = IF Len(savepoints) = 1 THEN view ELSE file
    /\ UNCHANGED view

\* save.Release with an error: ROLLBACK TO the innermost one, then RELEASE.
RollsBack ==
    /\ view' = Last(savepoints)
    /\ savepoints' = Front(savepoints)
    /\ file' = IF Len(savepoints) = 1 THEN view' ELSE file

Unlocks(u) == rwLock' = rwLock \ {u}

Rest == UNCHANGED <<pooled, free, uses>>

Recorded(s) == {r.doc : r \in {x \in ToSet(archive.records) : x.source = s}}

\* What an unfinished call may leave of a source.
Possible(u, s) ==
    CASE use[u].call = "restore" -> {NoDoc} \union Recorded(s)
      [] use[u].call \in {"index", "delete"} /\ use[u].source = s ->
             {NoDoc} \union {Doc(v, Chunks) : v \in {use[u].version} \ {0}}
      [] OTHER -> {}

Is(s, doc) == acked' = [acked EXCEPT ![s] = {doc}]
-----------------------------------------------------------------------------
\* The index is opened on the file as the last process left it: at first empty,
\* or with a version of every document.
OpenVec(p) ==
    /\ pooled = "none" /\ pooled' = p
    /\ free' = IF p = "yes" THEN PoolSize ELSE 0
    /\ \/ UNCHANGED <<file, view, acked>>
       \/ /\ uses = 0
          /\ file' = [s \in Corpus |-> Doc(1, Chunks)]
          /\ view' = file' /\ acked' = [s \in Corpus |-> {file'[s]}]
    /\ UNCHANGED <<savepoints, rwLock, use, archive, uses, failures>>

\* Index: the embeddings are computed before the lock is taken.
IndexUse(u, s, v) == Alone(u) /\ BeginsUse(u, "index", s, v, "lock")

DeleteUse(u, s) == Alone(u) /\ BeginsUse(u, "delete", s, 0, "lock")

\* Mutation of WriteLock: the lock does not keep the searches off.
WriteLockAnyway(u) ==
    /\ u \in Indexers /\ In(u, "lock")
    /\ rwLock' = rwLock \union {u} /\ Goes(u, "drop")
    /\ Rest /\ UNCHANGED <<file, view, savepoints, archive, failures, acked>>

WriteLock(u) ==
    /\ u \in Indexers /\ In(u, "lock") /\ rwLock = {}
    /\ rwLock' = {u} /\ Goes(u, "drop")
    /\ Rest /\ UNCHANGED <<file, view, savepoints, archive, failures, acked>>

\* deleteBySourceLocked, in a savepoint of its own.
DropBegin(u) ==
    /\ In(u, "drop") /\ Goes(u, "dropped")
    /\ Enters([view EXCEPT ![use[u].source] = NoDoc])
    /\ Rest /\ UNCHANGED <<rwLock, archive, failures, acked>>

DropEnd(u) ==
    /\ In(u, "dropped") /\ Releases
    /\ IF use[u].call = "index"
       THEN Goes(u, "insert") /\ UNCHANGED <<rwLock, acked>>
       ELSE Ends(u, TRUE) /\ Unlocks(u) /\ Is(use[u].source, NoDoc)
    /\ Rest /\ UNCHANGED <<archive, failures>>

InsertBegin(u) ==
    /\ In(u, "insert") /\ Goes(u, "inserting")
    /\ Enters([view EXCEPT ![use[u].source] = Doc(use[u].version, 1)])
    /\ Rest /\ UNCHANGED <<rwLock, archive, failures, acked>>

\* The statements of the next chunk.
InsertChunk(u) ==
    /\ In(u, "inserting") /\ view[use[u].source].chunks \in 1..(Chunks - 1)
    /\ view' = [view EXCEPT ![use[u].source].chunks = @ + 1]
    /\ file' = IF savepoints = <<>> THEN view' ELSE file
    /\ Rest /\ UNCHANGED <<savepoints, rwLock, use, archive, failures, acked>>

InsertEnd(u) ==
    /\ In(u, "inserting") /\ view[use[u].source].chunks \notin 1..(Chunks - 1)
    /\ Releases
    /\ Ends(u, TRUE) /\ Unlocks(u)
    /\ Is(use[u].source, Doc(use[u].version, Chunks))
    /\ Rest /\ UNCHANGED <<archive, failures>>

\* A statement fails: the savepoint is rolled back and, when the database was
\* busy or locked, entered again.
Retried == [dropped |-> "drop", inserting |-> "insert", streaming |-> "stream", wiped |-> "wipe", written |-> "write"]

\* Mutation of Busy: what was written before the busy statement is not undone.
BusyKeeps(u) ==
    /\ use[u].at \in {"dropped", "inserting"} /\ failures < MaxFailures
    /\ failures' = failures + 1
    /\ Goes(u, Retried[use[u].at])
    /\ Rest /\ UNCHANGED <<file, view, savepoints, rwLock, archive, acked>>

Busy(u) ==
    /\ use[u].at \in {"dropped", "inserting"} /\ failures < MaxFailures
    /\ failures' = failures + 1
    /\ RollsBack /\ Goes(u, Retried[use[u].at])
    /\ Rest /\ UNCHANGED <<rwLock, archive, acked>>

Fails(u) ==
    /\ use[u].at \in {"dropped", "inserting"} /\ failures < MaxFailures
    /\ failures' = failures + 1
    /\ RollsBack /\ Ends(u, FALSE) /\ Unlocks(u)
    /\ acked' = [acked EXCEPT ![use[u].source] = @ \union {NoDoc}]
    /\ Rest /\ UNCHANGED archive
-----------------------------------------------------------------------------
\* acquireReader: a connection of the pool, or the writing one under the read lock.
SearchBegin(u) == BeginsUse(u, "search", 0, 0, "reader")

\* Mutation of AcquireReader: the shared connection is read without the lock.
AcquireReaderUnlocked(u) ==
    /\ In(u, "reader") /\ Goes(u, "search")
    /\ \/ pooled = "yes" /\ free > 0 /\ free' = free - 1 /\ UNCHANGED rwLock
       \/ pooled = "no" /\ UNCHANGED <<free, rwLock>>
    /\ UNCHANGED <<pooled, file, view, savepoints, archive, uses, failures, acked>>

AcquireReader(u) ==
    /\ In(u, "reader") /\ Goes(u, "search")
    /\ \/ pooled = "yes" /\ free > 0 /\ free' = free - 1 /\ UNCHANGED rwLock
       \/ pooled = "no" /\ rwLock \subseteq Searchers /\ rwLock' = rwLock \union {u} /\ UNCHANGED free
    /\ UNCHANGED <<pooled, file, view, savepoints, archive, uses, failures, acked>>

\* The KNN legs and the resolution of their rows read one snapshot.
SearchReads(u) ==
    /\ In(u, "search")
    /\ use' = [use EXCEPT ![u].at = "end", ![u].saw = IF pooled = "yes" THEN file ELSE view]
    /\ IF pooled = "yes" THEN free' = free + 1 /\ UNCHANGED rwLock ELSE Unlocks(u) /\ UNCHANGED free
    /\ UNCHANGED <<pooled, file, view, savepoints, archive, uses, failures, acked>>
-----------------------------------------------------------------------------
\* GenerateSnapshot reads the writing connection, in a savepoint and without
\* the lock; the record of a document goes out when the reader asks for it.
InOrder(S) == CHOOSE s \in [1 .. Cardinality(S) -> S] : IsInjective(s)

BackupBegin == Alone(Keeper) /\ BeginsUse(Keeper, "backup", 0, 0, "stream")

StreamBegin ==
    /\ In(Keeper, "stream")
    /\ Enters(view)
    /\ use' = [use EXCEPT ![Keeper].at = "streaming", ![Keeper].todo = InOrder(Corpus)]
    /\ archive' = [records |-> <<>>, whole |-> FALSE]
    /\ Rest /\ UNCHANGED <<rwLock, failures, acked>>

\* Mutation of StreamRecord: a record goes out again.
StreamRecordTwice ==
    /\ In(Keeper, "streaming") /\ use[Keeper].todo # <<>>
    /\ LET s == Head(use[Keeper].todo)
       IN  archive' = [archive EXCEPT !.records =
                          IF view[s] = NoDoc THEN @ ELSE @ \o <<[source |-> s, doc |-> view[s]], [source |-> s, doc |-> view[s]]>>]
    /\ use' = [use EXCEPT ![Keeper].todo = Tail(@)]
    /\ Rest /\ UNCHANGED <<file, view, savepoints, rwLock, failures, acked>>

StreamRecord ==
    /\ In(Keeper, "streaming") /\ use[Keeper].todo # <<>>
    /\ LET s == Head(use[Keeper].todo)
       IN  archive' = [archive EXCEPT !.records =
                          IF view[s] = NoDoc THEN @ ELSE Append(@, [source |-> s, doc |-> view[s]])]
    /\ use' = [use EXCEPT ![Keeper].todo = Tail(@)]
    /\ Rest /\ UNCHANGED <<file, view, savepoints, rwLock, failures, acked>>

StreamEnd ==
    /\ In(Keeper, "streaming") /\ use[Keeper].todo = <<>>
    /\ Releases /\ Ends(Keeper, TRUE)
    /\ archive' = [archive EXCEPT !.whole = TRUE]
    /\ Rest /\ UNCHANGED <<rwLock, failures, acked>>

\* RestoreSnapshot empties the tables in one savepoint, then inserts the records
\* in batches, each in its own. The records are those of the archive, all of
\* them if it is whole; the restoration of another model's is refused at once.
RestoreBegin == Alone(Keeper) /\ BeginsUse(Keeper, "restore", 0, 0, "wipe")

WipeBegin ==
    /\ In(Keeper, "wipe")
    /\ Enters([s \in Corpus |-> NoDoc])
    /\ use' = [use EXCEPT ![Keeper].at = "wiped", ![Keeper].todo = [n \in 1..Len(archive.records) |-> n]]
    /\ Rest /\ UNCHANGED <<rwLock, archive, failures, acked>>

RestoreEnds ==
    /\ Ends(Keeper, archive.whole)
    /\ acked' = [s \in Corpus |-> IF Recorded(s) = {} THEN {NoDoc} ELSE Recorded(s)]

BatchEnd ==
    /\ use[Keeper].at \in {"wiped", "written"}
    /\ Releases
    /\ IF use[Keeper].todo = <<>> THEN RestoreEnds ELSE Goes(Keeper, "write") /\ UNCHANGED acked
    /\ Rest /\ UNCHANGED <<rwLock, archive, failures>>

\* restoreRecords, one record to a batch.
BatchBegin ==
    /\ In(Keeper, "write")
    /\ LET r == archive.records[Head(use[Keeper].todo)]
       IN  Enters([view EXCEPT ![r.source] = r.doc])
    /\ use' = [use EXCEPT ![Keeper].at = "written", ![Keeper].todo = Tail(@)]
    /\ Rest /\ UNCHANGED <<rwLock, archive, failures, acked>>

\* The snapshot or the restoration fails: what was restored before stays.
KeeperFails ==
    /\ use[Keeper].at \in {"streaming", "wiped", "written"} /\ failures < MaxFailures
    /\ failures' = failures + 1
    /\ RollsBack /\ Ends(Keeper, FALSE)
    /\ acked' = [s \in Corpus |-> acked[s] \union Possible(Keeper, s)]
    /\ Rest /\ UNCHANGED <<rwLock, archive>>
-----------------------------------------------------------------------------
\* The process ends; the database opens again with what was committed.
CrashVec ==
    /\ failures < MaxFailures /\ \E u \in People : use[u].at # "end"
    /\ failures' = failures + 1
    /\ view' = file /\ savepoints' = <<>> /\ rwLock' = {}
    /\ pooled' = "none" /\ free' = 0
    /\ use' = [u \in People |-> NoUse]
    /\ acked' = [s \in Corpus |-> acked[s] \union UNION {Possible(u, s) : u \in {x \in People : Writing(x)}}]
    /\ UNCHANGED <<file, archive, uses>>
-----------------------------------------------------------------------------
VecInit ==
    /\ pooled = "none" /\ free = 0 /\ rwLock = {} /\ savepoints = <<>>
    /\ file = [s \in Corpus |-> NoDoc] /\ view = file
    /\ use = [u \in People |-> NoUse]
    /\ archive = [records |-> <<>>, whole |-> FALSE]
    /\ uses = 0 /\ failures = 0
    /\ acked = [s \in Corpus |-> {NoDoc}]

VecNext ==
    \/ \E p \in {"yes", "no"} : OpenVec(p)
    \/ \E u \in Indexers :
        \/ \E s \in Corpus : DeleteUse(u, s) \/ \E v \in Versions : IndexUse(u, s, v)
        \/ WriteLock(u) \/ DropBegin(u) \/ DropEnd(u) \/ InsertBegin(u) \/ InsertChunk(u) \/ InsertEnd(u)
        \/ Busy(u) \/ Fails(u)
    \/ \E u \in Searchers : SearchBegin(u) \/ AcquireReader(u) \/ SearchReads(u)
    \/ BackupBegin \/ StreamBegin \/ StreamRecord \/ StreamEnd
    \/ RestoreBegin \/ WipeBegin \/ BatchBegin \/ BatchEnd \/ KeeperFails
    \/ CrashVec

VecSpec == VecInit /\ [][VecNext]_vecVars
-----------------------------------------------------------------------------
\* Every variable has its type: the one type invariant of this module.
VecTypeOK ==
    /\ pooled \in {"yes", "no", "none"}
    /\ file \in Tables /\ view \in Tables
    /\ savepoints \in Seq(Tables) /\ (savepoints = <<>> => view = file)
    /\ rwLock \subseteq People /\ (rwLock \intersect Indexers # {} => Cardinality(rwLock) = 1) /\ free \in 0..PoolSize
    /\ archive.whole \in BOOLEAN

\* A call that returned without an error is in the database file: the document
\* indexed, with all its chunks, or gone (index.go:37, "serializing
\* Index/Delete"). One that failed, or that a crash ended, left the previous
\* document, none, or the new one, never some of its chunks.
Quiet(s) == \A u \in People : Writing(u) => use[u].at = "lock" \/ use[u].call = "backup" \/ (u # Keeper /\ use[u].source # s)

ReturnedIsCommitted == \A s \in Corpus : Quiet(s) => file[s] \in acked[s]

\* A search sees each document whole or not at all, whatever is being written
\* next to it: the readers of the pool take no lock and rely on the isolation
\* of the savepoints, the shared connection on the read lock.
SearchSeesWhole ==
    \A u \in Searchers : use[u].saw # <<>> =>
        \A s \in Corpus : use[u].saw[s].chunks \in {0, Chunks}

\* A backup that ended holds what the index held, one record for each.
BackupIsWhole ==
    [][archive'.whole /\ ~archive.whole =>
          /\ ToSet(archive'.records) = {[source |-> s, doc |-> file[s]] : s \in {x \in Corpus : file[x] # NoDoc}}
          /\ IsInjective(archive'.records)]_vecVars

\* What the vector index promises its callers (sqlitevec/index.go): what was
\* acknowledged is committed, a search sees a source whole or not at all, and a
\* backup that ends holds every source once.
VectorsKeepFaith ==
    /\ [](VecTypeOK /\ ReturnedIsCommitted /\ SearchSeesWhole)
    /\ BackupIsWhole
=============================================================================
