--------------------------- MODULE VecStoreProofs ---------------------------
(***************************************************************************)
(* Proofs about the sqlite-vec index: with the backup and the restoration    *)
(* kept apart from the writers, what is acknowledged is committed, a search  *)
(* sees documents whole, and a backup holds what the index holds.  And about  *)
(* the pool of the Postgres index: no search keeps a connection it took, and  *)
(* a fallback is not left waiting for its second one.                       *)
(***************************************************************************)
EXTENDS VecStore, LegSearch, FiniteSetTheorems, TLAPS

-----------------------------------------------------------------------------
(* Sequences. *)

\* The tail of a sequence has its other elements.
LEMMA TailKeeps ==
    ASSUME NEW T, NEW s \in Seq(T), s # <<>>
    PROVE  /\ Head(s) \in T /\ Tail(s) \in Seq(T) /\ ToSet(s) \subseteq T
           /\ ToSet(s) = ToSet(Tail(s)) \union {Head(s)}
           /\ IsInjective(s) => IsInjective(Tail(s)) /\ Head(s) \notin ToSet(Tail(s))
<1>1. Tail(s) \in Seq(T) /\ Len(Tail(s)) = Len(s) - 1 /\ Len(s) \in Nat /\ Len(s) >= 1 /\ Head(s) = s[1]
  OBVIOUS
<1>2. \A i \in 1 .. Len(s) - 1 : Tail(s)[i] = s[i + 1]
  OBVIOUS
<1>3. DOMAIN s = 1 .. Len(s) /\ DOMAIN Tail(s) = 1 .. Len(s) - 1 /\ \A i \in 1 .. Len(s) : s[i] \in T
  BY <1>1
<1>4. ToSet(Tail(s)) \subseteq ToSet(s)
  <2> SUFFICES ASSUME NEW i \in 1 .. Len(s) - 1
               PROVE  Tail(s)[i] \in ToSet(s)
    BY <1>3 DEF ToSet
  <2>1. i + 1 \in 1 .. Len(s) /\ Tail(s)[i] = s[i + 1]
    BY <1>1, <1>2
  <2> QED
    BY <1>3, <2>1 DEF ToSet
<1>5. \A i \in 1 .. Len(s) : i = 1 \/ (i - 1 \in 1 .. Len(s) - 1 /\ Tail(s)[i - 1] = s[i])
  BY <1>1, <1>2
<1>6. ToSet(s) \subseteq ToSet(Tail(s)) \union {Head(s)}
  <2> SUFFICES ASSUME NEW i \in 1 .. Len(s)
               PROVE  s[i] \in ToSet(Tail(s)) \union {Head(s)}
    BY <1>3 DEF ToSet
  <2>1. CASE i = 1
    BY <1>1, <2>1
  <2>2. CASE i - 1 \in 1 .. Len(s) - 1 /\ Tail(s)[i - 1] = s[i]
    BY <1>3, <2>2 DEF ToSet
  <2> QED
    BY <1>5, <2>1, <2>2
<1>7. Head(s) \in ToSet(s) /\ ToSet(s) \subseteq T
  BY <1>1, <1>3 DEF ToSet
<1>8. ASSUME IsInjective(s)
      PROVE  IsInjective(Tail(s)) /\ Head(s) \notin ToSet(Tail(s))
  <2>1. \A i, j \in 1 .. Len(s) : s[i] = s[j] => i = j
    BY <1>3, <1>8 DEF IsInjective
  <2>2. \A i \in 1 .. Len(s) - 1 : i + 1 \in 1 .. Len(s) /\ i + 1 # 1 /\ 1 \in 1 .. Len(s)
    BY <1>1
  <2>3. \A i, j \in 1 .. Len(s) - 1 : i + 1 = j + 1 => i = j
    BY <1>1
  <2>4. \A i, j \in 1 .. Len(s) - 1 : Tail(s)[i] = Tail(s)[j] => i = j
    BY <1>2, <2>1, <2>2, <2>3
  <2>5. \A i \in 1 .. Len(s) - 1 : Tail(s)[i] # Head(s)
    BY <1>1, <1>2, <2>1, <2>2
  <2> QED
    BY <1>3, <2>4, <2>5 DEF IsInjective, ToSet
<1> QED
  BY <1>1, <1>3, <1>4, <1>6, <1>7, <1>8

\* What is appended is the last element.
LEMMA AppendAdds ==
    ASSUME NEW T, NEW s \in Seq(T), NEW e \in T
    PROVE  /\ Append(s, e) \in Seq(T) /\ ToSet(Append(s, e)) = ToSet(s) \union {e}
           /\ IsInjective(s) /\ e \notin ToSet(s) => IsInjective(Append(s, e))
<1> DEFINE a == Append(s, e)
<1>1. /\ a \in Seq(T) /\ Len(a) = Len(s) + 1 /\ Len(s) \in Nat
      /\ DOMAIN s = 1 .. Len(s) /\ DOMAIN a = 1 .. Len(s) + 1
      /\ a[Len(s) + 1] = e /\ \A i \in 1 .. Len(s) : a[i] = s[i]
  OBVIOUS
<1> HIDE DEF a
<1>2. \A i \in 1 .. Len(s) + 1 : i \in 1 .. Len(s) \/ i = Len(s) + 1
  BY <1>1
<1>3. Len(s) + 1 \in 1 .. Len(s) + 1 /\ \A i \in 1 .. Len(s) : i \in 1 .. Len(s) + 1
  BY <1>1
<1>4. ToSet(a) = ToSet(s) \union {e}
  <2>1. ToSet(a) \subseteq ToSet(s) \union {e}
    BY <1>1, <1>2 DEF ToSet
  <2>2. ToSet(s) \union {e} \subseteq ToSet(a)
    BY <1>1, <1>3 DEF ToSet
  <2> QED
    BY <2>1, <2>2
<1>5. ASSUME IsInjective(s), e \notin ToSet(s)
      PROVE  IsInjective(a)
  <2>1. \A i, j \in 1 .. Len(s) : s[i] = s[j] => i = j
    BY <1>1, <1>5 DEF IsInjective
  <2>2. \A i \in 1 .. Len(s) : s[i] # e
    BY <1>1, <1>5 DEF ToSet
  <2> QED
    BY <1>1, <1>2, <2>1, <2>2 DEF IsInjective
<1> QED
  BY <1>1, <1>4, <1>5 DEF a

\* The query of a backup lists the sources one after the other.
LEMMA InOrderLists == InOrder(Corpus) \in Seq(Corpus) /\ IsInjective(InOrder(Corpus)) /\ ToSet(InOrder(Corpus)) = Corpus
<1> DEFINE N == Cardinality(Corpus)
           o == InOrder(Corpus)
<1>1. N \in Nat /\ ExistsBijection(1 .. N, Corpus)
  BY VecAssumption, FS_CardinalityType
<1>2. PICK f \in Bijection(1 .. N, Corpus) : TRUE
  BY <1>1 DEF ExistsBijection
<1>3. f \in [1 .. N -> Corpus] /\ IsInjective(f)
  BY <1>2 DEF Bijection, Injection, IsInjective
<1>4. o \in [1 .. N -> Corpus] /\ IsInjective(o)
  BY <1>3 DEF InOrder
<1> HIDE DEF o
<1>5. IsFiniteSet(1 .. N) /\ Cardinality(1 .. N) = N
  <2> HIDE DEF N
  <2> QED
    BY <1>1, FS_Interval
<1>6. o \in Injection(1 .. N, Corpus)
  BY <1>4 DEF Injection, IsInjective
<1>7. o \in Surjection(1 .. N, Corpus)
  BY <1>5, <1>6, VecAssumption, FS_Injection
<1>8. ToSet(o) = Corpus
  BY <1>4, <1>7 DEF ToSet, Surjection
<1>9. o \in Seq(Corpus)
  <2> HIDE DEF N
  <2> QED
    BY <1>1, <1>4
<1> QED
  BY <1>4, <1>8, <1>9 DEF o
-----------------------------------------------------------------------------
(* The steps, by what they do to the writing connection. *)

\* A call begins, and takes or gives back what it needs to start.
Beginning(u) ==
    \/ u \in Indexers /\ \E s \in Corpus : DeleteUse(u, s) \/ \E v \in Versions : IndexUse(u, s, v)
    \/ u \in Searchers /\ SearchBegin(u)
    \/ u = Keeper /\ (BackupBegin \/ RestoreBegin)
Locking(u) == u \in Indexers /\ WriteLock(u)
Seeking(u) == u \in Searchers /\ (AcquireReader(u) \/ SearchReads(u))

\* A savepoint begins, goes on, is released or is rolled back.
Entering(u) ==
    \/ u \in Indexers /\ (DropBegin(u) \/ InsertBegin(u))
    \/ u = Keeper /\ (StreamBegin \/ WipeBegin \/ BatchBegin)
Filling(u)   == u \in Indexers /\ InsertChunk(u)
Recording(u) == u = Keeper /\ StreamRecord
Leaving(u) ==
    \/ u \in Indexers /\ (DropEnd(u) \/ InsertEnd(u))
    \/ u = Keeper /\ (StreamEnd \/ BatchEnd)
Undoing(u) ==
    \/ u \in Indexers /\ (Busy(u) \/ Fails(u))
    \/ u = Keeper /\ KeeperFails

VecActs(u) ==
    \/ Beginning(u) \/ Locking(u) \/ Seeking(u)
    \/ Entering(u) \/ Filling(u) \/ Recording(u) \/ Leaving(u) \/ Undoing(u)

\* Every step is one of them, an opening or a crash.
LEMMA VecSteps ==
    ASSUME VecNext
    PROVE  (\E p \in {"yes", "no"} : OpenVec(p)) \/ CrashVec \/ \E u \in People : VecActs(u)
<1> USE DEF VecActs, Beginning, Locking, Seeking, Entering, Filling, Recording, Leaving, Undoing
<1>1. Keeper \in People /\ Indexers \subseteq People /\ Searchers \subseteq People
  BY DEF People
<1>2. ASSUME NEW u \in Indexers,
             \/ \E s \in Corpus : DeleteUse(u, s) \/ \E v \in Versions : IndexUse(u, s, v)
             \/ WriteLock(u) \/ DropBegin(u) \/ DropEnd(u) \/ InsertBegin(u) \/ InsertChunk(u) \/ InsertEnd(u)
             \/ Busy(u) \/ Fails(u)
      PROVE  VecActs(u)
  BY <1>2
<1>3. ASSUME NEW u \in Searchers, SearchBegin(u) \/ AcquireReader(u) \/ SearchReads(u)
      PROVE  VecActs(u)
  BY <1>3
<1>4. ASSUME \/ BackupBegin \/ StreamBegin \/ StreamRecord \/ StreamEnd
             \/ RestoreBegin \/ WipeBegin \/ BatchBegin \/ BatchEnd \/ KeeperFails
      PROVE  VecActs(Keeper)
  BY <1>4
<1> HIDE DEF VecActs
<1> QED
  BY <1>1, <1>2, <1>3, <1>4 DEF VecNext
-----------------------------------------------------------------------------
(* The types, and where each goroutine may be. *)

Docs      == {NoDoc} \union {Doc(v, n) : v \in Versions \union {1}, n \in 1 .. Chunks}
WholeDocs == {d \in Docs : d.chunks \in {0, Chunks}}

Ats   == {"end", "lock", "drop", "dropped", "insert", "inserting", "reader", "search",
          "stream", "streaming", "wipe", "wiped", "write", "written"}
Calls == {"none", "index", "delete", "search", "backup", "restore"}
Uses  == [call : Calls, at : Ats, source : Corpus \union {0}, version : Versions \union {0},
          todo : Seq(Corpus) \union Seq(Nat), ok : BOOLEAN, saw : Tables \union {<<>>}]
Archives == [records : Seq([source : Corpus, doc : WholeDocs]), whole : BOOLEAN]

VecTyped ==
    /\ pooled \in {"yes", "no", "none"}
    /\ file \in [Corpus -> WholeDocs] /\ view \in Tables /\ savepoints \in Seq(Tables)
    /\ rwLock \subseteq People
    /\ use \in [People -> Uses]
    /\ archive \in Archives
    /\ acked \in [Corpus -> SUBSET Docs]

\* The places of an indexer, a searcher and the keeper, and what they call for.
Indexing(u) ==
    /\ use[u].at \in {"end", "lock", "drop", "dropped", "insert", "inserting"}
    /\ use[u].at # "end" => use[u].call \in {"index", "delete"} /\ use[u].source \in Corpus
    /\ use[u].at \in {"insert", "inserting"} => use[u].call = "index"
    /\ use[u].at # "end" /\ use[u].call = "index" => use[u].version \in Versions
Keeping ==
    \/ use[Keeper].at = "end"
    \/ use[Keeper].call = "backup" /\ use[Keeper].at \in {"stream", "streaming"}
    \/ use[Keeper].call = "restore" /\ use[Keeper].at \in {"wipe", "wiped", "write", "written"}

Placed ==
    /\ pooled = "none" => \A u \in People : use[u].at = "end"
    /\ \A u \in Indexers : Indexing(u)
    /\ \A u \in Searchers : use[u].at \in {"end", "reader", "search"}
    /\ Keeping
    /\ use[Keeper].at = "streaming" => use[Keeper].todo \in Seq(Corpus)
    /\ use[Keeper].at \in {"wiped", "write", "written"} => use[Keeper].todo \in Seq(1 .. Len(archive.records))
    /\ use[Keeper].at = "write" => use[Keeper].todo # <<>>

\* Two of them are never the same, and two roles neither.
LEMMA Roles ==
    /\ Keeper \in People /\ Indexers \subseteq People /\ Searchers \subseteq People
    /\ Keeper \notin Indexers /\ Keeper \notin Searchers
    /\ \A u \in Indexers : u \notin Searchers
    /\ \A u \in People : u \in Indexers \/ u \in Searchers \/ u = Keeper
  BY VecAssumption DEF People

\* Documents are records; what is in the file or the tables is one of them.
LEMMA DocsAre ==
    /\ NoDoc \in WholeDocs /\ NoDoc.chunks = 0 /\ NoDoc.version = 0
    /\ \A v \in Versions \union {1}, n \in 1 .. Chunks :
          Doc(v, n) \in Docs /\ Doc(v, n).chunks = n /\ Doc(v, n).version = v
    /\ \A v \in Versions \union {1} : Doc(v, Chunks) \in WholeDocs
    /\ Tables = [Corpus -> Docs] /\ WholeDocs \subseteq Docs
    /\ [Corpus -> WholeDocs] \subseteq Tables
    /\ 1 \in 1 .. Chunks /\ Chunks \in 1 .. Chunks
<1>1. Chunks \in Nat /\ Chunks # 0
  BY VecAssumption
<1>2. NoDoc \in WholeDocs /\ NoDoc.chunks = 0 /\ NoDoc.version = 0
  BY DEF NoDoc, Doc, WholeDocs, Docs
<1>3. 1 \in 1 .. Chunks /\ Chunks \in 1 .. Chunks
  BY <1>1
<1>4. \A v \in Versions \union {1}, n \in 1 .. Chunks :
          Doc(v, n) \in Docs /\ Doc(v, n).chunks = n /\ Doc(v, n).version = v
  BY DEF Docs, Doc
<1>5. \A v \in Versions \union {1} : Doc(v, Chunks) \in WholeDocs
  BY <1>3, <1>4 DEF WholeDocs
<1>6. Tables = [Corpus -> Docs]
  BY DEF Tables, Docs
<1>7. WholeDocs \subseteq Docs
  BY DEF WholeDocs
<1> QED
  BY <1>2, <1>3, <1>4, <1>5, <1>6, <1>7

\* What one step does to the use of its goroutine, and to none of the others.
LEMMA OthersStay ==
    ASSUME VecTyped, NEW u \in People, VecActs(u)
    PROVE  \A x \in People \ {u} : use'[x] = use[x]
<1>1. CASE Beginning(u)
  BY <1>1 DEF Beginning, DeleteUse, IndexUse, SearchBegin, BackupBegin, RestoreBegin, BeginsUse, VecTyped
<1>2. CASE Locking(u) \/ Seeking(u)
  BY <1>2 DEF Locking, Seeking, WriteLock, AcquireReader, SearchReads, Goes, VecTyped
<1>3. CASE Entering(u)
  BY <1>3 DEF Entering, DropBegin, InsertBegin, StreamBegin, WipeBegin, BatchBegin, Goes, VecTyped
<1>4. CASE Filling(u) \/ Recording(u)
  BY <1>4 DEF Filling, Recording, InsertChunk, StreamRecord, VecTyped
<1>5. CASE Leaving(u)
  BY <1>5 DEF Leaving, DropEnd, InsertEnd, StreamEnd, BatchEnd, RestoreEnds, Goes, Ends, VecTyped
<1>6. CASE Undoing(u)
  BY <1>6 DEF Undoing, Busy, Fails, KeeperFails, Goes, Ends, VecTyped
<1> QED
  BY <1>1, <1>2, <1>3, <1>4, <1>5, <1>6 DEF VecActs
-----------------------------------------------------------------------------
(* One writer at a time. *)

Holding == {"drop", "dropped", "insert", "inserting"}

\* An indexer that writes has the lock, alone; a searcher has it to read from the
\* shared connection; while the keeper is at work, no indexer is.
Locked ==
    /\ \A u \in Indexers : use[u].at \in Holding => rwLock = {u}
    /\ \A u \in Indexers : u \in rwLock => use[u].at \in Holding
    /\ \A u \in Searchers : u \in rwLock <=> use[u].at = "search" /\ pooled = "no"
    /\ Keeper \notin rwLock

KeeperAlone == use[Keeper].at # "end" => \A u \in Indexers : use[u].at = "end"

\* Places in which the tables are written, or read to be written to an archive.
Inside == {"dropped", "inserting", "streaming", "wiped", "written"}
AtWork == Holding \union {"stream", "streaming", "wipe", "wiped", "write", "written"}

\* At most one goroutine is there.
LEMMA OneWriter ==
    ASSUME VecTyped, Placed, Locked, KeeperAlone, NEW u \in People, NEW x \in People,
           use[u].at \in AtWork, use[x].at \in AtWork
    PROVE  u = x
<1>1. ASSUME NEW y \in People, use[y].at \in AtWork
      PROVE  (y \in Indexers /\ rwLock = {y}) \/ y = Keeper
  <2>1. y \in Searchers => use[y].at \notin AtWork
    BY DEF Placed, AtWork, Holding
  <2>2. y \in Indexers => use[y].at \in Holding
    BY <1>1 DEF Placed, Indexing, AtWork, Holding
  <2> QED
    BY <1>1, <2>1, <2>2, Roles DEF Locked
<1>2. "end" \notin AtWork
  BY DEF AtWork, Holding
<1>3. u = Keeper => x \notin Indexers
  BY <1>2 DEF KeeperAlone
<1>4. x = Keeper => u \notin Indexers
  BY <1>2 DEF KeeperAlone
<1> QED
  BY <1>1, <1>3, <1>4
-----------------------------------------------------------------------------
(* The savepoints of the writing connection. *)

\* There is one savepoint when a goroutine is inside, which began with what is
\* committed, and none otherwise: then the connection sees what is committed.
Single ==
    \/ savepoints = <<>> /\ view = file /\ \A u \in People : use[u].at \notin Inside
    \/ savepoints = <<file>> /\ \E u \in People : use[u].at \in Inside

SafeInv == VecTyped /\ Placed /\ Locked /\ KeeperAlone /\ Single

\* Who is at work but not inside finds no savepoint.
LEMMA NoneInside ==
    ASSUME SafeInv, NEW u \in People, use[u].at \in AtWork \ Inside
    PROVE  savepoints = <<>> /\ view = file /\ \A x \in People : use[x].at \notin Inside
<1>1. \A x \in People : use[x].at \notin Inside
  <2> SUFFICES ASSUME NEW x \in People, use[x].at \in Inside
               PROVE  FALSE
    OBVIOUS
  <2>1. use[x].at \in AtWork
    BY DEF Inside, AtWork, Holding
  <2>2. u = x
    BY <2>1, OneWriter DEF SafeInv
  <2> QED
    BY <2>2
<1> QED
  BY <1>1 DEF SafeInv, Single

\* Who is inside is alone there, in the one savepoint.
LEMMA OneInside ==
    ASSUME SafeInv, NEW u \in People, use[u].at \in Inside
    PROVE  /\ savepoints = <<file>>
           /\ \A x \in People \ {u} : use[x].at \notin AtWork
<1>1. Inside \subseteq AtWork
  BY DEF Inside, AtWork, Holding
<1> QED
  BY <1>1, OneWriter DEF SafeInv, Single

\* A savepoint begins on what is committed.
LEMMA Entered ==
    ASSUME SafeInv, NEW u \in People, Entering(u)
    PROVE  /\ savepoints = <<>> /\ view = file /\ \A x \in People : use[x].at \notin Inside
           /\ savepoints' = <<file>> /\ file' = file
           /\ UNCHANGED <<pooled, free, rwLock, acked>>
           /\ use[u].at \in AtWork \ Inside /\ use'[u].at \in Inside
<1> USE Roles DEF SafeInv, VecTyped
<1>1. use[u].at \in AtWork \ Inside /\ use'[u].at \in Inside
  <2>1. u \in Indexers /\ DropBegin(u) => use[u].at = "drop" /\ use'[u].at = "dropped"
    BY DEF DropBegin, Goes, In
  <2>2. u \in Indexers /\ InsertBegin(u) => use[u].at = "insert" /\ use'[u].at = "inserting"
    BY DEF InsertBegin, Goes, In
  <2>3. StreamBegin => use[Keeper].at = "stream" /\ use'[Keeper].at = "streaming"
    BY DEF StreamBegin, In
  <2>4. WipeBegin => use[Keeper].at = "wipe" /\ use'[Keeper].at = "wiped"
    BY DEF WipeBegin, In
  <2>5. BatchBegin => use[Keeper].at = "write" /\ use'[Keeper].at = "written"
    BY DEF BatchBegin, In
  <2> QED
    BY <2>1, <2>2, <2>3, <2>4, <2>5 DEF Entering, AtWork, Inside, Holding
<1>2. savepoints' = Append(savepoints, view) /\ file' = file /\ UNCHANGED <<pooled, free, rwLock, acked>>
  BY DEF Entering, DropBegin, InsertBegin, StreamBegin, WipeBegin, BatchBegin, Enters, Rest
<1>3. savepoints = <<>> /\ view = file /\ \A x \in People : use[x].at \notin Inside
  BY <1>1, NoneInside
<1>4. Append(<<>>, file) = <<file>>
  OBVIOUS
<1> QED
  BY <1>1, <1>2, <1>3, <1>4

\* The release of the only savepoint commits what the connection sees.
LEMMA Released ==
    ASSUME SafeInv, NEW u \in People, Leaving(u)
    PROVE  /\ savepoints = <<file>> /\ savepoints' = <<>> /\ file' = view /\ view' = view
           /\ UNCHANGED <<pooled, free>>
           /\ use[u].at \in Inside /\ use'[u].at \in Ats \ Inside
<1> USE Roles DEF SafeInv, VecTyped
<1>1. use[u].at \in Inside /\ use'[u].at \in Ats \ Inside
  <2>1. u \in Indexers /\ DropEnd(u) => use[u].at = "dropped" /\ use'[u].at \in {"insert", "end"}
    <3>1. u \in Indexers /\ DropEnd(u) => use[u].at = "dropped" /\ (Goes(u, "insert") \/ Ends(u, TRUE))
      BY DEF DropEnd, In
    <3>2. Goes(u, "insert") => use'[u].at = "insert"
      BY DEF Goes
    <3>3. Ends(u, TRUE) => use'[u].at = "end"
      BY DEF Ends
    <3> QED
      BY <3>1, <3>2, <3>3
  <2>2. u \in Indexers /\ InsertEnd(u) => use[u].at = "inserting" /\ use'[u].at = "end"
    BY DEF InsertEnd, Ends, In
  <2>3. StreamEnd => use[Keeper].at = "streaming" /\ use'[Keeper].at = "end"
    BY DEF StreamEnd, Ends, In
  <2>4. BatchEnd => use[Keeper].at \in {"wiped", "written"} /\ use'[Keeper].at \in {"write", "end"}
    <3>1. BatchEnd => use[Keeper].at \in {"wiped", "written"} /\ (Goes(Keeper, "write") \/ Ends(Keeper, archive.whole))
      BY DEF BatchEnd, RestoreEnds
    <3>2. Goes(Keeper, "write") => use'[Keeper].at = "write"
      BY DEF Goes
    <3>3. Ends(Keeper, archive.whole) => use'[Keeper].at = "end"
      BY DEF Ends
    <3> QED
      BY <3>1, <3>2, <3>3
  <2> QED
    BY <2>1, <2>2, <2>3, <2>4 DEF Leaving, Inside, Ats
<1>2. Releases /\ UNCHANGED <<pooled, free>>
  BY DEF Leaving, DropEnd, InsertEnd, StreamEnd, BatchEnd, Rest
<1>3. savepoints = <<file>>
  BY <1>1, OneInside
<1>4. Front(<<file>>) = <<>> /\ Len(<<file>>) = 1
  BY DEF Front
<1> QED
  BY <1>1, <1>2, <1>3, <1>4 DEF Releases

\* A rollback leaves what is committed.
LEMMA Undone ==
    ASSUME SafeInv, NEW u \in People, Undoing(u)
    PROVE  /\ savepoints = <<file>> /\ savepoints' = <<>> /\ file' = file /\ view' = file
           /\ UNCHANGED <<pooled, free, archive>>
           /\ use[u].at \in Inside /\ use'[u].at \in Ats \ Inside
<1> USE Roles DEF SafeInv, VecTyped
<1>1. use[u].at \in Inside /\ use'[u].at \in Ats \ Inside
  <2>1. use[u].at \in {"dropped", "inserting"} => Retried[use[u].at] \in {"drop", "insert"}
    BY DEF Retried
  <2>2. u \in Indexers /\ Busy(u) => use[u].at \in {"dropped", "inserting"} /\ use'[u].at \in {"drop", "insert"}
    BY <2>1 DEF Busy, Goes
  <2>3. u \in Indexers /\ Fails(u) => use[u].at \in {"dropped", "inserting"} /\ use'[u].at = "end"
    BY DEF Fails, Ends
  <2>4. KeeperFails => use[Keeper].at \in {"streaming", "wiped", "written"} /\ use'[Keeper].at = "end"
    BY DEF KeeperFails, Ends
  <2> QED
    BY <2>2, <2>3, <2>4 DEF Undoing, Inside, Ats
<1>2. RollsBack /\ UNCHANGED <<pooled, free, archive>>
  BY DEF Undoing, Busy, Fails, KeeperFails, Rest
<1>3. savepoints = <<file>>
  BY <1>1, OneInside
<1>4. Front(<<file>>) = <<>> /\ Len(<<file>>) = 1 /\ Last(<<file>>) = file
  BY DEF Front, Last
<1> QED
  BY <1>1, <1>2, <1>3, <1>4 DEF RollsBack

\* A step inside a savepoint changes what the connection sees, or the archive.
LEMMA GoneOn ==
    ASSUME SafeInv, NEW u \in People, Filling(u) \/ Recording(u)
    PROVE  /\ savepoints = <<file>> /\ savepoints' = savepoints /\ file' = file
           /\ UNCHANGED <<pooled, free, rwLock, acked>>
           /\ use[u].at \in Inside /\ use'[u].at = use[u].at
<1> USE Roles DEF SafeInv, VecTyped
<1>1. use[u].at \in Inside /\ use'[u].at = use[u].at
  <2>1. InsertChunk(u) => use[u].at = "inserting" /\ use'[u].at = use[u].at
    BY DEF InsertChunk, In
  <2>2. StreamRecord => use[Keeper].at = "streaming" /\ use'[Keeper].at = "streaming"
    BY DEF StreamRecord, In
  <2> QED
    BY <2>1, <2>2 DEF Filling, Recording, Inside
<1>2. savepoints = <<file>>
  BY <1>1, OneInside
<1>3. <<file>> # <<>>
  OBVIOUS
<1>4. UNCHANGED <<savepoints, pooled, free, rwLock, acked>>
  BY DEF Filling, Recording, InsertChunk, StreamRecord, Rest
<1>5. file' = file
  BY <1>2, <1>3 DEF Filling, Recording, InsertChunk, StreamRecord
<1> QED
  BY <1>1, <1>2, <1>4, <1>5

\* What comes before and beside the savepoints leaves the connection as it is.
LEMMA Waited ==
    ASSUME VecTyped, Placed, NEW u \in People, Beginning(u) \/ Locking(u) \/ Seeking(u)
    PROVE  /\ UNCHANGED <<pooled, file, view, savepoints, archive, acked>>
           /\ use[u].at \notin Inside /\ use'[u].at \in Ats \ Inside
<1> USE Roles DEF VecTyped
<1>1. CASE Beginning(u)
  <2>1. \E what, s, v : \E at \in {"lock", "reader", "stream", "wipe"} : BeginsUse(u, what, s, v, at)
    BY <1>1 DEF Beginning, DeleteUse, IndexUse, SearchBegin, BackupBegin, RestoreBegin
  <2> QED
    BY <2>1 DEF BeginsUse, NoUse, Inside, Ats
<1>2. CASE Locking(u) \/ Seeking(u)
  <2>1. u \in Indexers /\ WriteLock(u) => use[u].at = "lock" /\ use'[u].at = "drop"
    BY DEF WriteLock, Goes, In
  <2>2. u \in Searchers /\ AcquireReader(u) => use[u].at = "reader" /\ use'[u].at = "search"
    BY DEF AcquireReader, Goes, In
  <2>3. u \in Searchers /\ SearchReads(u) => use[u].at = "search" /\ use'[u].at = "end"
    BY DEF SearchReads, In
  <2>4. UNCHANGED <<pooled, file, view, savepoints, archive, acked>>
    BY <1>2 DEF Locking, Seeking, WriteLock, AcquireReader, SearchReads, Rest
  <2> QED
    BY <1>2, <2>1, <2>2, <2>3, <2>4 DEF Locking, Seeking, Inside, Ats
<1> QED
  BY <1>1, <1>2
-----------------------------------------------------------------------------
(* What the connection sees inside a savepoint. *)

\* What a restoration has put back of the records of the archive: each source
\* that is not to come is there as one of them says, and no other is.
Restored(u) ==
    \A s \in Corpus :
        \/ view[s] \in Recorded(s)
        \/ view[s] = NoDoc /\ \A i \in 1 .. Len(archive.records) :
               archive.records[i].source = s => i \in ToSet(use[u].todo)

Seeing(u) ==
    LET j == use[u]
    IN  /\ j.at = "dropped" => view = [file EXCEPT ![j.source] = NoDoc]
        /\ j.at \in {"insert", "inserting"} => file[j.source] = NoDoc
        /\ j.at = "inserting" => \E n \in 1 .. Chunks : view = [file EXCEPT ![j.source] = Doc(j.version, n)]
        /\ j.at = "streaming" => view = file
        /\ j.at \in {"wiped", "write", "written"} => Restored(u)

AllSeeing == \A u \in People : Seeing(u)

\* What a goroutine keeps while it moves on.
Keeps(u) == use'[u].call = use[u].call /\ use'[u].source = use[u].source /\ use'[u].version = use[u].version

\* Once begun, a call stays what it is.
LEMMA Moving ==
    ASSUME VecTyped, NEW u \in People, VecActs(u), ~Beginning(u)
    PROVE  Keeps(u)
<1> USE DEF VecTyped, Uses
<1>1. CASE Locking(u) \/ Seeking(u)
  <2>1. WriteLock(u) => Keeps(u)
    BY DEF WriteLock, Goes, Keeps
  <2>2. AcquireReader(u) => Keeps(u)
    BY DEF AcquireReader, Goes, Keeps
  <2>3. SearchReads(u) => Keeps(u)
    BY DEF SearchReads, Keeps
  <2> QED
    BY <1>1, <2>1, <2>2, <2>3 DEF Locking, Seeking
<1>2. CASE Entering(u)
  <2>1. DropBegin(u) \/ InsertBegin(u) => Keeps(u)
    BY DEF DropBegin, InsertBegin, Goes, Keeps
  <2>2. u = Keeper /\ (StreamBegin \/ WipeBegin \/ BatchBegin) => Keeps(u)
    BY DEF StreamBegin, WipeBegin, BatchBegin, Keeps
  <2> QED
    BY <1>2, <2>1, <2>2 DEF Entering
<1>3. CASE Filling(u) \/ Recording(u)
  BY <1>3 DEF Filling, Recording, InsertChunk, StreamRecord, Keeps
<1>4. \A at \in Ats : Goes(u, at) => Keeps(u)
  BY DEF Goes, Keeps
<1>5. \A ok \in BOOLEAN : Ends(u, ok) => Keeps(u)
  BY DEF Ends, Keeps
<1>6. CASE Leaving(u)
  <2>1. {TRUE, archive.whole} \subseteq BOOLEAN /\ {"insert", "write"} \subseteq Ats
    BY DEF Archives, Ats
  <2>2. \/ Goes(u, "insert") \/ Goes(u, "write") \/ Ends(u, TRUE) \/ Ends(u, archive.whole)
    BY <1>6 DEF Leaving, DropEnd, InsertEnd, StreamEnd, BatchEnd, RestoreEnds
  <2> QED
    BY <1>4, <1>5, <2>1, <2>2
<1>7. CASE Undoing(u)
  <2>1. \A at \in {"dropped", "inserting"} : Retried[at] \in Ats
    BY DEF Retried, Ats
  <2>2. \/ use[u].at \in {"dropped", "inserting"} /\ Goes(u, Retried[use[u].at])
        \/ Ends(u, FALSE)
    BY <1>7 DEF Undoing, Busy, Fails, KeeperFails
  <2> QED
    BY <1>4, <1>5, <2>1, <2>2
<1> QED
  BY <1>1, <1>2, <1>3, <1>6, <1>7 DEF VecActs

\* Recorded documents are whole, and recorded.
LEMMA RecordsAre ==
    ASSUME VecTyped
    PROVE  /\ Len(archive.records) \in Nat
           /\ \A i \in 1 .. Len(archive.records) :
                 /\ archive.records[i] \in [source : Corpus, doc : WholeDocs]
                 /\ archive.records[i].doc \in Recorded(archive.records[i].source)
           /\ \A s \in Corpus : Recorded(s) \subseteq WholeDocs
           /\ \A s \in Corpus : (\A i \in 1 .. Len(archive.records) : archive.records[i].source # s) => Recorded(s) = {}
<1> DEFINE r == archive.records
<1>1. r \in Seq([source : Corpus, doc : WholeDocs])
  BY DEF VecTyped, Archives
<1> HIDE DEF r
<1>2. \A R : r \in Seq(R) => Len(r) \in Nat /\ DOMAIN r = 1 .. Len(r) /\ \A i \in 1 .. Len(r) : r[i] \in R
  OBVIOUS
<1>3. Len(r) \in Nat /\ DOMAIN r = 1 .. Len(r) /\ \A i \in 1 .. Len(r) : r[i] \in [source : Corpus, doc : WholeDocs]
  BY <1>1, <1>2
<1>4. ToSet(r) = {r[i] : i \in 1 .. Len(r)}
  BY <1>3 DEF ToSet
<1> QED
  BY <1>3, <1>4 DEF Recorded, r

\* Restorations leave whole documents only.
LEMMA RestoredWhole ==
    ASSUME VecTyped, NEW u \in People, Restored(u)
    PROVE  view \in [Corpus -> WholeDocs]
<1>1. view \in [Corpus -> Docs]
  BY DocsAre DEF VecTyped
<1>2. \A s \in Corpus : view[s] \in WholeDocs
  BY RecordsAre, DocsAre DEF Restored
<1> QED
  BY <1>1, <1>2

\* What is released is whole.
LEMMA CommitsWhole ==
    ASSUME SafeInv, AllSeeing, NEW u \in People, Leaving(u)
    PROVE  view \in [Corpus -> WholeDocs]
<1> USE Roles DEF SafeInv
<1>0. Seeing(u) /\ file \in [Corpus -> WholeDocs]
  BY DEF AllSeeing, VecTyped
<1>1. CASE u \in Indexers /\ DropEnd(u)
  <2>1. view = [file EXCEPT ![use[u].source] = NoDoc]
    BY <1>0, <1>1 DEF DropEnd, In, Seeing
  <2> QED
    BY <1>0, <2>1, DocsAre
<1>2. CASE u \in Indexers /\ InsertEnd(u)
  <2>1. PICK n \in 1 .. Chunks : view = [file EXCEPT ![use[u].source] = Doc(use[u].version, n)]
    BY <1>0, <1>2 DEF InsertEnd, In, Seeing
  <2>2. use[u].source \in Corpus /\ use[u].version \in Versions
    BY <1>2 DEF InsertEnd, In, Placed, Indexing
  <2>3. view[use[u].source].chunks = n
    BY <1>0, <2>1, <2>2, DocsAre
  <2>4. n = Chunks
    <3>1. n \notin 1 .. (Chunks - 1)
      BY <1>2, <2>3 DEF InsertEnd
    <3> QED
      BY <3>1, VecAssumption
  <2> QED
    BY <1>0, <2>1, <2>2, <2>4, DocsAre
<1>3. CASE u = Keeper /\ StreamEnd
  BY <1>0, <1>3 DEF StreamEnd, In, Seeing
<1>4. CASE u = Keeper /\ BatchEnd
  BY <1>0, <1>4, RestoredWhole DEF BatchEnd, Seeing
<1> QED
  BY <1>1, <1>2, <1>3, <1>4 DEF Leaving

\* Every step keeps what is seen inside.
LEMMA SeeingNext ==
    ASSUME SafeInv, AllSeeing, VecNext
    PROVE  AllSeeing'
<1> USE Roles DEF SafeInv
<1>1. ASSUME NEW p \in {"yes", "no"}, OpenVec(p)
      PROVE  AllSeeing'
  BY <1>1 DEF OpenVec, Placed, AllSeeing, Seeing
<1>2. CASE CrashVec
  BY <1>2 DEF CrashVec, NoUse, AllSeeing, Seeing
<1>3. ASSUME NEW u \in People, VecActs(u)
      PROVE  AllSeeing'
  <2>1. \A x \in People \ {u} : use'[x] = use[x]
    BY <1>3, OthersStay
  <2>2. CASE Beginning(u) \/ Locking(u) \/ Seeking(u)
    <3>1. UNCHANGED <<file, view, archive>>
      BY <2>2, Waited
    <3>2. use'[u].at \notin {"dropped", "insert", "inserting", "streaming", "wiped", "write", "written"}
      <4>1. CASE Beginning(u)
        <5>1. \E what, s, v : \E at \in {"lock", "reader", "stream", "wipe"} : BeginsUse(u, what, s, v, at)
          BY <4>1 DEF Beginning, DeleteUse, IndexUse, SearchBegin, BackupBegin, RestoreBegin
        <5> QED
          BY <5>1 DEF BeginsUse, NoUse, VecTyped
      <4>2. CASE Locking(u)
        BY <4>2 DEF Locking, WriteLock, Goes, VecTyped, Uses
      <4>3. CASE Seeking(u)
        <5>1. AcquireReader(u) => use'[u].at = "search"
          BY DEF AcquireReader, Goes, VecTyped, Uses
        <5>2. SearchReads(u) => use'[u].at = "end"
          BY DEF SearchReads, VecTyped, Uses
        <5> QED
          BY <4>3, <5>1, <5>2 DEF Seeking
      <4> QED
        BY <2>2, <4>1, <4>2, <4>3
    <3>3. Seeing(u)'
      BY <3>2 DEF Seeing
    <3>4. ASSUME NEW x \in People \ {u}
          PROVE  Seeing(x)'
      BY <2>1, <3>1, <3>4 DEF AllSeeing, Seeing, Restored, Recorded
    <3> QED
      BY <3>3, <3>4 DEF AllSeeing
  <2>3. ASSUME use[u].at \in AtWork, Seeing(u)'
        PROVE  AllSeeing'
    <3>1. \A x \in People \ {u} : use'[x].at \notin AtWork
      BY <2>1, <2>3, OneWriter
    <3>2. ASSUME NEW x \in People, use'[x].at \notin AtWork
          PROVE  Seeing(x)'
      BY <3>2 DEF Seeing, AtWork, Holding
    <3> QED
      BY <2>3, <3>1, <3>2 DEF AllSeeing
  <2>4. Seeing(u)
    BY DEF AllSeeing
  <2>5. Inside \subseteq AtWork
    BY DEF Inside, AtWork, Holding
  <2>6. CASE Entering(u)
    <3>1. /\ savepoints = <<>> /\ view = file /\ file' = file /\ use[u].at \in AtWork /\ Keeps(u)
      BY <1>3, <2>6, Entered, Moving DEF Entering, DropBegin, InsertBegin, StreamBegin, WipeBegin, BatchBegin,
            Beginning, DeleteUse, IndexUse, SearchBegin, BackupBegin, RestoreBegin, BeginsUse, In
    <3> SUFFICES Seeing(u)'
      BY <2>3, <3>1
    <3>2. CASE u \in Indexers /\ DropBegin(u)
      <4>1. use'[u].at = "dropped" /\ view' = [file EXCEPT ![use[u].source] = NoDoc]
        BY <3>1, <3>2 DEF DropBegin, Goes, Enters, VecTyped, Uses
      <4> QED
        BY <3>1, <4>1 DEF Seeing, Keeps
    <3>3. CASE u \in Indexers /\ InsertBegin(u)
      <4>1. use'[u].at = "inserting" /\ view' = [file EXCEPT ![use[u].source] = Doc(use[u].version, 1)]
        BY <3>1, <3>3 DEF InsertBegin, Goes, Enters, VecTyped, Uses
      <4>2. file[use[u].source] = NoDoc
        BY <2>4, <3>3 DEF InsertBegin, In, Seeing
      <4> QED
        BY <3>1, <4>1, <4>2, DocsAre DEF Seeing, Keeps
    <3>4. CASE u = Keeper /\ StreamBegin
      <4>1. use'[u].at = "streaming" /\ view' = view
        BY <3>4 DEF StreamBegin, Enters, VecTyped, Uses
      <4> QED
        BY <3>1, <4>1 DEF Seeing
    <3>5. CASE u = Keeper /\ WipeBegin
      <4>1. /\ use'[u].at = "wiped" /\ use'[u].todo = [n \in 1 .. Len(archive.records) |-> n]
            /\ view' = [s \in Corpus |-> NoDoc] /\ archive' = archive
        BY <3>5 DEF WipeBegin, Enters, VecTyped, Uses
      <4>2. ToSet(use'[u].todo) = 1 .. Len(archive.records)
        BY <4>1 DEF ToSet
      <4>3. Restored(u)'
        BY <4>1, <4>2 DEF Restored
      <4> QED
        BY <4>1, <4>3 DEF Seeing
    <3>6. CASE u = Keeper /\ BatchBegin
      <4> DEFINE h == Head(use[u].todo)
                 r == archive.records[h]
      <4>1. /\ use[u].at = "write" /\ use'[u].at = "written" /\ use'[u].todo = Tail(use[u].todo)
            /\ view' = [view EXCEPT ![r.source] = r.doc] /\ archive' = archive
        BY <3>6 DEF BatchBegin, In, Enters, VecTyped, Uses
      <4>2. use[u].todo \in Seq(1 .. Len(archive.records))
        BY <3>6, <4>1 DEF Placed
      <4>3. CASE use[u].todo # <<>>
        <5>1. h \in 1 .. Len(archive.records) /\ ToSet(use[u].todo) = ToSet(use'[u].todo) \union {h}
          BY <4>1, <4>2, <4>3, TailKeeps
        <5>2. r.source \in Corpus /\ r.doc \in Recorded(r.source)
          BY <5>1, RecordsAre
        <5>3. \A s \in Corpus : Recorded(s)' = Recorded(s)
          BY <4>1 DEF Recorded
        <5>4. Restored(u)
          BY <2>4, <4>1 DEF Seeing
        <5>5. view \in [Corpus -> Docs]
          BY DocsAre DEF VecTyped
        <5>6. ASSUME NEW s \in Corpus
              PROVE  \/ view'[s] \in Recorded(s)
                     \/ view'[s] = NoDoc /\ \A i \in 1 .. Len(archive.records) :
                            archive.records[i].source = s => i \in ToSet(use'[u].todo)
          <6>1. CASE s = r.source
            BY <4>1, <5>2, <5>5, <6>1
          <6>2. CASE s # r.source
            <7>1. view'[s] = view[s]
              BY <4>1, <5>5, <6>2
            <7>2. \A i \in 1 .. Len(archive.records) : archive.records[i].source = s => i # h
              BY <6>2
            <7> HIDE DEF h, r
            <7> QED
              BY <5>1, <5>4, <7>1, <7>2 DEF Restored
          <6> QED
            BY <6>1, <6>2
        <5>7. Restored(u)'
          BY <4>1, <5>3, <5>6 DEF Restored
        <5> QED
          BY <4>1, <5>7 DEF Seeing
      <4>4. use[u].todo # <<>>
        BY <3>6, <4>1 DEF Placed
      <4> QED
        BY <4>3, <4>4
    <3> QED
      BY <2>6, <3>2, <3>3, <3>4, <3>5, <3>6 DEF Entering
  <2>7. CASE Filling(u)
    <3>1. savepoints = <<file>> /\ file' = file /\ use[u].at \in AtWork /\ use'[u] = use[u] /\ use[u].at = "inserting"
      BY <2>5, <2>7, GoneOn DEF Filling, InsertChunk, In
    <3>2. PICK n \in 1 .. Chunks : view = [file EXCEPT ![use[u].source] = Doc(use[u].version, n)]
      BY <2>4, <3>1 DEF Seeing
    <3>3. use[u].source \in Corpus /\ use[u].version \in Versions /\ file \in [Corpus -> Docs]
      BY <2>7, <3>1, DocsAre DEF Filling, Placed, Indexing, VecTyped
    <3>4. view[use[u].source] = Doc(use[u].version, n)
      BY <3>2, <3>3
    <3>5. n \in 1 .. (Chunks - 1) /\ n + 1 \in 1 .. Chunks
      <4>1. n \in 1 .. (Chunks - 1)
        BY <2>7, <3>4 DEF Filling, InsertChunk, Doc
      <4> QED
        BY <4>1, VecAssumption
    <3>6. view' = [view EXCEPT ![use[u].source].chunks = @ + 1]
      BY <2>7 DEF Filling, InsertChunk
    <3>7. [view[use[u].source] EXCEPT !.chunks = @ + 1] = Doc(use[u].version, n + 1)
      BY <3>4 DEF Doc
    <3>8. view' = [file EXCEPT ![use[u].source] = Doc(use[u].version, n + 1)]
      BY <3>2, <3>3, <3>6, <3>7
    <3>9. Seeing(u)'
      BY <2>4, <3>1, <3>5, <3>8 DEF Seeing
    <3> QED
      BY <2>3, <3>1, <3>9
  <2>8. CASE Recording(u)
    <3>1. file' = file /\ view' = view /\ use[u].at \in AtWork /\ use'[u].at = "streaming" /\ use[u].at = "streaming"
      BY <2>5, <2>8, GoneOn DEF Recording, StreamRecord, In
    <3>2. Seeing(u)'
      BY <2>4, <3>1 DEF Seeing
    <3> QED
      BY <2>3, <3>1, <3>2
  <2>9. CASE Leaving(u)
    <3>1. /\ file' = view /\ view' = view /\ use[u].at \in AtWork
      BY <2>5, <2>9, Released
    <3>2. Seeing(u)' \/ use'[u].at \in {"insert", "write"}
      <4>1. use'[u].at \in Ats \ Inside
        BY <2>9, Released
      <4>2. CASE use'[u].at \notin {"insert", "write"}
        BY <4>1, <4>2 DEF Seeing, Inside
      <4> QED
        BY <4>2
    <3>3. CASE use'[u].at = "insert"
      <4>1. u \in Indexers /\ DropEnd(u) /\ use[u].at = "dropped" /\ use'[u].source = use[u].source
        <5>1. InsertEnd(u) => use'[u].at = "end"
          BY DEF InsertEnd, Ends, VecTyped, Uses
        <5>2. u = Keeper => use'[u].at # "insert"
          <6>1. Goes(Keeper, "write") => use'[Keeper].at = "write"
            BY DEF Goes, VecTyped, Uses
          <6>2. Ends(Keeper, TRUE) \/ Ends(Keeper, archive.whole) => use'[Keeper].at = "end"
            BY DEF Ends, VecTyped, Uses
          <6> QED
            BY <2>9, <6>1, <6>2 DEF Leaving, StreamEnd, BatchEnd, RestoreEnds
        <5>3. u \in Indexers /\ DropEnd(u) /\ use[u].at = "dropped"
          BY <2>9, <3>3, <5>1, <5>2 DEF Leaving, DropEnd, In
        <5>4. ~Beginning(u)
          BY <5>3 DEF Beginning, DeleteUse, IndexUse, BeginsUse
        <5> QED
          BY <1>3, <5>3, <5>4, Moving DEF Keeps
      <4>2. view = [file EXCEPT ![use[u].source] = NoDoc] /\ use[u].source \in Corpus /\ file \in [Corpus -> WholeDocs]
        BY <2>4, <4>1 DEF Seeing, Placed, Indexing, VecTyped
      <4>3. Seeing(u)'
        BY <3>1, <3>3, <4>1, <4>2 DEF Seeing
      <4> QED
        BY <2>3, <3>1, <4>3
    <3>4. CASE use'[u].at = "write"
      <4>1. u = Keeper /\ BatchEnd /\ use'[u].todo = use[u].todo
        <5>1. InsertEnd(u) \/ Ends(u, TRUE) \/ Ends(u, archive.whole) => use'[u].at = "end"
          BY DEF InsertEnd, Ends, VecTyped, Uses
        <5>2. Goes(u, "insert") => use'[u].at = "insert"
          BY DEF Goes, VecTyped, Uses
        <5>3. u = Keeper /\ BatchEnd /\ Goes(u, "write")
          BY <2>9, <3>4, <5>1, <5>2 DEF Leaving, DropEnd, InsertEnd, StreamEnd, BatchEnd, RestoreEnds
        <5> QED
          BY <5>3 DEF Goes, VecTyped, Uses
      <4>2. Restored(u) /\ archive' = archive
        BY <2>4, <4>1 DEF Seeing, BatchEnd
      <4>3. Restored(u)'
        BY <3>1, <4>1, <4>2 DEF Restored, Recorded
      <4>4. Seeing(u)'
        BY <3>4, <4>3 DEF Seeing
      <4> QED
        BY <2>3, <3>1, <4>4
    <3> QED
      BY <2>3, <3>1, <3>2, <3>3, <3>4
  <2>10. CASE Undoing(u)
    <3>1. file' = file /\ view' = file /\ use[u].at \in AtWork /\ use'[u].at \in Ats \ Inside
      BY <2>5, <2>10, Undone
    <3>2. CASE use'[u].at \notin {"insert", "write"}
      <4>1. Seeing(u)'
        BY <3>1, <3>2 DEF Seeing, Inside
      <4> QED
        BY <2>3, <3>1, <4>1
    <3>3. CASE use'[u].at \in {"insert", "write"}
      <4>1. Ends(u, FALSE) => use'[u].at = "end"
        BY DEF Ends, VecTyped, Uses
      <4>2. use[u].at \in {"dropped", "inserting"} /\ use'[u] = [use[u] EXCEPT !.at = Retried[use[u].at]]
        BY <2>10, <3>3, <4>1 DEF Undoing, Busy, Fails, KeeperFails, Goes, VecTyped
      <4>3. use'[u].at = Retried[use[u].at] /\ use'[u].source = use[u].source
        BY <4>2 DEF VecTyped, Uses
      <4>4. Retried["dropped"] = "drop" /\ Retried["inserting"] = "insert"
        BY DEF Retried
      <4>5. use[u].at = "inserting" /\ use'[u].at = "insert"
        BY <3>3, <4>2, <4>3, <4>4
      <4>6. Seeing(u)'
        BY <2>4, <3>1, <4>3, <4>5 DEF Seeing
      <4> QED
        BY <2>3, <3>1, <4>6
    <3> QED
      BY <3>2, <3>3
  <2> QED
    BY <1>3, <2>2, <2>6, <2>7, <2>8, <2>9, <2>10 DEF VecActs
<1> QED
  BY <1>1, <1>2, <1>3, VecSteps
-----------------------------------------------------------------------------
(* The types and the places stay what they are. *)

\* A call that moves on, that ends or that has something else left to do is a call.
LEMMA UseFields ==
    ASSUME NEW j \in Uses
    PROVE  /\ \A at \in Ats : [j EXCEPT !.at = at] \in Uses
           /\ \A ok \in BOOLEAN : [j EXCEPT !.at = "end", !.ok = ok] \in Uses
           /\ \A todo \in Seq(Corpus) \union Seq(Nat) : [j EXCEPT !.todo = todo] \in Uses
           /\ \A at \in Ats, todo \in Seq(Corpus) \union Seq(Nat) :
                 [j EXCEPT !.at = at, !.todo = todo] \in Uses
<1>1. \A at \in Ats : [j EXCEPT !.at = at] \in Uses
  BY DEF Uses
<1>2. \A ok \in BOOLEAN : [j EXCEPT !.at = "end", !.ok = ok] \in Uses
  BY DEF Uses, Ats
<1>3. \A todo \in Seq(Corpus) \union Seq(Nat) : [j EXCEPT !.todo = todo] \in Uses
  BY DEF Uses
<1>4. \A at \in Ats, todo \in Seq(Corpus) \union Seq(Nat) : [j EXCEPT !.at = at, !.todo = todo] \in Uses
  <2> TAKE at \in Ats, todo \in Seq(Corpus) \union Seq(Nat)
  <2>1. [j EXCEPT !.at = at] \in Uses
    BY <1>1
  <2>2. [[j EXCEPT !.at = at] EXCEPT !.todo = todo] \in Uses
    BY <2>1 DEF Uses
  <2>3. [[j EXCEPT !.at = at] EXCEPT !.todo = todo] = [j EXCEPT !.at = at, !.todo = todo]
    BY DEF Uses
  <2> QED
    BY <2>2, <2>3
<1> QED
  BY <1>1, <1>2, <1>3, <1>4

\* Every step keeps the record of each goroutine's call.
LEMMA UsesNext ==
    ASSUME SafeInv, NEW u \in People, VecActs(u)
    PROVE  use' \in [People -> Uses]
<1> USE Roles DEF SafeInv, VecTyped
<1>0. /\ \A j \in Uses, at \in Ats : [j EXCEPT !.at = at] \in Uses
      /\ \A j \in Uses, ok \in BOOLEAN : [j EXCEPT !.at = "end", !.ok = ok] \in Uses
      /\ \A j \in Uses, at \in Ats, todo \in Seq(Corpus) \union Seq(Nat) : [j EXCEPT !.at = at, !.todo = todo] \in Uses
  BY UseFields
<1>1. \A at \in Ats : Goes(u, at) => use' \in [People -> Uses]
  <2> TAKE at \in Ats
  <2>1. Goes(u, at) => use' = [use EXCEPT ![u] = [use[u] EXCEPT !.at = at]]
    BY DEF Goes
  <2>2. [use[u] EXCEPT !.at = at] \in Uses
    BY <1>0
  <2> QED
    BY <2>1, <2>2
<1>2. \A ok \in BOOLEAN : Ends(u, ok) => use' \in [People -> Uses]
  <2> TAKE ok \in BOOLEAN
  <2>1. Ends(u, ok) => use' = [use EXCEPT ![u] = [use[u] EXCEPT !.at = "end", !.ok = ok]]
    BY DEF Ends
  <2>2. [use[u] EXCEPT !.at = "end", !.ok = ok] \in Uses
    BY <1>0
  <2> QED
    BY <2>1, <2>2
<1>3. CASE Beginning(u)
  <2>1. ASSUME NEW what \in Calls, NEW s \in Corpus \union {0}, NEW v \in Versions \union {0}, NEW at \in Ats,
               BeginsUse(u, what, s, v, at)
        PROVE  use' \in [People -> Uses]
    <3>1. [NoUse EXCEPT !.call = what, !.at = at, !.source = s, !.version = v] \in Uses
      <4>1. NoUse \in Uses
        BY DEF NoUse, Uses, Calls, Ats
      <4>2. \A j \in Uses : [j EXCEPT !.call = what, !.at = at, !.source = s, !.version = v] \in Uses
        BY <2>1 DEF Uses
      <4> QED
        BY <4>1, <4>2
    <3> QED
      BY <2>1, <3>1 DEF BeginsUse
  <2>2. {"index", "delete", "search", "backup", "restore"} \subseteq Calls /\ {"lock", "reader", "stream", "wipe"} \subseteq Ats
    BY DEF Calls, Ats
  <2> QED
    <3>1. CASE u \in Indexers
      BY <1>3, <2>1, <2>2, <3>1 DEF Beginning, DeleteUse, IndexUse
    <3>2. CASE u \in Searchers
      BY <1>3, <2>1, <2>2, <3>2 DEF Beginning, SearchBegin
    <3>3. CASE u = Keeper
      BY <1>3, <2>1, <2>2, <3>3 DEF Beginning, BackupBegin, RestoreBegin
    <3> QED
      BY <3>1, <3>2, <3>3
<1>4. CASE Locking(u)
  BY <1>1, <1>4 DEF Locking, WriteLock, Ats
<1>5. CASE Seeking(u)
  <2>1. AcquireReader(u) => use' \in [People -> Uses]
    BY <1>1 DEF AcquireReader, Ats
  <2>2. ASSUME SearchReads(u)
        PROVE  use' \in [People -> Uses]
    <3> DEFINE seen == IF pooled = "yes" THEN file ELSE view
    <3>1. seen \in Tables \union {<<>>} /\ "end" \in Ats
      BY DocsAre DEF Ats
    <3> HIDE DEF seen
    <3>2. [use[u] EXCEPT !.at = "end", !.saw = seen] \in Uses
      BY <3>1 DEF Uses
    <3>3. use' = [use EXCEPT ![u] = [use[u] EXCEPT !.at = "end", !.saw = seen]]
      BY <2>2 DEF SearchReads, seen, Uses
    <3> QED
      BY <3>2, <3>3
  <2> QED
    BY <1>5, <2>1, <2>2 DEF Seeking
<1>6. \A at \in Ats, todo \in Seq(Corpus) \union Seq(Nat) :
          use' = [use EXCEPT ![Keeper].at = at, ![Keeper].todo = todo] => use' \in [People -> Uses]
  <2> TAKE at \in Ats, todo \in Seq(Corpus) \union Seq(Nat)
  <2>1. use' = [use EXCEPT ![Keeper].at = at, ![Keeper].todo = todo]
           => use' = [use EXCEPT ![Keeper] = [use[Keeper] EXCEPT !.at = at, !.todo = todo]]
    OBVIOUS
  <2>2. [use[Keeper] EXCEPT !.at = at, !.todo = todo] \in Uses
    BY <1>0
  <2> QED
    BY <2>1, <2>2
<1>7. Len(archive.records) \in Nat
  BY RecordsAre
<1>8. CASE Entering(u)
  <2>1. DropBegin(u) \/ InsertBegin(u) => use' \in [People -> Uses]
    BY <1>1 DEF DropBegin, InsertBegin, Ats
  <2>2. StreamBegin => use' \in [People -> Uses]
    BY <1>6, InOrderLists DEF StreamBegin, Ats
  <2>3. WipeBegin => use' \in [People -> Uses]
    <3>1. [n \in 1 .. Len(archive.records) |-> n] \in Seq(Nat)
      BY <1>7
    <3> QED
      BY <1>6, <3>1 DEF WipeBegin, Ats
  <2>4. ASSUME BatchBegin
        PROVE  use' \in [People -> Uses]
    <3>1. /\ use[Keeper].todo \in Seq(1 .. Len(archive.records)) /\ use[Keeper].todo # <<>>
      BY <2>4 DEF BatchBegin, In, Placed
    <3>2. Tail(use[Keeper].todo) \in Seq(1 .. Len(archive.records))
      BY <3>1, TailKeeps
    <3>3. Seq(1 .. Len(archive.records)) \subseteq Seq(Nat)
      BY <1>7
    <3>4. use' = [use EXCEPT ![Keeper].at = "written", ![Keeper].todo = Tail(use[Keeper].todo)]
      BY <2>4 DEF BatchBegin, Uses
    <3> QED
      BY <1>6, <3>2, <3>3, <3>4 DEF Ats
  <2> QED
    BY <1>8, <2>1, <2>2, <2>3, <2>4 DEF Entering
<1>9. CASE Filling(u)
  BY <1>9 DEF Filling, InsertChunk
<1>10. CASE Recording(u)
  <2>1. use[Keeper].todo \in Seq(Corpus) /\ use[Keeper].todo # <<>>
    BY <1>10 DEF Recording, StreamRecord, In, Placed
  <2>2. Tail(use[Keeper].todo) \in Seq(Corpus)
    BY <2>1, TailKeeps
  <2>3. use' = [use EXCEPT ![Keeper].todo = Tail(use[Keeper].todo)]
    BY <1>10 DEF Recording, StreamRecord
  <2>4. [use[Keeper] EXCEPT !.todo = Tail(use[Keeper].todo)] \in Uses
    BY <2>2, UseFields
  <2> QED
    BY <2>3, <2>4
<1>11. CASE Leaving(u)
  <2>1. archive.whole \in BOOLEAN /\ {"insert", "write"} \subseteq Ats
    BY DEF Archives, Ats
  <2>2. \/ Goes(u, "insert") \/ Goes(u, "write") \/ Ends(u, TRUE) \/ Ends(u, archive.whole)
    BY <1>11 DEF Leaving, DropEnd, InsertEnd, StreamEnd, BatchEnd, RestoreEnds
  <2> QED
    BY <1>1, <1>2, <2>1, <2>2
<1>12. CASE Undoing(u)
  <2>1. \A at \in {"dropped", "inserting"} : Retried[at] \in Ats
    BY DEF Retried, Ats
  <2>2. \/ use[u].at \in {"dropped", "inserting"} /\ Goes(u, Retried[use[u].at])
        \/ Ends(u, FALSE)
    BY <1>12 DEF Undoing, Busy, Fails, KeeperFails
  <2> QED
    BY <1>1, <1>2, <2>1, <2>2
<1> QED
  BY <1>3, <1>4, <1>5, <1>8, <1>9, <1>10, <1>11, <1>12 DEF VecActs

\* Every step keeps what is acknowledged a set of documents, and the archive
\* a sequence of records.
LEMMA KeptTyped ==
    ASSUME SafeInv, AllSeeing, NEW u \in People, VecActs(u)
    PROVE  acked' \in [Corpus -> SUBSET Docs] /\ archive' \in Archives /\ rwLock' \subseteq People
<1> USE Roles DEF SafeInv, VecTyped
<1>1. CASE Beginning(u) \/ Locking(u) \/ Seeking(u)
  <2>1. UNCHANGED <<acked, archive>>
    BY <1>1, Waited
  <2>2. rwLock' \subseteq rwLock \union {u}
    <3>1. CASE Beginning(u)
      BY <3>1 DEF Beginning, DeleteUse, IndexUse, SearchBegin, BackupBegin, RestoreBegin, BeginsUse
    <3>2. CASE Locking(u)
      BY <3>2 DEF Locking, WriteLock
    <3>3. CASE Seeking(u)
      BY <3>3 DEF Seeking, AcquireReader, SearchReads, Unlocks
    <3> QED
      BY <1>1, <3>1, <3>2, <3>3
  <2> QED
    BY <2>1, <2>2
<1>2. CASE Entering(u)
  <2>1. UNCHANGED <<acked, rwLock>>
    BY <1>2, Entered
  <2>2. archive' \in Archives
    <3>1. [records |-> <<>>, whole |-> FALSE] \in Archives
      BY DEF Archives
    <3> QED
      BY <1>2, <3>1 DEF Entering, DropBegin, InsertBegin, StreamBegin, WipeBegin, BatchBegin
  <2> QED
    BY <2>1, <2>2
<1>3. CASE Filling(u)
  <2>1. archive' = archive
    BY <1>3 DEF Filling, InsertChunk
  <2> QED
    BY <1>3, <2>1, GoneOn
<1>4. CASE Recording(u)
  <2> DEFINE s == Head(use[Keeper].todo)
             r == [source |-> s, doc |-> view[s]]
  <2>1. use[Keeper].todo \in Seq(Corpus) /\ use[Keeper].todo # <<>> /\ view = file
    BY <1>4 DEF Recording, StreamRecord, In, Placed, AllSeeing, Seeing
  <2>2. s \in Corpus
    BY <2>1, TailKeeps
  <2>3. r \in [source : Corpus, doc : WholeDocs]
    BY <2>1, <2>2
  <2>4. archive.records \in Seq([source : Corpus, doc : WholeDocs]) /\ archive.whole \in BOOLEAN
    BY DEF Archives
  <2>5. Append(archive.records, r) \in Seq([source : Corpus, doc : WholeDocs])
    BY <2>3, <2>4, AppendAdds
  <2>6. archive' = [archive EXCEPT !.records = IF view[s] = NoDoc THEN archive.records ELSE Append(archive.records, r)]
    BY <1>4 DEF Recording, StreamRecord
  <2> HIDE DEF r
  <2>7. archive' \in Archives
    BY <2>4, <2>5, <2>6 DEF Archives
  <2> QED
    BY <1>4, <2>7, GoneOn
<1>5. \A d \in Docs : {d} \in SUBSET Docs
  OBVIOUS
<1>6. CASE Leaving(u)
  <2>1. CASE u \in Indexers /\ DropEnd(u)
    <3>1. UNCHANGED archive /\ (UNCHANGED <<rwLock, acked>> \/ (Unlocks(u) /\ Is(use[u].source, NoDoc)))
      BY <2>1 DEF DropEnd
    <3>2. Is(use[u].source, NoDoc) => acked' \in [Corpus -> SUBSET Docs]
      <4>1. {NoDoc} \in SUBSET Docs
        BY DocsAre
      <4>2. \A s : [acked EXCEPT ![s] = {NoDoc}] \in [Corpus -> SUBSET Docs]
        BY <4>1
      <4> QED
        BY <4>2 DEF Is
    <3> QED
      BY <3>1, <3>2 DEF Unlocks
  <2>2. CASE u \in Indexers /\ InsertEnd(u)
    <3>1. use[u].version \in Versions
      BY <2>2 DEF InsertEnd, In, Placed, Indexing
    <3>2. Doc(use[u].version, Chunks) \in Docs
      BY <3>1, DocsAre
    <3> QED
      BY <2>2, <3>2 DEF InsertEnd, Is, Unlocks
  <2>3. CASE u = Keeper /\ StreamEnd
    BY <2>3 DEF StreamEnd, Archives
  <2>4. CASE u = Keeper /\ BatchEnd
    <3>1. \A s \in Corpus : Recorded(s) \in SUBSET Docs
      BY RecordsAre, DocsAre
    <3>2. RestoreEnds => acked' \in [Corpus -> SUBSET Docs]
      BY <3>1, DocsAre DEF RestoreEnds
    <3> QED
      BY <2>4, <3>2 DEF BatchEnd
  <2> QED
    BY <1>6, <2>1, <2>2, <2>3, <2>4 DEF Leaving
<1>7. CASE Undoing(u)
  <2>1. archive' = archive
    BY <1>7, Undone
  <2>2. CASE u \in Indexers /\ Busy(u)
    BY <2>1, <2>2 DEF Busy
  <2>3. CASE u \in Indexers /\ Fails(u)
    <3>1. Unlocks(u) /\ acked' = [acked EXCEPT ![use[u].source] = acked[use[u].source] \union {NoDoc}]
      BY <2>3 DEF Fails
    <3>2. use[u].source \in Corpus
      BY <2>3 DEF Fails, Placed, Indexing
    <3>3. acked[use[u].source] \union {NoDoc} \in SUBSET Docs
      BY <3>2, DocsAre
    <3> QED
      BY <2>1, <3>1, <3>3 DEF Unlocks
  <2>4. CASE u = Keeper /\ KeeperFails
    <3>1. \A s \in Corpus : Possible(Keeper, s) \subseteq Docs
      <4>1. use[Keeper].call \in {"backup", "restore"}
        BY <2>4 DEF KeeperFails, Placed, Keeping
      <4> QED
        BY <4>1, RecordsAre, DocsAre DEF Possible
    <3>2. \A s \in Corpus : acked[s] \union Possible(Keeper, s) \in SUBSET Docs
      BY <3>1
    <3> QED
      BY <2>1, <2>4, <3>2 DEF KeeperFails
  <2> QED
    BY <1>7, <2>2, <2>3, <2>4 DEF Undoing
<1> QED
  BY <1>1, <1>2, <1>3, <1>4, <1>6, <1>7 DEF VecActs

\* What a call may leave of a source is none of it, or documents.
LEMMA PossibleDocs ==
    ASSUME VecTyped, Placed, NEW u \in People, NEW s \in Corpus, Writing(u)
    PROVE  Possible(u, s) \subseteq Docs
<1>1. CASE use[u].call = "restore"
  BY <1>1, RecordsAre, DocsAre DEF Possible
<1>2. CASE use[u].call \in {"index", "delete"}
  <2>1. use[u].version \in Versions \union {0}
    BY DEF VecTyped, Uses
  <2>2. \A v \in {use[u].version} \ {0} : Doc(v, Chunks) \in Docs
    BY <2>1, DocsAre
  <2> QED
    BY <1>2, <2>2, DocsAre DEF Possible
<1>3. CASE use[u].call \notin {"restore", "index", "delete"}
  BY <1>3 DEF Possible
<1> QED
  BY <1>1, <1>2, <1>3

\* Every step keeps the types.
LEMMA VecTypedNext ==
    ASSUME SafeInv, AllSeeing, VecNext
    PROVE  VecTyped'
<1> USE Roles DEF SafeInv
<1>1. ASSUME NEW p \in {"yes", "no"}, OpenVec(p)
      PROVE  VecTyped'
  <2>1. Doc(1, Chunks) \in WholeDocs
    BY DocsAre
  <2>2. UNCHANGED <<savepoints, rwLock, use, archive>> /\ pooled' \in {"yes", "no", "none"}
    BY <1>1 DEF OpenVec
  <2>3. CASE UNCHANGED <<file, view, acked>>
    BY <2>2, <2>3 DEF VecTyped
  <2>4. CASE /\ file' = [s \in Corpus |-> Doc(1, Chunks)]
             /\ view' = file' /\ acked' = [s \in Corpus |-> {file'[s]}]
    <3>1. file' \in [Corpus -> WholeDocs]
      BY <2>1, <2>4
    <3>2. view' \in Tables /\ acked' \in [Corpus -> SUBSET Docs]
      BY <2>1, <2>4, <3>1, DocsAre
    <3> QED
      BY <2>2, <3>1, <3>2 DEF VecTyped
  <2> QED
    BY <1>1, <2>3, <2>4 DEF OpenVec
<1>2. CASE CrashVec
  <2>1. NoUse \in Uses
    BY DEF NoUse, Uses, Calls, Ats
  <2>2. ASSUME NEW s \in Corpus
        PROVE  acked[s] \union UNION {Possible(u, s) : u \in {x \in People : Writing(x)}} \in SUBSET Docs
    BY PossibleDocs DEF VecTyped
  <2>3. acked' \in [Corpus -> SUBSET Docs]
    BY <1>2, <2>2 DEF CrashVec
  <2>4. view' \in Tables
    BY <1>2, DocsAre DEF CrashVec, VecTyped
  <2>5. use' \in [People -> Uses]
    BY <1>2, <2>1 DEF CrashVec
  <2> QED
    BY <1>2, <2>3, <2>4, <2>5 DEF CrashVec, VecTyped
<1>3. ASSUME NEW u \in People, VecActs(u)
      PROVE  VecTyped'
  <2>1. use' \in [People -> Uses] /\ acked' \in [Corpus -> SUBSET Docs] /\ archive' \in Archives /\ rwLock' \subseteq People
    BY <1>3, UsesNext, KeptTyped
  <2> SUFFICES /\ pooled' = pooled /\ file' \in [Corpus -> WholeDocs] /\ view' \in Tables
               /\ savepoints' \in Seq(Tables)
    BY <2>1 DEF VecTyped
  <2>2. file \in [Corpus -> WholeDocs] /\ file \in Tables /\ <<>> \in Seq(Tables) /\ <<file>> \in Seq(Tables)
    <3>1. file \in Tables
      BY DocsAre DEF VecTyped
    <3>2. \A T, t : t \in T => <<>> \in Seq(T) /\ <<t>> \in Seq(T)
      OBVIOUS
    <3> QED
      BY <3>1, <3>2 DEF VecTyped
  <2>3. CASE Beginning(u) \/ Locking(u) \/ Seeking(u)
    BY <2>3, Waited DEF VecTyped
  <2>4. CASE Entering(u)
    <3>1. pooled' = pooled /\ file' = file /\ savepoints' = <<file>> /\ view = file
      BY <2>4, Entered
    <3>2. CASE u \in Indexers /\ DropBegin(u)
      BY <2>2, <3>1, <3>2, DocsAre DEF DropBegin, Enters
    <3>3. CASE u \in Indexers /\ InsertBegin(u)
      <4>1. use[u].version \in Versions
        BY <3>3 DEF InsertBegin, In, Placed, Indexing
      <4>2. Doc(use[u].version, 1) \in Docs
        BY <4>1, DocsAre
      <4> QED
        BY <2>2, <3>1, <3>3, <4>2, DocsAre DEF InsertBegin, Enters
    <3>4. CASE u = Keeper /\ StreamBegin
      BY <2>2, <3>1, <3>4 DEF StreamBegin, Enters
    <3>5. CASE u = Keeper /\ WipeBegin
      BY <2>2, <3>1, <3>5, DocsAre DEF WipeBegin, Enters
    <3>6. CASE u = Keeper /\ BatchBegin
      <4>1. Head(use[Keeper].todo) \in 1 .. Len(archive.records)
        BY <3>6, TailKeeps DEF BatchBegin, In, Placed
      <4> DEFINE r == archive.records[Head(use[Keeper].todo)]
      <4>2. r.doc \in Docs
        BY <4>1, RecordsAre, DocsAre
      <4>3. view' = [view EXCEPT ![r.source] = r.doc]
        BY <3>6 DEF BatchBegin, Enters
      <4> HIDE DEF r
      <4>4. view' \in Tables
        BY <2>2, <3>1, <4>2, <4>3, DocsAre
      <4> QED
        BY <2>2, <3>1, <4>4
    <3> QED
      BY <2>4, <3>2, <3>3, <3>4, <3>5, <3>6 DEF Entering
  <2>5. CASE Filling(u) \/ Recording(u)
    <3>1. pooled' = pooled /\ file' = file /\ savepoints' = <<file>>
      BY <2>5, GoneOn
    <3>2. view' \in Tables
      <4>1. CASE Recording(u)
        BY <4>1 DEF Recording, StreamRecord, VecTyped
      <4>2. CASE Filling(u)
        <5>1. Seeing(u)' /\ use'[u].at = "inserting" /\ use' = use /\ file' = file
          BY <1>3, <3>1, <4>2, SeeingNext, Roles DEF Filling, InsertChunk, In, VecNext, AllSeeing
        <5>2. use[u].source \in Corpus /\ use[u].version \in Versions
          BY <4>2 DEF Filling, InsertChunk, In, Placed, Indexing
        <5>3. PICK n \in 1 .. Chunks : view' = [file EXCEPT ![use[u].source] = Doc(use[u].version, n)]
          BY <5>1 DEF Seeing
        <5>4. Doc(use[u].version, n) \in Docs
          BY <5>2, DocsAre
        <5> QED
          BY <2>2, <5>3, <5>4, DocsAre
      <4> QED
        BY <2>5, <4>1, <4>2
    <3> QED
      BY <2>2, <3>1, <3>2
  <2>6. CASE Leaving(u)
    BY <2>2, <2>6, Released, CommitsWhole DEF VecTyped
  <2>7. CASE Undoing(u)
    BY <2>2, <2>7, Undone
  <2> QED
    BY <1>3, <2>3, <2>4, <2>5, <2>6, <2>7 DEF VecActs
<1> QED
  BY <1>1, <1>2, <1>3, VecSteps
-----------------------------------------------------------------------------
(* Where the goroutines go. *)

\* An indexer waits for the lock, drops the source, inserts the document and unlocks.
LEMMA IndexerMoves ==
    ASSUME VecTyped, Placed, NEW u \in Indexers, VecActs(u)
    PROVE  \/ /\ use[u].at = "end" /\ use'[u].at = "lock" /\ use'[u].source \in Corpus /\ Alone(u)
              /\ \/ use'[u].call = "delete"
                 \/ use'[u].call = "index" /\ use'[u].version \in Versions
              /\ UNCHANGED rwLock
           \/ use[u].at = "lock" /\ use'[u].at = "drop" /\ rwLock = {} /\ rwLock' = {u}
           \/ use[u].at = "drop" /\ use'[u].at = "dropped" /\ UNCHANGED rwLock
           \/ use[u].at = "dropped" /\ use[u].call = "index" /\ use'[u].at = "insert" /\ UNCHANGED rwLock
           \/ use[u].at = "dropped" /\ use'[u].at = "drop" /\ UNCHANGED rwLock
           \/ use[u].at = "insert" /\ use'[u].at = "inserting" /\ UNCHANGED rwLock
           \/ use[u].at = "inserting" /\ use'[u].at \in {"inserting", "insert"} /\ UNCHANGED rwLock
           \/ use[u].at \in {"dropped", "inserting"} /\ use'[u].at = "end" /\ rwLock' = rwLock \ {u}
<1> USE Roles DEF VecTyped, Uses
<1>1. ASSUME NEW s \in Corpus, DeleteUse(u, s)
      PROVE  use[u].at = "end" /\ use'[u].at = "lock" /\ use'[u].source \in Corpus /\ Alone(u)
             /\ use'[u].call = "delete" /\ UNCHANGED rwLock
  BY <1>1 DEF DeleteUse, BeginsUse, NoUse
<1>2. ASSUME NEW s \in Corpus, NEW v \in Versions, IndexUse(u, s, v)
      PROVE  use[u].at = "end" /\ use'[u].at = "lock" /\ use'[u].source \in Corpus /\ Alone(u)
             /\ use'[u].call = "index" /\ use'[u].version \in Versions /\ UNCHANGED rwLock
  BY <1>2 DEF IndexUse, BeginsUse, NoUse
<1>3. ASSUME WriteLock(u)
      PROVE  use[u].at = "lock" /\ use'[u].at = "drop" /\ rwLock = {} /\ rwLock' = {u}
  BY <1>3 DEF WriteLock, In, Goes
<1>4. ASSUME DropBegin(u)
      PROVE  use[u].at = "drop" /\ use'[u].at = "dropped" /\ UNCHANGED rwLock
  BY <1>4 DEF DropBegin, In, Goes
<1>5. ASSUME InsertBegin(u)
      PROVE  use[u].at = "insert" /\ use'[u].at = "inserting" /\ UNCHANGED rwLock
  BY <1>5 DEF InsertBegin, In, Goes
<1>6. ASSUME InsertChunk(u)
      PROVE  use[u].at = "inserting" /\ use'[u].at = "inserting" /\ UNCHANGED rwLock
  BY <1>6 DEF InsertChunk, In
<1>7. ASSUME DropEnd(u)
      PROVE  \/ use[u].at = "dropped" /\ use[u].call = "index" /\ use'[u].at = "insert" /\ UNCHANGED rwLock
             \/ use[u].at = "dropped" /\ use'[u].at = "end" /\ rwLock' = rwLock \ {u}
  <2>1. Goes(u, "insert") => use'[u].at = "insert"
    BY DEF Goes
  <2>2. Ends(u, TRUE) => use'[u].at = "end"
    BY DEF Ends
  <2> QED
    BY <1>7, <2>1, <2>2 DEF DropEnd, In, Unlocks
<1>8. ASSUME InsertEnd(u)
      PROVE  use[u].at = "inserting" /\ use'[u].at = "end" /\ rwLock' = rwLock \ {u}
  BY <1>8 DEF InsertEnd, In, Ends, Unlocks
<1>9. ASSUME Busy(u)
      PROVE  /\ \/ use[u].at = "dropped" /\ use'[u].at = "drop"
                \/ use[u].at = "inserting" /\ use'[u].at = "insert"
             /\ UNCHANGED rwLock
  <2>1. use[u].at \in {"dropped", "inserting"} /\ use'[u].at = Retried[use[u].at] /\ UNCHANGED rwLock
    BY <1>9 DEF Busy, Goes
  <2>2. Retried["dropped"] = "drop" /\ Retried["inserting"] = "insert"
    BY DEF Retried
  <2> QED
    BY <2>1, <2>2
<1>10. ASSUME Fails(u)
       PROVE  use[u].at \in {"dropped", "inserting"} /\ use'[u].at = "end" /\ rwLock' = rwLock \ {u}
  BY <1>10 DEF Fails, Ends, Unlocks
<1> QED
  BY <1>1, <1>2, <1>3, <1>4, <1>5, <1>6, <1>7, <1>8, <1>9, <1>10
     DEF VecActs, Beginning, Locking, Seeking, Entering, Filling, Recording, Leaving, Undoing

\* A searcher takes a reader, or the read lock, and gives it back.
LEMMA SearcherMoves ==
    ASSUME VecTyped, Placed, NEW u \in Searchers, VecActs(u)
    PROVE  \/ use[u].at = "end" /\ use'[u].at = "reader" /\ UNCHANGED <<rwLock, free>>
           \/ /\ use[u].at = "reader" /\ use'[u].at = "search"
              /\ \/ pooled = "yes" /\ free > 0 /\ free' = free - 1 /\ UNCHANGED rwLock
                 \/ pooled = "no" /\ rwLock \subseteq Searchers /\ rwLock' = rwLock \union {u} /\ UNCHANGED free
           \/ /\ use[u].at = "search" /\ use'[u].at = "end"
              /\ use'[u].saw = IF pooled = "yes" THEN file ELSE view
              /\ IF pooled = "yes" THEN free' = free + 1 /\ UNCHANGED rwLock
                                   ELSE rwLock' = rwLock \ {u} /\ UNCHANGED free
<1> USE Roles DEF VecTyped, Uses
<1>1. ASSUME SearchBegin(u)
      PROVE  use[u].at = "end" /\ use'[u].at = "reader" /\ UNCHANGED <<rwLock, free>>
  BY <1>1 DEF SearchBegin, BeginsUse, NoUse
<1>2. ASSUME AcquireReader(u)
      PROVE  /\ use[u].at = "reader" /\ use'[u].at = "search"
             /\ \/ pooled = "yes" /\ free > 0 /\ free' = free - 1 /\ UNCHANGED rwLock
                \/ pooled = "no" /\ rwLock \subseteq Searchers /\ rwLock' = rwLock \union {u} /\ UNCHANGED free
  BY <1>2 DEF AcquireReader, In, Goes
<1>3. ASSUME SearchReads(u)
      PROVE  /\ use[u].at = "search" /\ use'[u].at = "end"
             /\ use'[u].saw = IF pooled = "yes" THEN file ELSE view
             /\ IF pooled = "yes" THEN free' = free + 1 /\ UNCHANGED rwLock
                                  ELSE rwLock' = rwLock \ {u} /\ UNCHANGED free
  BY <1>3 DEF SearchReads, In, Unlocks
<1> QED
  BY <1>1, <1>2, <1>3 DEF VecActs, Beginning, Locking, Seeking, Entering, Filling, Recording, Leaving, Undoing

\* The keeper streams the documents one by one, or wipes and then writes the records.
LEMMA KeeperMoves ==
    ASSUME VecTyped, Placed, VecActs(Keeper)
    PROVE  /\ UNCHANGED <<rwLock, free>>
           /\ \/ use[Keeper].at = "end" /\ use'[Keeper].at = "stream" /\ use'[Keeper].call = "backup" /\ Alone(Keeper)
              \/ use[Keeper].at = "end" /\ use'[Keeper].at = "wipe" /\ use'[Keeper].call = "restore" /\ Alone(Keeper)
              \/ /\ use[Keeper].at = "stream" /\ use'[Keeper].at = "streaming"
                 /\ use'[Keeper].todo = InOrder(Corpus) /\ archive' = [records |-> <<>>, whole |-> FALSE]
              \/ /\ use[Keeper].at = "streaming" /\ use'[Keeper].at = "streaming" /\ StreamRecord
                 /\ use[Keeper].todo # <<>> /\ use'[Keeper].todo = Tail(use[Keeper].todo)
              \/ use[Keeper].at \in {"streaming", "wiped", "written"} /\ use'[Keeper].at = "end"
              \/ /\ use[Keeper].at = "wipe" /\ use'[Keeper].at = "wiped" /\ UNCHANGED archive
                 /\ use'[Keeper].todo = [n \in 1 .. Len(archive.records) |-> n]
              \/ /\ use[Keeper].at \in {"wiped", "written"} /\ use'[Keeper].at = "write" /\ UNCHANGED archive
                 /\ use[Keeper].todo # <<>> /\ use'[Keeper].todo = use[Keeper].todo
              \/ /\ use[Keeper].at = "write" /\ use'[Keeper].at = "written" /\ UNCHANGED archive
                 /\ use'[Keeper].todo = Tail(use[Keeper].todo)
<1> USE Roles DEF VecTyped, Uses
<1>1. ASSUME BackupBegin
      PROVE  /\ use[Keeper].at = "end" /\ use'[Keeper].at = "stream" /\ use'[Keeper].call = "backup" /\ Alone(Keeper)
             /\ UNCHANGED <<rwLock, free>>
  BY <1>1 DEF BackupBegin, BeginsUse, NoUse
<1>2. ASSUME RestoreBegin
      PROVE  /\ use[Keeper].at = "end" /\ use'[Keeper].at = "wipe" /\ use'[Keeper].call = "restore" /\ Alone(Keeper)
             /\ UNCHANGED <<rwLock, free>>
  BY <1>2 DEF RestoreBegin, BeginsUse, NoUse
<1>3. ASSUME StreamBegin
      PROVE  /\ use[Keeper].at = "stream" /\ use'[Keeper].at = "streaming"
             /\ use'[Keeper].todo = InOrder(Corpus) /\ archive' = [records |-> <<>>, whole |-> FALSE]
             /\ UNCHANGED <<rwLock, free>>
  BY <1>3 DEF StreamBegin, In, Rest
<1>4. ASSUME StreamRecord
      PROVE  /\ use[Keeper].at = "streaming" /\ use'[Keeper].at = "streaming"
             /\ use[Keeper].todo # <<>> /\ use'[Keeper].todo = Tail(use[Keeper].todo)
             /\ UNCHANGED <<rwLock, free>>
  BY <1>4 DEF StreamRecord, In, Rest
<1>5. ASSUME StreamEnd \/ KeeperFails
      PROVE  use[Keeper].at \in {"streaming", "wiped", "written"} /\ use'[Keeper].at = "end" /\ UNCHANGED <<rwLock, free>>
  BY <1>5 DEF StreamEnd, KeeperFails, In, Ends, Rest
<1>6. ASSUME WipeBegin
      PROVE  /\ use[Keeper].at = "wipe" /\ use'[Keeper].at = "wiped" /\ UNCHANGED archive
             /\ use'[Keeper].todo = [n \in 1 .. Len(archive.records) |-> n]
             /\ UNCHANGED <<rwLock, free>>
  BY <1>6 DEF WipeBegin, In, Rest
<1>7. ASSUME BatchBegin
      PROVE  /\ use[Keeper].at = "write" /\ use'[Keeper].at = "written" /\ UNCHANGED archive
             /\ use'[Keeper].todo = Tail(use[Keeper].todo)
             /\ UNCHANGED <<rwLock, free>>
  BY <1>7 DEF BatchBegin, In, Rest
<1>8. ASSUME BatchEnd
      PROVE  /\ \/ use[Keeper].at \in {"wiped", "written"} /\ use'[Keeper].at = "end"
                \/ /\ use[Keeper].at \in {"wiped", "written"} /\ use'[Keeper].at = "write" /\ UNCHANGED archive
                   /\ use[Keeper].todo # <<>> /\ use'[Keeper].todo = use[Keeper].todo
             /\ UNCHANGED <<rwLock, free>>
  <2>1. Goes(Keeper, "write") => use'[Keeper].at = "write" /\ use'[Keeper].todo = use[Keeper].todo
    BY DEF Goes
  <2>2. Ends(Keeper, archive.whole) => use'[Keeper].at = "end"
    BY DEF Ends
  <2> QED
    BY <1>8, <2>1, <2>2 DEF BatchEnd, RestoreEnds, Rest
<1> QED
  BY <1>1, <1>2, <1>3, <1>4, <1>5, <1>6, <1>7, <1>8
     DEF VecActs, Beginning, Locking, Seeking, Entering, Filling, Recording, Leaving, Undoing

\* Every step leaves the goroutines where they may be.
LEMMA PlacedNext ==
    ASSUME SafeInv, VecNext
    PROVE  Placed'
<1> USE Roles DEF SafeInv
<1>1. ASSUME NEW p \in {"yes", "no"}, OpenVec(p)
      PROVE  Placed'
  BY <1>1 DEF OpenVec, Placed, Indexing, Keeping
<1>2. CASE CrashVec
  <2>1. \A u \in People : use'[u].at = "end"
    BY <1>2 DEF CrashVec, NoUse
  <2> QED
    BY <2>1 DEF Placed, Indexing, Keeping
<1>3. ASSUME NEW u \in People, VecActs(u)
      PROVE  Placed'
  <2>1. \A x \in People \ {u} : use'[x] = use[x]
    BY <1>3, OthersStay
  <2>2. pooled' = pooled /\ pooled # "none"
    <3>1. CASE Beginning(u)
      BY <3>1 DEF Beginning, DeleteUse, IndexUse, SearchBegin, BackupBegin, RestoreBegin, BeginsUse
    <3>2. CASE Locking(u) \/ Seeking(u)
      <4>1. use[u].at # "end"
        BY <3>2 DEF Locking, Seeking, WriteLock, AcquireReader, SearchReads, In
      <4> QED
        BY <3>2, <4>1, Waited DEF Placed
    <3>3. CASE Entering(u) \/ Filling(u) \/ Recording(u) \/ Leaving(u) \/ Undoing(u)
      <4>1. use[u].at \in AtWork /\ pooled' = pooled
        BY <3>3, Entered, GoneOn, Released, Undone DEF Inside, AtWork, Holding
      <4> QED
        BY <4>1 DEF Placed, AtWork, Holding
    <3> QED
      BY <1>3, <3>1, <3>2, <3>3 DEF VecActs
  <2>3. u # Keeper => archive' = archive
    BY <1>3 DEF VecActs, Beginning, Locking, Seeking, Entering, Filling, Recording, Leaving, Undoing,
                DeleteUse, IndexUse, SearchBegin, BeginsUse, WriteLock, AcquireReader, SearchReads, DropBegin,
                InsertBegin, InsertChunk, DropEnd, InsertEnd, Busy, Fails
  <2>4. ASSUME u \notin Indexers, NEW x \in Indexers
        PROVE  Indexing(x)'
    BY <2>1, <2>4 DEF Placed, Indexing
  <2>5. CASE u \in Indexers
    <3>1. Indexing(u)'
      <4>1. ~Beginning(u) => Keeps(u)
        BY <1>3, Moving
      <4>2. use[u].at # "end" => ~Beginning(u)
        BY DEF Beginning, DeleteUse, IndexUse, SearchBegin, BackupBegin, RestoreBegin, BeginsUse
      <4>3. Indexing(u)
        BY <2>5 DEF Placed
      <4>4. use[u].at # "end" => Keeps(u)
        BY <4>1, <4>2
      <4> HIDE DEF SafeInv
      <4> QED
        BY <1>3, <2>5, <4>3, <4>4, IndexerMoves DEF SafeInv, Indexing, Keeps
    <3>2. \A x \in Indexers : Indexing(x)'
      BY <2>1, <3>1 DEF Placed, Indexing
    <3>3. use'[Keeper] = use[Keeper] /\ \A x \in Searchers : use'[x] = use[x]
      BY <2>1, <2>5
    <3> QED
      BY <2>2, <2>3, <2>5, <3>2, <3>3 DEF Placed, Keeping
  <2>6. CASE u \in Searchers
    <3>1. use'[u].at \in {"end", "reader", "search"}
      BY <1>3, <2>6, SearcherMoves
    <3>2. use'[Keeper] = use[Keeper] /\ \A x \in Searchers \ {u} : use'[x] = use[x]
      BY <2>1, <2>6
    <3>3. \A x \in Indexers : Indexing(x)'
      BY <2>4, <2>6
    <3> QED
      BY <2>2, <2>3, <2>6, <3>1, <3>2, <3>3 DEF Placed, Keeping
  <2>7. CASE u = Keeper
    <3>1. \A x \in Searchers : use'[x] = use[x]
      BY <2>1, <2>7
    <3>2. \A x \in Indexers : Indexing(x)'
      BY <2>4, <2>7
    <3>3. Keeping'
      <4>1. ~Beginning(u) => Keeps(u)
        BY <1>3, Moving
      <4>2. use[u].at # "end" => ~Beginning(u)
        BY DEF Beginning, DeleteUse, IndexUse, SearchBegin, BackupBegin, RestoreBegin, BeginsUse
      <4>3. Keeping /\ (use[Keeper].at # "end" => Keeps(Keeper))
        BY <2>7, <4>1, <4>2 DEF Placed
      <4> HIDE DEF SafeInv
      <4> QED
        BY <1>3, <2>7, <4>3, KeeperMoves DEF SafeInv, Keeping, Keeps
    <3>4. use'[Keeper].at = "streaming" => use'[Keeper].todo \in Seq(Corpus)
      <4>1. CASE use[Keeper].at = "stream"
        BY <1>3, <2>7, <4>1, KeeperMoves, InOrderLists
      <4>2. CASE use[Keeper].at = "streaming"
        <5>1. use[Keeper].todo \in Seq(Corpus)
          BY <4>2 DEF Placed
        <5>2. use[Keeper].todo # <<>> => Tail(use[Keeper].todo) \in Seq(Corpus)
          BY <5>1, TailKeeps
        <5> QED
          BY <1>3, <2>7, <4>2, <5>2, KeeperMoves
      <4>3. CASE use[Keeper].at \notin {"stream", "streaming"}
        BY <1>3, <2>7, <4>3, KeeperMoves
      <4> QED
        BY <4>1, <4>2, <4>3
    <3>5. use'[Keeper].at \in {"wiped", "write", "written"} => use'[Keeper].todo \in Seq(1 .. Len(archive'.records))
      <4>1. CASE use[Keeper].at = "wipe"
        <5>1. [n \in 1 .. Len(archive.records) |-> n] \in Seq(1 .. Len(archive.records))
          BY RecordsAre
        <5> QED
          BY <1>3, <2>7, <4>1, <5>1, KeeperMoves
      <4>2. CASE use[Keeper].at \in {"wiped", "written"}
        <5>1. use[Keeper].todo \in Seq(1 .. Len(archive.records))
          BY <4>2 DEF Placed
        <5> QED
          BY <1>3, <2>7, <4>2, <5>1, KeeperMoves
      <4>3. CASE use[Keeper].at = "write"
        <5>1. use[Keeper].todo \in Seq(1 .. Len(archive.records)) /\ use[Keeper].todo # <<>>
          BY <4>3 DEF Placed
        <5>2. Tail(use[Keeper].todo) \in Seq(1 .. Len(archive.records))
          BY <5>1, TailKeeps
        <5> QED
          BY <1>3, <2>7, <4>3, <5>2, KeeperMoves
      <4>4. CASE use[Keeper].at \notin {"wipe", "wiped", "written", "write"}
        BY <1>3, <2>7, <4>4, KeeperMoves
      <4> QED
        BY <4>1, <4>2, <4>3, <4>4
    <3>6. use'[Keeper].at = "write" => use'[Keeper].todo # <<>>
      BY <1>3, <2>7, KeeperMoves
    <3> QED
      BY <2>2, <3>1, <3>2, <3>3, <3>4, <3>5, <3>6 DEF Placed
  <2> QED
    BY <2>5, <2>6, <2>7
<1> QED
  BY <1>1, <1>2, <1>3, VecSteps
-----------------------------------------------------------------------------
(* The lock, the savepoints and the pool. *)

\* Every step keeps the lock with who writes, and the keeper apart.
LEMMA LockedNext ==
    ASSUME ~KeeperOverlaps, SafeInv, VecNext
    PROVE  Locked' /\ KeeperAlone'
<1> USE Roles DEF SafeInv
<1>1. ASSUME NEW p \in {"yes", "no"}, OpenVec(p)
      PROVE  Locked' /\ KeeperAlone'
  BY <1>1 DEF OpenVec, Placed, Locked, KeeperAlone, Holding
<1>2. CASE CrashVec
  <2>1. (\A u \in People : use'[u].at = "end") /\ rwLock' = {}
    BY <1>2 DEF CrashVec, NoUse
  <2> QED
    BY <2>1 DEF Locked, KeeperAlone, Holding
<1>3. ASSUME NEW u \in People, VecActs(u)
      PROVE  Locked' /\ KeeperAlone'
  <2>1. \A x \in People \ {u} : use'[x] = use[x]
    BY <1>3, OthersStay
  <2>2. pooled' = pooled
    BY <1>3, Waited, Entered, GoneOn, Released, Undone DEF VecActs
  <2>3. "end" \notin Holding /\ "lock" \notin Holding /\ "reader" \notin Holding /\ "search" \notin Holding
    BY DEF Holding
  <2>4. CASE u \in Indexers
    <3>1. use'[Keeper] = use[Keeper] /\ \A x \in Searchers : use'[x] = use[x]
      BY <2>1, <2>4
    <3>2. \/ rwLock' = rwLock /\ (use'[u].at \in Holding <=> use[u].at \in Holding)
          \/ rwLock = {} /\ rwLock' = {u} /\ use'[u].at \in Holding /\ use[u].at \notin Holding
          \/ use[u].at \in Holding /\ rwLock' = rwLock \ {u} /\ use'[u].at \notin Holding
      BY <1>3, <2>4, IndexerMoves DEF Holding
    <3>3. \A x \in Indexers \ {u} : use'[x] = use[x]
      BY <2>1
    <3>4. Locked'
      <4>1. CASE rwLock' = rwLock /\ (use'[u].at \in Holding <=> use[u].at \in Holding)
        BY <2>2, <2>4, <3>1, <3>3, <4>1 DEF Locked
      <4>2. CASE rwLock = {} /\ rwLock' = {u} /\ use'[u].at \in Holding /\ use[u].at \notin Holding
        BY <2>2, <2>4, <3>1, <3>3, <4>2 DEF Locked
      <4>3. CASE use[u].at \in Holding /\ rwLock' = rwLock \ {u} /\ use'[u].at \notin Holding
        <5>1. rwLock = {u} /\ rwLock' = {}
          BY <2>4, <4>3 DEF Locked
        <5>2. \A x \in Indexers \ {u} : use[x].at \notin Holding
          BY <5>1 DEF Locked
        <5> QED
          BY <2>2, <2>4, <3>1, <3>3, <4>3, <5>1, <5>2 DEF Locked
      <4> QED
        BY <3>2, <4>1, <4>2, <4>3
    <3>5. KeeperAlone'
      <4>1. CASE use[u].at # "end"
        BY <2>4, <3>1, <4>1 DEF KeeperAlone
      <4>2. CASE use[u].at = "end"
        <5>1. Alone(u)
          BY <1>3, <2>4, <4>2, IndexerMoves
        <5>2. ~Writing(Keeper)
          BY <2>4, <5>1 DEF Alone
        <5>3. use[Keeper].at = "end"
          BY <5>2 DEF Writing, Placed, Keeping
        <5> QED
          BY <3>1, <5>3 DEF KeeperAlone
      <4> QED
        BY <4>1, <4>2
    <3> QED
      BY <3>4, <3>5
  <2>5. CASE u \in Searchers
    <3>1. use'[Keeper] = use[Keeper] /\ \A x \in Indexers : use'[x] = use[x]
      BY <2>1, <2>5
    <3>2. \A x \in Searchers \ {u} : use'[x] = use[x]
      BY <2>1
    <3>3. \/ /\ rwLock' = rwLock
             /\ (use'[u].at = "search" /\ pooled = "no" <=> use[u].at = "search" /\ pooled = "no")
          \/ use'[u].at = "search" /\ pooled = "no" /\ rwLock \subseteq Searchers /\ rwLock' = rwLock \union {u}
          \/ rwLock' = rwLock \ {u} /\ use'[u].at # "search"
      BY <1>3, <2>5, SearcherMoves
    <3>4. Locked'
      <4>1. CASE /\ rwLock' = rwLock
                 /\ (use'[u].at = "search" /\ pooled = "no" <=> use[u].at = "search" /\ pooled = "no")
        BY <2>2, <2>5, <3>1, <3>2, <4>1 DEF Locked
      <4>2. CASE use'[u].at = "search" /\ pooled = "no" /\ rwLock \subseteq Searchers /\ rwLock' = rwLock \union {u}
        <5>1. \A x \in Indexers : x \notin rwLock' /\ use'[x].at \notin Holding
          <6>1. \A x \in Indexers : x \notin rwLock
            BY <4>2
          <6>2. \A x \in Indexers : use[x].at \notin Holding
            BY <6>1 DEF Locked
          <6> QED
            BY <2>5, <3>1, <4>2, <6>1, <6>2
        <5>2. \A x \in Searchers : x \in rwLock' <=> use'[x].at = "search" /\ pooled' = "no"
          BY <2>2, <2>5, <3>2, <4>2 DEF Locked
        <5>3. Keeper \notin rwLock'
          BY <2>5, <4>2
        <5> QED
          BY <5>1, <5>2, <5>3 DEF Locked
      <4>3. CASE rwLock' = rwLock \ {u} /\ use'[u].at # "search"
        <5>1. \A x \in Indexers : use[x].at \in Holding => rwLock' = {x}
          <6> SUFFICES ASSUME NEW x \in Indexers, use[x].at \in Holding
                       PROVE  rwLock' = {x}
            OBVIOUS
          <6>1. rwLock = {x} /\ x # u
            BY <2>5 DEF Locked
          <6> QED
            BY <4>3, <6>1
        <5> QED
          BY <2>2, <2>5, <3>1, <3>2, <4>3, <5>1 DEF Locked
      <4> QED
        BY <3>3, <4>1, <4>2, <4>3
    <3> QED
      BY <3>1, <3>4 DEF KeeperAlone
  <2>6. CASE u = Keeper
    <3>1. rwLock' = rwLock
      BY <1>3, <2>6, KeeperMoves
    <3>2. \A x \in Indexers \union Searchers : use'[x] = use[x]
      BY <2>1, <2>6
    <3>3. Locked'
      BY <2>2, <3>1, <3>2 DEF Locked
    <3>4. use[Keeper].at = "end" => \A x \in Indexers : use[x].at = "end"
      <4> SUFFICES ASSUME use[Keeper].at = "end", NEW x \in Indexers
                   PROVE  use[x].at = "end"
        OBVIOUS
      <4>1. Alone(Keeper)
        BY <1>3, <2>6, KeeperMoves
      <4>2. ~Writing(x)
        BY <4>1 DEF Alone
      <4> QED
        BY <4>2 DEF Writing, Placed, Indexing
    <3>5. KeeperAlone'
      BY <3>2, <3>4 DEF KeeperAlone
    <3> QED
      BY <3>3, <3>5
  <2> QED
    BY <2>4, <2>5, <2>6
<1> QED
  BY <1>1, <1>2, <1>3, VecSteps

\* Every step keeps one savepoint for the one who is inside.
LEMMA SingleNext ==
    ASSUME SafeInv, VecNext
    PROVE  Single'
<1> USE Roles DEF SafeInv
<1>1. ASSUME NEW p \in {"yes", "no"}, OpenVec(p)
      PROVE  Single'
  <2>1. \A u \in People : use'[u].at = "end"
    BY <1>1 DEF OpenVec, Placed
  <2>2. "end" \notin Inside
    BY DEF Inside
  <2>3. savepoints' = <<>> /\ view' = file'
    BY <1>1, <2>1, <2>2 DEF OpenVec, Single
  <2> QED
    BY <2>1, <2>2, <2>3 DEF Single
<1>2. CASE CrashVec
  <2>1. \A u \in People : use'[u].at = "end"
    BY <1>2 DEF CrashVec, NoUse
  <2>2. "end" \notin Inside
    BY DEF Inside
  <2> QED
    BY <1>2, <2>1, <2>2 DEF CrashVec, Single
<1>3. ASSUME NEW u \in People, VecActs(u)
      PROVE  Single'
  <2>1. \A x \in People \ {u} : use'[x] = use[x]
    BY <1>3, OthersStay
  <2>2. CASE Beginning(u) \/ Locking(u) \/ Seeking(u)
    <3>1. UNCHANGED <<file, view, savepoints>> /\ use[u].at \notin Inside /\ use'[u].at \notin Inside
      BY <2>2, Waited
    <3> QED
      BY <2>1, <3>1 DEF Single
  <2>3. CASE Entering(u)
    BY <2>3, Entered DEF Single
  <2>4. CASE Filling(u) \/ Recording(u)
    BY <2>4, GoneOn DEF Single
  <2>5. CASE Leaving(u) \/ Undoing(u)
    <3>1. savepoints' = <<>> /\ view' = file' /\ use[u].at \in Inside /\ use'[u].at \notin Inside
      BY <2>5, Released, Undone
    <3>2. \A x \in People \ {u} : use[x].at \notin AtWork
      BY <3>1, OneInside
    <3>3. Inside \subseteq AtWork
      BY DEF Inside, AtWork, Holding
    <3> QED
      BY <2>1, <3>1, <3>2, <3>3 DEF Single
  <2> QED
    BY <1>3, <2>2, <2>3, <2>4, <2>5 DEF VecActs
<1> QED
  BY <1>1, <1>2, <1>3, VecSteps

\* The readers of the pool are free or with a searcher.
Reading == {u \in Searchers : use[u].at = "search"}
Pooled ==
    /\ pooled = "yes" => /\ IsFiniteSet(Reading)
                         /\ free \in Nat /\ free + Cardinality(Reading) = PoolSize
    /\ pooled # "yes" => free = 0

\* Every step keeps their number.
LEMMA PooledNext ==
    ASSUME SafeInv, Pooled, VecNext
    PROVE  Pooled'
<1> USE Roles DEF SafeInv
<1>0. PoolSize \in Nat /\ IsFiniteSet({}) /\ Cardinality({}) = 0
  BY VecAssumption, FS_EmptySet
<1>1. ASSUME NEW p \in {"yes", "no"}, OpenVec(p)
      PROVE  Pooled'
  <2>1. Reading' = {}
    BY <1>1 DEF OpenVec, Placed, Reading
  <2> QED
    BY <1>0, <1>1, <2>1 DEF OpenVec, Pooled
<1>2. CASE CrashVec
  BY <1>2 DEF CrashVec, Pooled
<1>3. ASSUME NEW u \in People, VecActs(u)
      PROVE  Pooled'
  <2>1. \A x \in People \ {u} : use'[x] = use[x]
    BY <1>3, OthersStay
  <2>2. pooled' = pooled
    BY <1>3, Waited, Entered, GoneOn, Released, Undone DEF VecActs
  <2>3. CASE u \notin Searchers
    <3>1. Reading' = Reading
      BY <2>1, <2>3 DEF Reading
    <3>2. free' = free
      <4>1. u = Keeper => free' = free
        BY <1>3, KeeperMoves
      <4>2. u \in Indexers => free' = free
        BY <1>3, Entered, GoneOn, Released, Undone
           DEF VecActs, Beginning, Locking, Seeking, DeleteUse, IndexUse, BeginsUse, WriteLock, Rest
      <4> QED
        BY <2>3, <4>1, <4>2
    <3> QED
      BY <2>2, <3>1, <3>2 DEF Pooled
  <2>4. CASE u \in Searchers
    <3>1. CASE free' = free /\ (pooled = "yes" => (use'[u].at = "search" <=> use[u].at = "search"))
      <4>1. pooled = "yes" => Reading' = Reading
        BY <2>1, <3>1 DEF Reading
      <4> QED
        BY <2>2, <3>1, <4>1 DEF Pooled
    <3>2. CASE pooled = "yes" /\ free > 0 /\ free' = free - 1 /\ use[u].at # "search" /\ use'[u].at = "search"
      <4>1. Reading' = Reading \union {u} /\ u \notin Reading
        BY <2>1, <2>4, <3>2 DEF Reading
      <4>2. IsFiniteSet(Reading) /\ free \in Nat /\ free + Cardinality(Reading) = PoolSize
        BY <3>2 DEF Pooled
      <4>3. IsFiniteSet(Reading') /\ Cardinality(Reading') = Cardinality(Reading) + 1
        BY <4>1, <4>2, FS_AddElement
      <4>4. Cardinality(Reading) \in Nat
        BY <4>2, FS_CardinalityType
      <4> QED
        BY <2>2, <3>2, <4>2, <4>3, <4>4 DEF Pooled
    <3>3. CASE pooled = "yes" /\ free' = free + 1 /\ use[u].at = "search" /\ use'[u].at # "search"
      <4>1. Reading' = Reading \ {u} /\ u \in Reading
        BY <2>1, <2>4, <3>3 DEF Reading
      <4>2. IsFiniteSet(Reading) /\ free \in Nat /\ free + Cardinality(Reading) = PoolSize
        BY <3>3 DEF Pooled
      <4>3. IsFiniteSet(Reading') /\ Cardinality(Reading') = Cardinality(Reading) - 1
        BY <4>1, <4>2, FS_RemoveElement
      <4>4. Cardinality(Reading) \in Nat
        BY <4>2, FS_CardinalityType
      <4> QED
        BY <2>2, <3>3, <4>2, <4>3, <4>4 DEF Pooled
    <3> QED
      BY <1>3, <2>4, <3>1, <3>2, <3>3, SearcherMoves
  <2> QED
    BY <2>3, <2>4
<1> QED
  BY <1>1, <1>2, <1>3, VecSteps
-----------------------------------------------------------------------------
(* What a search and a backup read. *)

\* A search that ended saw whole documents.
Seen == \A u \in Searchers : use[u].saw # <<>> => use[u].saw \in [Corpus -> WholeDocs]

\* What it reads at the moment it reads is whole: the file, or the shared
\* connection while the lock keeps the indexers out of it.
LEMMA ReadsWhole ==
    ASSUME SafeInv, AllSeeing, NEW u \in Searchers, use[u].at = "search"
    PROVE  (IF pooled = "yes" THEN file ELSE view) \in [Corpus -> WholeDocs]
<1> USE Roles DEF SafeInv
<1>1. file \in [Corpus -> WholeDocs]
  BY DEF VecTyped
<1>2. CASE pooled # "yes"
  <2>1. u \in rwLock
    BY <1>2 DEF VecTyped, Placed, Locked
  <2>2. CASE view = file
    BY <1>1, <1>2, <2>2
  <2>3. CASE view # file
    <3>1. PICK x \in People : use[x].at \in Inside
      BY <2>3 DEF Single
    <3>2. x \notin Searchers
      BY <3>1 DEF Placed, Inside
    <3>3. x \notin Indexers
      <4>1. ASSUME x \in Indexers
            PROVE  FALSE
        <5>1. use[x].at \in Holding
          BY <3>1, <4>1 DEF Placed, Indexing, Inside, Holding
        <5>2. rwLock = {x}
          BY <4>1, <5>1 DEF Locked
        <5> QED
          BY <2>1, <4>1, <5>2
      <4> QED
        BY <4>1
    <3>4. use[Keeper].at \in {"wiped", "written"}
      <4>1. use[Keeper].at \in {"streaming", "wiped", "written"}
        BY <3>1, <3>2, <3>3 DEF Placed, Keeping, Inside
      <4> QED
        BY <2>3, <4>1 DEF AllSeeing, Seeing
    <3>5. Restored(Keeper)
      BY <3>4 DEF AllSeeing, Seeing
    <3> QED
      BY <1>2, <3>5, RestoredWhole
  <2> QED
    BY <2>2, <2>3
<1> QED
  BY <1>1, <1>2

\* Every step keeps what the searches saw whole.
LEMMA SeenNext ==
    ASSUME SafeInv, AllSeeing, Seen, VecNext
    PROVE  Seen'
<1> USE Roles DEF SafeInv
<1>1. ASSUME NEW p \in {"yes", "no"}, OpenVec(p)
      PROVE  Seen'
  BY <1>1 DEF OpenVec, Seen
<1>2. CASE CrashVec
  BY <1>2 DEF CrashVec, NoUse, Seen
<1>3. ASSUME NEW u \in People, VecActs(u)
      PROVE  Seen'
  <2>1. \A x \in People \ {u} : use'[x] = use[x]
    BY <1>3, OthersStay
  <2>2. CASE u \notin Searchers
    BY <2>1, <2>2 DEF Seen
  <2>3. CASE u \in Searchers
    <3>1. Beginning(u) => use'[u].saw = <<>>
      <4> SUFFICES ASSUME SearchBegin(u)
                   PROVE  use'[u].saw = <<>>
        BY <2>3 DEF Beginning
      <4>1. use'[u] = [NoUse EXCEPT !.call = "search", !.at = "reader", !.source = 0, !.version = 0]
        BY DEF SearchBegin, BeginsUse, VecTyped
      <4> QED
        BY <4>1 DEF NoUse
    <3>2. AcquireReader(u) => use'[u].saw = use[u].saw
      BY DEF AcquireReader, Goes, VecTyped, Uses
    <3>3. SearchReads(u) => use'[u].saw \in [Corpus -> WholeDocs]
      <4> SUFFICES ASSUME SearchReads(u)
                   PROVE  use'[u].saw \in [Corpus -> WholeDocs]
        OBVIOUS
      <4>1. use[u].at = "search" /\ use'[u].saw = IF pooled = "yes" THEN file ELSE view
        BY DEF SearchReads, In, VecTyped, Uses
      <4> QED
        BY <2>3, <4>1, ReadsWhole
    <3>4. Beginning(u) \/ AcquireReader(u) \/ SearchReads(u)
      BY <1>3, <2>3 DEF VecActs, Locking, Seeking, Entering, Filling, Recording, Leaving, Undoing
    <3> QED
      BY <2>1, <2>3, <3>1, <3>2, <3>3, <3>4 DEF Seen
  <2> QED
    BY <2>2, <2>3
<1> QED
  BY <1>1, <1>2, <1>3, VecSteps

\* Who is neither inside nor about to be has nothing to do with the tables.
LEMMA WaitsAside ==
    ASSUME VecTyped, Placed, NEW u \in People, Beginning(u) \/ Locking(u) \/ Seeking(u)
    PROVE  use[u].at \notin AtWork
<1>1. Beginning(u) => use[u].at = "end"
  BY DEF Beginning, DeleteUse, IndexUse, SearchBegin, BackupBegin, RestoreBegin, BeginsUse
<1>2. Locking(u) => use[u].at = "lock"
  BY DEF Locking, WriteLock, In
<1>3. Seeking(u) => use[u].at \in {"reader", "search"}
  BY DEF Seeking, AcquireReader, SearchReads, In
<1> QED
  BY <1>1, <1>2, <1>3 DEF AtWork, Holding

\* Every other step is of one who is at work.
LEMMA ActsAtWork ==
    ASSUME SafeInv, NEW u \in People, VecActs(u)
    PROVE  \/ Beginning(u) \/ Locking(u) \/ Seeking(u)
           \/ use[u].at \in AtWork
<1>1. Inside \subseteq AtWork
  BY DEF Inside, AtWork, Holding
<1> QED
  BY <1>1, Entered, GoneOn, Released, Undone DEF VecActs

\* The documents that are there, as a backup records them.
RecordsOf(S) == {[source |-> s, doc |-> file[s]] : s \in {x \in S : file[x] # NoDoc}}

\* A backup has recorded the documents that are not to come, each once.
Streamed ==
    use[Keeper].at = "streaming" =>
        /\ ~archive.whole
        /\ IsInjective(use[Keeper].todo) /\ IsInjective(archive.records)
        /\ ToSet(archive.records) = RecordsOf(Corpus \ ToSet(use[Keeper].todo))

\* Recording the next document keeps it so.
LEMMA RecordAdds ==
    ASSUME SafeInv, AllSeeing, Streamed, StreamRecord
    PROVE  /\ ~archive.whole' /\ IsInjective(use'[Keeper].todo) /\ IsInjective(archive'.records)
           /\ ToSet(archive'.records) = RecordsOf(Corpus \ ToSet(use'[Keeper].todo))
<1> USE Roles DEF SafeInv
<1> DEFINE todo == use[Keeper].todo
           s == Head(todo)
           r == [source |-> s, doc |-> file[s]]
           T == [source : Corpus, doc : WholeDocs]
<1>1. /\ use[Keeper].at = "streaming" /\ todo # <<>> /\ todo \in Seq(Corpus) /\ view = file
      /\ use'[Keeper].todo = Tail(todo)
  BY DEF StreamRecord, In, AllSeeing, Seeing, Placed, VecTyped, Uses
<1>2. /\ s \in Corpus /\ IsInjective(Tail(todo)) /\ ToSet(todo) \subseteq Corpus
      /\ ToSet(todo) = ToSet(Tail(todo)) \union {s} /\ s \notin ToSet(Tail(todo))
  BY <1>1, TailKeeps DEF Streamed
<1>3. file \in [Corpus -> WholeDocs] /\ archive.records \in Seq(T) /\ archive \in Archives
  BY DEF VecTyped, Archives
<1>4. archive' = [archive EXCEPT !.records = IF file[s] = NoDoc THEN archive.records ELSE Append(archive.records, r)]
  BY <1>1 DEF StreamRecord
<1>5. r \in T /\ r \notin ToSet(archive.records)
  <2>1. r \in T
    BY <1>2, <1>3
  <2>2. \A x \in Corpus \ ToSet(todo) : x # s
    BY <1>2
  <2>3. \A q \in RecordsOf(Corpus \ ToSet(todo)) : q.source # s
    BY <2>2 DEF RecordsOf
  <2>4. r.source = s /\ ToSet(archive.records) = RecordsOf(Corpus \ ToSet(todo))
    BY <1>1 DEF Streamed
  <2> HIDE DEF r, s, T
  <2> QED
    BY <2>1, <2>3, <2>4
<1>6. Corpus \ ToSet(Tail(todo)) = (Corpus \ ToSet(todo)) \union {s}
  BY <1>2
<1>7. ToSet(archive.records) = RecordsOf(Corpus \ ToSet(todo)) /\ IsInjective(archive.records) /\ ~archive.whole
  BY <1>1 DEF Streamed
<1>8. CASE file[s] = NoDoc
  <2>1. archive'.records = archive.records /\ archive'.whole = archive.whole
    BY <1>3, <1>4, <1>8 DEF Archives
  <2>2. RecordsOf(Corpus \ ToSet(Tail(todo))) = RecordsOf(Corpus \ ToSet(todo))
    BY <1>6, <1>8 DEF RecordsOf
  <2> QED
    BY <1>1, <1>2, <1>7, <2>1, <2>2
<1>9. CASE file[s] # NoDoc
  <2>1. archive'.records = Append(archive.records, r) /\ archive'.whole = archive.whole
    BY <1>3, <1>4, <1>9 DEF Archives
  <2>2. RecordsOf(Corpus \ ToSet(Tail(todo))) = RecordsOf(Corpus \ ToSet(todo)) \union {r}
    BY <1>6, <1>9 DEF RecordsOf
  <2>3. ToSet(archive'.records) = ToSet(archive.records) \union {r} /\ IsInjective(archive'.records)
    <3> HIDE DEF r, T
    <3> QED
      BY <1>3, <1>5, <1>7, <2>1, AppendAdds
  <2> QED
    BY <1>1, <1>2, <1>7, <2>1, <2>2, <2>3
<1> QED
  BY <1>8, <1>9

\* Every step keeps the records of the backup that goes on.
LEMMA StreamedNext ==
    ASSUME SafeInv, AllSeeing, Streamed, VecNext
    PROVE  Streamed'
<1> USE Roles DEF SafeInv
<1>1. ASSUME NEW p \in {"yes", "no"}, OpenVec(p)
      PROVE  Streamed'
  BY <1>1 DEF OpenVec, Placed, Streamed
<1>2. CASE CrashVec
  BY <1>2 DEF CrashVec, NoUse, Streamed
<1>3. ASSUME NEW u \in People, VecActs(u)
      PROVE  Streamed'
  <2> SUFFICES ASSUME use'[Keeper].at = "streaming"
               PROVE  Streamed'
    BY DEF Streamed
  <2>1. CASE u # Keeper
    <3>1. use'[Keeper] = use[Keeper]
      BY <1>3, <2>1, OthersStay
    <3>2. use[Keeper].at \in AtWork
      BY <3>1 DEF AtWork
    <3>3. use[u].at \notin AtWork
      BY <2>1, <3>2, OneWriter
    <3>4. UNCHANGED <<file, archive>>
      BY <1>3, <3>3, ActsAtWork, Waited
    <3> QED
      BY <3>1, <3>4 DEF Streamed, RecordsOf
  <2>2. CASE u = Keeper
    <3>1. CASE use'[Keeper].todo = InOrder(Corpus) /\ archive' = [records |-> <<>>, whole |-> FALSE]
      <4>1. /\ ToSet(use'[Keeper].todo) = Corpus /\ IsInjective(use'[Keeper].todo)
        BY <3>1, InOrderLists
      <4>2. ToSet(<<>>) = {} /\ IsInjective(<<>>)
        BY DEF ToSet, IsInjective
      <4>3. RecordsOf(Corpus \ Corpus)' = {}
        BY DEF RecordsOf
      <4> QED
        BY <3>1, <4>1, <4>2, <4>3 DEF Streamed
    <3>2. CASE StreamRecord
      <4>1. file' = file
        BY <3>2, GoneOn DEF Recording
      <4> QED
        BY <3>2, <4>1, RecordAdds DEF Streamed, RecordsOf
    <3> QED
      BY <1>3, <2>2, <3>1, <3>2, KeeperMoves
  <2> QED
    BY <2>1, <2>2
<1> QED
  BY <1>1, <1>2, <1>3, VecSteps
-----------------------------------------------------------------------------
(* What was acknowledged is committed. *)

\* Of each source the file holds what was last acknowledged, except where the
\* call that goes on has already committed a part of what it does: an indexer
\* that has dropped the source, a restoration that has begun to put back.
Dropping(u, s)  == use[u].at \in {"insert", "inserting"} /\ use[u].source = s
Restoring(s)    == use[Keeper].at \in {"write", "written"} /\ file[s] \in {NoDoc} \union Recorded(s)
Acknowledged(s) == file[s] \in acked[s] \/ (\E u \in Indexers : Dropping(u, s)) \/ Restoring(s)
AckInv          == \A s \in Corpus : Acknowledged(s)

\* Then it is the one at work who has begun.
LEMMA BeginsAlone ==
    ASSUME SafeInv, AckInv, NEW u \in People, use[u].at \in AtWork, NEW s \in Corpus
    PROVE  file[s] \in acked[s] \/ (u \in Indexers /\ Dropping(u, s)) \/ (u = Keeper /\ Restoring(s))
<1> USE Roles DEF SafeInv
<1>1. \A x \in Indexers : Dropping(x, s) => x = u
  BY OneWriter DEF Dropping, AtWork, Holding
<1>2. Restoring(s) => u = Keeper
  BY OneWriter DEF Restoring, AtWork
<1> QED
  BY <1>1, <1>2 DEF AckInv, Acknowledged

\* The release of a savepoint commits what is then acknowledged, or a part of it.
LEMMA AckLeaving ==
    ASSUME SafeInv, AllSeeing, AckInv, NEW u \in People, Leaving(u)
    PROVE  AckInv'
<1> USE Roles DEF SafeInv
<1>1. /\ file' = view /\ use[u].at \in AtWork /\ Seeing(u) /\ VecActs(u)
      /\ file \in [Corpus -> WholeDocs] /\ acked \in [Corpus -> SUBSET Docs]
  BY Released DEF Inside, AtWork, Holding, AllSeeing, VecTyped, VecActs
<1>2. \A s \in Corpus : file[s] \in acked[s] \/ (u \in Indexers /\ Dropping(u, s)) \/ (u = Keeper /\ Restoring(s))
  BY <1>1, BeginsAlone
<1>3. CASE u \in Indexers /\ DropEnd(u)
  <2> DEFINE o == use[u].source
  <2>1. use[u].at = "dropped" /\ o \in Corpus /\ view = [file EXCEPT ![o] = NoDoc]
    BY <1>1, <1>3 DEF DropEnd, In, Seeing, Placed, Indexing
  <2>2. \A s \in Corpus : file[s] \in acked[s]
    BY <1>2, <1>3, <2>1 DEF Dropping
  <2>3. \/ Goes(u, "insert") /\ acked' = acked
        \/ acked' = [acked EXCEPT ![o] = {NoDoc}]
    BY <1>3 DEF DropEnd, Is
  <2>4. CASE Goes(u, "insert") /\ acked' = acked
    <3>1. use'[u].at = "insert" /\ use'[u].source = o
      BY <2>4 DEF Goes, VecTyped, Uses
    <3>2. \A s \in Corpus \ {o} : file'[s] \in acked'[s]
      BY <1>1, <2>1, <2>2, <2>4
    <3>3. \A s \in Corpus : s = o => Dropping(u, s)'
      BY <3>1 DEF Dropping
    <3> HIDE DEF o
    <3> QED
      BY <1>3, <3>2, <3>3 DEF AckInv, Acknowledged
  <2>5. CASE acked' = [acked EXCEPT ![o] = {NoDoc}]
    <3>1. \A s \in Corpus : file'[s] \in acked'[s]
      BY <1>1, <2>1, <2>2, <2>5
    <3> QED
      BY <3>1 DEF AckInv, Acknowledged
  <2> QED
    BY <2>3, <2>4, <2>5
<1>4. CASE u \in Indexers /\ InsertEnd(u)
  <2> DEFINE o == use[u].source
             d == Doc(use[u].version, Chunks)
  <2>1. /\ use[u].at = "inserting" /\ o \in Corpus /\ use[u].version \in Versions
        /\ acked' = [acked EXCEPT ![o] = {d}] /\ view[o].chunks \notin 1 .. (Chunks - 1)
    BY <1>4 DEF InsertEnd, In, Is, Placed, Indexing
  <2>2. PICK n \in 1 .. Chunks : view = [file EXCEPT ![o] = Doc(use[u].version, n)]
    BY <1>1, <2>1 DEF Seeing
  <2>3. n = Chunks
    <3>1. view[o].chunks = n
      BY <1>1, <2>1, <2>2, DocsAre
    <3> QED
      BY <2>1, <3>1, VecAssumption
  <2>4. \A s \in Corpus \ {o} : file[s] \in acked[s]
    BY <1>2, <1>4 DEF Dropping
  <2>5. \A s \in Corpus : file'[s] \in acked'[s]
    BY <1>1, <2>1, <2>2, <2>3, <2>4
  <2> QED
    BY <2>5 DEF AckInv, Acknowledged
<1>5. CASE u = Keeper /\ StreamEnd
  <2>1. view = file /\ use[u].at = "streaming" /\ acked' = acked
    BY <1>1, <1>5 DEF StreamEnd, In, Seeing
  <2>2. \A s \in Corpus : file'[s] \in acked'[s]
    BY <1>1, <1>2, <1>5, <2>1 DEF Restoring
  <2> QED
    BY <2>2 DEF AckInv, Acknowledged
<1>6. CASE u = Keeper /\ BatchEnd
  <2>1. Restored(Keeper) /\ archive' = archive
    BY <1>1, <1>6 DEF BatchEnd, Seeing
  <2>2. \A s \in Corpus : file'[s] \in {NoDoc} \union Recorded(s)
    BY <1>1, <2>1 DEF Restored
  <2>3. \A s \in Corpus : Recorded(s)' = Recorded(s)
    BY <2>1 DEF Recorded
  <2>4. CASE Goes(Keeper, "write")
    <3>1. use'[Keeper].at = "write"
      BY <2>4 DEF Goes, VecTyped, Uses
    <3> QED
      BY <2>2, <2>3, <3>1 DEF AckInv, Acknowledged, Restoring
  <2>5. CASE use[Keeper].todo = <<>> /\ RestoreEnds
    <3>1. ToSet(use[Keeper].todo) = {}
      BY <2>5 DEF ToSet
    <3>2. \A s \in Corpus : view[s] \in Recorded(s) \/ (view[s] = NoDoc /\ Recorded(s) = {})
      BY <2>1, <3>1, RecordsAre DEF Restored
    <3>3. \A s \in Corpus : acked'[s] = IF Recorded(s) = {} THEN {NoDoc} ELSE Recorded(s)
      BY <2>5 DEF RestoreEnds
    <3>4. \A s \in Corpus : file'[s] \in acked'[s]
      BY <1>1, <3>2, <3>3
    <3> QED
      BY <3>4 DEF AckInv, Acknowledged
  <2> QED
    BY <1>6, <2>4, <2>5 DEF BatchEnd
<1> QED
  BY <1>3, <1>4, <1>5, <1>6 DEF Leaving

\* A rollback leaves what was acknowledged, or what the failed call may leave.
LEMMA AckUndoing ==
    ASSUME SafeInv, AllSeeing, AckInv, NEW u \in People, Undoing(u)
    PROVE  AckInv'
<1> USE Roles DEF SafeInv
<1>1. /\ file' = file /\ archive' = archive /\ use[u].at \in AtWork /\ Seeing(u)
      /\ acked \in [Corpus -> SUBSET Docs]
  BY Undone DEF Inside, AtWork, Holding, AllSeeing, VecTyped
<1>2. \A s \in Corpus : file[s] \in acked[s] \/ (u \in Indexers /\ Dropping(u, s)) \/ (u = Keeper /\ Restoring(s))
  BY <1>1, BeginsAlone
<1>3. CASE u \in Indexers /\ Busy(u)
  <2>1. /\ use[u].at \in {"dropped", "inserting"} /\ acked' = acked
        /\ use'[u].at = Retried[use[u].at] /\ use'[u].source = use[u].source
    BY <1>3 DEF Busy, Goes, VecTyped, Uses
  <2>2. Retried["inserting"] = "insert"
    BY DEF Retried
  <2>3. \A s \in Corpus : Dropping(u, s) => Dropping(u, s)'
    BY <2>1, <2>2 DEF Dropping
  <2> QED
    BY <1>1, <1>2, <1>3, <2>1, <2>3 DEF AckInv, Acknowledged
<1>4. CASE u \in Indexers /\ Fails(u)
  <2> DEFINE o == use[u].source
  <2>1. /\ use[u].at \in {"dropped", "inserting"} /\ o \in Corpus
        /\ acked' = [acked EXCEPT ![o] = acked[o] \union {NoDoc}]
    BY <1>4 DEF Fails, Placed, Indexing
  <2>2. \A s \in Corpus : Dropping(u, s) => s = o /\ file[s] = NoDoc
    BY <1>1 DEF Dropping, Seeing
  <2>3. \A s \in Corpus : file[s] \in acked[s] \/ (s = o /\ file[s] = NoDoc)
    BY <1>2, <1>4, <2>2
  <2>4. \A s \in Corpus : file'[s] \in acked'[s]
    BY <1>1, <2>1, <2>3
  <2> QED
    BY <2>4 DEF AckInv, Acknowledged
<1>5. CASE u = Keeper /\ KeeperFails
  <2>1. \A s \in Corpus : acked'[s] = acked[s] \union Possible(Keeper, s)
    BY <1>5 DEF KeeperFails
  <2>2. \A s \in Corpus : Restoring(s) => file[s] \in Possible(Keeper, s)
    BY DEF Restoring, Possible, Placed, Keeping
  <2>3. \A s \in Corpus : file'[s] \in acked'[s]
    BY <1>1, <1>2, <1>5, <2>1, <2>2
  <2> QED
    BY <2>3 DEF AckInv, Acknowledged
<1> QED
  BY <1>3, <1>4, <1>5 DEF Undoing

\* Every step keeps what was acknowledged.
LEMMA AckNext ==
    ASSUME SafeInv, AllSeeing, AckInv, VecNext
    PROVE  AckInv'
<1> USE Roles DEF SafeInv
<1>1. ASSUME NEW p \in {"yes", "no"}, OpenVec(p)
      PROVE  AckInv'
  <2>1. \A u \in People : use[u].at = "end"
    BY <1>1 DEF OpenVec, Placed
  <2>2. \A s \in Corpus : file[s] \in acked[s]
    BY <2>1 DEF AckInv, Acknowledged, Dropping, Restoring
  <2>3. \A s \in Corpus : file'[s] \in acked'[s]
    BY <1>1, <2>2 DEF OpenVec
  <2> QED
    BY <2>3 DEF AckInv, Acknowledged
<1>2. CASE CrashVec
  <2> DEFINE Wrote(s) == UNION {Possible(u, s) : u \in {x \in People : Writing(x)}}
  <2>1. file' = file /\ \A s \in Corpus : acked'[s] = acked[s] \union Wrote(s)
    BY <1>2 DEF CrashVec
  <2>2. ASSUME NEW s \in Corpus, NEW u \in Indexers, Dropping(u, s)
        PROVE  file[s] \in Wrote(s)
    <3>1. Writing(u) /\ use[u].call = "index" /\ use[u].source = s /\ file[s] = NoDoc
      BY <2>2 DEF Dropping, Writing, Placed, Indexing, AllSeeing, Seeing
    <3>2. NoDoc \in Possible(u, s)
      BY <3>1 DEF Possible
    <3> QED
      BY <3>1, <3>2
  <2>3. ASSUME NEW s \in Corpus, Restoring(s)
        PROVE  file[s] \in Wrote(s)
    <3>1. Writing(Keeper) /\ use[Keeper].call = "restore" /\ file[s] \in {NoDoc} \union Recorded(s)
      BY <2>3 DEF Restoring, Writing, Placed, Keeping
    <3>2. file[s] \in Possible(Keeper, s)
      BY <3>1 DEF Possible
    <3> QED
      BY <3>1, <3>2
  <2>4. \A s \in Corpus : file'[s] \in acked'[s]
    <3> HIDE DEF Wrote
    <3> QED
      BY <2>1, <2>2, <2>3 DEF AckInv, Acknowledged
  <2> QED
    BY <2>4 DEF AckInv, Acknowledged
<1>3. ASSUME NEW u \in People, VecActs(u)
      PROVE  AckInv'
  <2>1. \A x \in People \ {u} : use'[x] = use[x]
    BY <1>3, OthersStay
  <2>2. CASE Beginning(u) \/ Locking(u) \/ Seeking(u)
    <3>1. UNCHANGED <<file, acked, archive>> /\ use[u].at \notin AtWork
      BY <2>2, Waited, WaitsAside
    <3>2. \A s \in Corpus, x \in Indexers : Dropping(x, s) => Dropping(x, s)'
      BY <2>1, <3>1 DEF Dropping, AtWork, Holding
    <3>3. \A s \in Corpus : Restoring(s) => Restoring(s)'
      BY <2>1, <3>1 DEF Restoring, AtWork, Recorded
    <3> QED
      BY <3>1, <3>2, <3>3 DEF AckInv, Acknowledged
  <2>3. CASE Entering(u) \/ Filling(u) \/ Recording(u)
    <3>1. file' = file /\ acked' = acked /\ use[u].at \in AtWork
      BY <2>3, Entered, GoneOn DEF Inside, AtWork, Holding
    <3>2. \A s \in Corpus : file[s] \in acked[s] \/ (u \in Indexers /\ Dropping(u, s)) \/ (u = Keeper /\ Restoring(s))
      BY <3>1, BeginsAlone
    <3>3. use'[u].source = use[u].source
      <4>1. ~Beginning(u)
        BY <3>1, WaitsAside
      <4> QED
        BY <1>3, <4>1, Moving DEF Keeps
    <3>4. \A s \in Corpus : u \in Indexers /\ Dropping(u, s) => Dropping(u, s)'
      <4>1. u \in Indexers /\ use[u].at \in {"insert", "inserting"} => use'[u].at \in {"insert", "inserting"}
        <5>1. u \in Indexers /\ DropBegin(u) => use[u].at = "drop"
          BY DEF DropBegin, In
        <5>2. u \in Indexers /\ InsertBegin(u) => use'[u].at = "inserting"
          BY DEF InsertBegin, Goes, VecTyped, Uses
        <5>3. u \in Indexers /\ InsertChunk(u) => use'[u].at = use[u].at
          BY DEF InsertChunk
        <5> QED
          BY <2>3, <5>1, <5>2, <5>3 DEF Entering, Filling, Recording
      <4> QED
        BY <3>3, <4>1 DEF Dropping
    <3>5. \A s \in Corpus : u = Keeper /\ Restoring(s) => Restoring(s)'
      <4>1. u = Keeper /\ use[Keeper].at \in {"write", "written"} => BatchBegin
        BY <2>3 DEF Entering, Filling, Recording, StreamBegin, WipeBegin, StreamRecord, In
      <4>2. u = Keeper /\ BatchBegin => use'[Keeper].at = "written" /\ archive' = archive
        BY DEF BatchBegin, VecTyped, Uses
      <4> QED
        BY <3>1, <4>1, <4>2 DEF Restoring, Recorded
    <3> QED
      BY <3>1, <3>2, <3>4, <3>5 DEF AckInv, Acknowledged
  <2> QED
    BY <1>3, <2>2, <2>3, AckLeaving, AckUndoing DEF VecActs
<1> QED
  BY <1>1, <1>2, <1>3, VecSteps
-----------------------------------------------------------------------------
(* The promise of the vector index. *)

VecInv == SafeInv /\ AllSeeing /\ Pooled /\ Seen /\ Streamed /\ AckInv

\* The index is first opened on a file that holds nothing.
LEMMA VecInvInit == VecInit => VecInv
<1> SUFFICES ASSUME VecInit
             PROVE  VecInv
  OBVIOUS
<1> USE Roles, DocsAre DEF VecInit
<1>1. NoUse \in Uses /\ NoUse.at = "end" /\ NoUse.saw = <<>>
  BY DEF NoUse, Uses, Calls, Ats
<1>2. \A u \in People : use[u] = NoUse
  OBVIOUS
<1>3. VecTyped
  <2>1. file \in [Corpus -> WholeDocs] /\ view \in Tables /\ savepoints \in Seq(Tables)
    OBVIOUS
  <2>2. archive \in Archives
    BY DEF Archives
  <2>3. acked \in [Corpus -> SUBSET Docs]
    OBVIOUS
  <2> QED
    BY <1>1, <2>1, <2>2, <2>3 DEF VecTyped
<1>4. Placed /\ Locked /\ KeeperAlone
  BY <1>1, <1>2 DEF Placed, Indexing, Keeping, Locked, KeeperAlone, Holding
<1>5. Single /\ AllSeeing /\ Streamed
  BY <1>1, <1>2 DEF Single, AllSeeing, Seeing, Inside, Streamed
<1>6. Pooled /\ Seen
  BY <1>1, <1>2 DEF Pooled, Seen
<1>7. AckInv
  BY DEF AckInv, Acknowledged
<1> QED
  BY <1>3, <1>4, <1>5, <1>6, <1>7 DEF VecInv, SafeInv

\* Every step keeps the invariant, where the keeper does not overlap a write.
LEMMA VecInvNext ==
    ASSUME ~KeeperOverlaps, VecInv, [VecNext]_vecVars
    PROVE  VecInv'
<1>1. CASE VecNext
  BY <1>1, VecTypedNext, PlacedNext, LockedNext, SingleNext, SeeingNext, PooledNext, SeenNext, StreamedNext, AckNext
     DEF VecInv, SafeInv
<1>2. CASE UNCHANGED vecVars
  <2> USE <1>2 DEF vecVars
  <2>1. VecTyped'
    BY DEF VecInv, SafeInv, VecTyped
  <2>2. Placed' /\ Locked' /\ KeeperAlone' /\ Single'
    BY DEF VecInv, SafeInv, Placed, Indexing, Keeping, Locked, KeeperAlone, Single
  <2>3. AllSeeing'
    BY DEF VecInv, AllSeeing, Seeing, Restored, Recorded
  <2>4. Pooled' /\ Seen' /\ Streamed'
    BY DEF VecInv, Pooled, Reading, Seen, Streamed, RecordsOf
  <2>5. AckInv'
    BY DEF VecInv, AckInv, Acknowledged, Dropping, Restoring, Recorded
  <2> QED
    BY <2>1, <2>2, <2>3, <2>4, <2>5 DEF VecInv, SafeInv
<1> QED
  BY <1>1, <1>2

\* The states of the invariant keep the promise: the types,
LEMMA VecInvTypes == VecInv => VecTypeOK
<1> SUFFICES ASSUME VecInv
             PROVE  VecTypeOK
  OBVIOUS
<1> USE Roles DEF VecInv, SafeInv, VecTyped
<1>1. file \in Tables /\ archive.whole \in BOOLEAN
  BY DocsAre DEF Archives
<1>2. savepoints = <<>> => view = file
  <2>1. <<file>> # <<>>
    OBVIOUS
  <2> QED
    BY <2>1 DEF Single
<1>3. rwLock \intersect Indexers # {} => Cardinality(rwLock) = 1
  <2> SUFFICES ASSUME NEW u \in Indexers, u \in rwLock
               PROVE  Cardinality(rwLock) = 1
    OBVIOUS
  <2>1. rwLock = {u}
    BY DEF Locked
  <2> QED
    BY <2>1, FS_Singleton
<1>4. free \in 0 .. PoolSize
  <2>0. PoolSize \in Nat
    BY VecAssumption
  <2>1. CASE pooled = "yes"
    <3>1. IsFiniteSet(Reading) /\ free \in Nat /\ free + Cardinality(Reading) = PoolSize
      BY <2>1 DEF Pooled
    <3>2. Cardinality(Reading) \in Nat
      BY <3>1, FS_CardinalityType
    <3> QED
      BY <2>0, <3>1, <3>2
  <2>2. CASE pooled # "yes"
    BY <2>0, <2>2 DEF Pooled
  <2> QED
    BY <2>1, <2>2
<1> QED
  BY <1>1, <1>2, <1>3, <1>4 DEF VecTypeOK

\* what a call returned is committed,
LEMMA VecInvReturned == VecInv => ReturnedIsCommitted
<1> SUFFICES ASSUME VecInv, NEW s \in Corpus, Quiet(s)
             PROVE  file[s] \in acked[s]
  BY DEF ReturnedIsCommitted
<1> USE Roles DEF VecInv, SafeInv
<1>1. \A u \in Indexers : ~Dropping(u, s)
  BY DEF Dropping, Quiet, Writing, Placed, Indexing
<1>2. ~Restoring(s)
  BY DEF Restoring, Quiet, Writing, Placed, Keeping
<1> QED
  BY <1>1, <1>2 DEF AckInv, Acknowledged

\* and a search saw whole documents.
LEMMA VecInvSearches == VecInv => SearchSeesWhole
  BY DEF VecInv, Seen, SearchSeesWhole, WholeDocs

\* The step that completes an archive completes it with what the file holds.
LEMMA BackupStep ==
    ASSUME VecInv, VecNext, archive'.whole, ~archive.whole
    PROVE  /\ ToSet(archive'.records) = {[source |-> s, doc |-> file[s]] : s \in {x \in Corpus : file[x] # NoDoc}}
           /\ IsInjective(archive'.records)
<1> USE Roles DEF VecInv, SafeInv, VecTyped
<1>1. StreamEnd
  <2>1. ~(\E p \in {"yes", "no"} : OpenVec(p)) /\ ~CrashVec
    BY DEF OpenVec, CrashVec
  <2>2. PICK u \in People : VecActs(u)
    BY <2>1, VecSteps
  <2>3. archive' # archive
    OBVIOUS
  <2>4. ~(Beginning(u) \/ Locking(u) \/ Seeking(u) \/ Undoing(u) \/ Filling(u))
    <3>1. Filling(u) => archive' = archive
      BY DEF Filling, InsertChunk
    <3> QED
      BY <2>3, <3>1, Waited, Undone
  <2>5. ~Entering(u)
    BY <2>3 DEF Entering, DropBegin, InsertBegin, StreamBegin, WipeBegin, BatchBegin
  <2>6. ~Recording(u)
    <3>1. archive \in Archives
      OBVIOUS
    <3>2. Recording(u) => archive'.whole = archive.whole
      BY <3>1 DEF Recording, StreamRecord, Archives
    <3> QED
      BY <3>2
  <2>7. Leaving(u)
    BY <2>2, <2>4, <2>5, <2>6 DEF VecActs
  <2> QED
    BY <2>3, <2>7 DEF Leaving, DropEnd, InsertEnd, BatchEnd
<1>2. use[Keeper].at = "streaming" /\ use[Keeper].todo = <<>> /\ archive'.records = archive.records
  BY <1>1 DEF StreamEnd, In, Archives
<1>3. ToSet(<<>>) = {} /\ Corpus \ {} = Corpus
  BY DEF ToSet
<1>4. ToSet(archive.records) = RecordsOf(Corpus) /\ IsInjective(archive.records)
  BY <1>2, <1>3 DEF Streamed
<1> QED
  BY <1>2, <1>4 DEF RecordsOf

\* While no backup and no restoration overlaps a write, the vector index keeps
\* its promise (sqlitevec/index.go:37): what a call acknowledged is committed and
\* a crash or a failure leaves no part of a document, a search sees each document
\* whole whatever is written next to it, and a backup that ends holds every
\* document once.
THEOREM VectorsKept == ~KeeperOverlaps => (VecSpec => VectorsKeepFaith)
<1> SUFFICES ASSUME ~KeeperOverlaps
             PROVE  VecSpec => VectorsKeepFaith
  OBVIOUS
<1> DEFINE Promised == VecTypeOK /\ ReturnedIsCommitted /\ SearchSeesWhole
           Completes ==
               archive'.whole /\ ~archive.whole =>
                   /\ ToSet(archive'.records) = {[source |-> s, doc |-> file[s]] : s \in {x \in Corpus : file[x] # NoDoc}}
                   /\ IsInjective(archive'.records)
<1>1. VecInit => VecInv
  BY VecInvInit
<1>2. VecInv /\ [VecNext]_vecVars => VecInv'
  BY VecInvNext
<1>3. VecInv => Promised
  BY VecInvTypes, VecInvReturned, VecInvSearches
<1>4. VecInv /\ [VecNext]_vecVars => [Completes]_vecVars
  BY BackupStep
<1>5. VectorsKeepFaith <=> []Promised /\ [][Completes]_vecVars
  BY DEF VectorsKeepFaith, BackupIsWhole
<1> HIDE DEF Promised, Completes
<1> QED
  BY <1>1, <1>2, <1>3, <1>4, <1>5, PTL DEF VecSpec

-----------------------------------------------------------------------------
(* The connections of the Postgres legs. *)

\* What a leg holds at a step.
HeldAt(s) ==
    CASE s \in {"set", "query", "replay"} -> 1
      [] s = "replaying" -> 2
      [] OTHER -> 0

TextSteps == {"none", "acquire", "query"} \union Over

VectorSteps == {"none", "embed", "acquire", "set", "query", "replay", "replaying"} \union Over

\* A search that asks no Postgres has no legs.
QuestTyped(q) ==
    /\ q \in [engine : {q.engine}, wish : {q.wish}, text : {q.text}, vector : {q.vector},
              end : {q.end}, heard : {q.heard}, results : {q.results}]
    /\ q.text \in TextSteps /\ q.vector \in VectorSteps /\ q.end \in {"none", "answered", "failed"}
    /\ q.engine \notin Postgres => q.text = "none" /\ q.vector = "none"

QuestsTyped == quest = [u \in Seekers |-> quest[u]] /\ \A u \in Seekers : QuestTyped(quest[u])

PoolInv ==
    /\ QuestsTyped
    /\ idle \in Nat /\ IsFiniteSet(Lent) /\ ConnectionsReturn
    /\ IsFiniteSet(FallingBack)

\* What a leg holds depends on its step.
LEMMA HeldRight ==
    /\ \A u, leg : HeldBy(u, leg) = HeldAt(quest[u][leg])
    /\ \A s : HeldAt(s) \in 0 .. 2
    /\ HeldAt("none") = 0 /\ HeldAt("embed") = 0 /\ HeldAt("acquire") = 0 /\ HeldAt("done") = 0
    /\ HeldAt("replayed") = 0 /\ HeldAt("failed") = 0
    /\ HeldAt("set") = 1 /\ HeldAt("query") = 1 /\ HeldAt("replay") = 1 /\ HeldAt("replaying") = 2
<1>1. \A u, leg : HeldBy(u, leg) = HeldAt(quest[u][leg])
  BY DEF HeldBy, HeldAt
<1>2. \A s : HeldAt(s) \in 0 .. 2
  BY DEF HeldAt
<1>3. /\ HeldAt("none") = 0 /\ HeldAt("embed") = 0 /\ HeldAt("acquire") = 0 /\ HeldAt("done") = 0
      /\ HeldAt("replayed") = 0 /\ HeldAt("failed") = 0
  BY DEF HeldAt
<1>4. HeldAt("set") = 1 /\ HeldAt("query") = 1 /\ HeldAt("replay") = 1 /\ HeldAt("replaying") = 2
  BY DEF HeldAt
<1> QED
  BY <1>1, <1>2, <1>3, <1>4

\* The connections of one leg, and those of the others.
LentTo(u, leg, n) == {<<u, leg, i>> : i \in 1 .. n}

LentElse(u, leg) == {l \in Lent : ~(l[1] = u /\ l[2] = leg)}

\* A leg adds as many connections as it holds to those of the others.
LEMMA LentCounted ==
    ASSUME NEW S, IsFiniteSet(S), NEW u, NEW leg, NEW n \in 0 .. 2, \A i \in 1 .. 2 : <<u, leg, i>> \notin S
    PROVE  IsFiniteSet(S \union LentTo(u, leg, n)) /\ Cardinality(S \union LentTo(u, leg, n)) = Cardinality(S) + n
<1> DEFINE x == <<u, leg, 1>>
           y == <<u, leg, 2>>
           R == S \union {x}
           T == S \union LentTo(u, leg, n)
<1> SUFFICES IsFiniteSet(T) /\ Cardinality(T) = Cardinality(S) + n
  OBVIOUS
<1>1. Cardinality(S) \in Nat
  BY FS_CardinalityType
<1>2. x \notin S /\ y \notin S /\ x # y
  OBVIOUS
<1>3. LentTo(u, leg, 0) = {} /\ LentTo(u, leg, 1) = {x} /\ LentTo(u, leg, 2) = {x, y}
  <2>1. 1 .. 0 = {} /\ 1 .. 1 = {1} /\ 1 .. 2 = {1, 2}
    OBVIOUS
  <2> QED
    BY <2>1 DEF LentTo
<1> HIDE DEF x, y
<1>4. IsFiniteSet(R) /\ Cardinality(R) = Cardinality(S) + 1
  BY <1>2, FS_AddElement
<1>5. y \notin R
  BY <1>2
<1>6. (n = 0 => T = S) /\ (n = 1 => T = R) /\ (n = 2 => T = R \union {y})
  BY <1>3
<1> HIDE DEF T, R
<1> DEFINE Q == R \union {y}
<1>7. IsFiniteSet(Q) /\ Cardinality(Q) = Cardinality(R) + 1
  BY <1>4, <1>5, FS_AddElement
<1>8. n = 2 => T = Q
  BY <1>6
<1> HIDE DEF Q
<1> QED
  BY <1>1, <1>4, <1>6, <1>7, <1>8

\* What is lent is lent to this leg or to others.
LEMMA LentApart ==
    ASSUME NEW u \in Seekers, NEW leg \in {"text", "vector"}
    PROVE  /\ Lent = LentElse(u, leg) \union LentTo(u, leg, HeldBy(u, leg))
           /\ \A i \in 1 .. 2 : <<u, leg, i>> \notin LentElse(u, leg)
           /\ HeldBy(u, leg) \in 0 .. 2
<1>1. HeldBy(u, leg) \in 0 .. 2
  BY HeldRight
<1>2. LentTo(u, leg, HeldBy(u, leg)) \subseteq Lent
  BY <1>1 DEF Lent, LentTo
<1>3. ASSUME NEW l \in Lent, l[1] = u, l[2] = leg
      PROVE  l \in LentTo(u, leg, HeldBy(u, leg))
  <2>1. l = <<u, leg, l[3]>> /\ l[3] \in 1 .. HeldBy(u, leg)
    BY <1>1, <1>3 DEF Lent
  <2> QED
    BY <2>1 DEF LentTo
<1>4. \A i \in 1 .. 2 : <<u, leg, i>> \notin LentElse(u, leg)
  BY DEF LentElse
<1>5. Lent = LentElse(u, leg) \union LentTo(u, leg, HeldBy(u, leg))
  BY <1>2, <1>3 DEF LentElse
<1> QED
  BY <1>1, <1>4, <1>5

\* When one leg moves, and returns to the pool what it no longer holds, no
\* connection is lost.
LEMMA LegMoves ==
    ASSUME IsFiniteSet(Lent), ConnectionsReturn,
           NEW u \in Seekers, NEW leg \in {"text", "vector"},
           \A v \in Seekers, other \in {"text", "vector"} :
               ~(v = u /\ other = leg) => HeldBy(v, other)' = HeldBy(v, other),
           idle' = idle + HeldBy(u, leg) - HeldBy(u, leg)'
    PROVE  IsFiniteSet(Lent') /\ ConnectionsReturn'
<1>1. /\ Lent = LentElse(u, leg) \union LentTo(u, leg, HeldBy(u, leg))
      /\ \A i \in 1 .. 2 : <<u, leg, i>> \notin LentElse(u, leg)
      /\ HeldBy(u, leg) \in 0 .. 2
  BY LentApart
<1>2. Lent' = LentElse(u, leg)' \union LentTo(u, leg, HeldBy(u, leg)') /\ HeldBy(u, leg)' \in 0 .. 2
  <2>1. HeldBy(u, leg)' \in 0 .. 2
    BY DEF HeldBy
  <2>2. LentTo(u, leg, HeldBy(u, leg)') \subseteq Lent'
    BY <2>1 DEF Lent, LentTo
  <2>3. ASSUME NEW l \in Lent', l[1] = u, l[2] = leg
        PROVE  l \in LentTo(u, leg, HeldBy(u, leg)')
    <3>1. l = <<u, leg, l[3]>> /\ l[3] \in 1 .. HeldBy(u, leg)'
      BY <2>1, <2>3 DEF Lent
    <3> QED
      BY <3>1 DEF LentTo
  <2> QED
    BY <2>1, <2>2, <2>3 DEF LentElse
<1>3. LentElse(u, leg)' = LentElse(u, leg)
  BY DEF LentElse, Lent
<1>4. IsFiniteSet(LentElse(u, leg))
  <2>1. LentElse(u, leg) \in SUBSET Lent
    BY DEF LentElse
  <2> QED
    BY <2>1, FS_Subset
<1>5. Cardinality(LentElse(u, leg)) \in Nat
  BY <1>4, FS_CardinalityType
<1> DEFINE With(n) == LentElse(u, leg) \union LentTo(u, leg, n)
<1>6. \A n \in 0 .. 2 : IsFiniteSet(With(n)) /\ Cardinality(With(n)) = Cardinality(LentElse(u, leg)) + n
  BY <1>1, <1>4, LentCounted
<1>7. Lent = With(HeldBy(u, leg)) /\ Lent' = With(HeldBy(u, leg)')
  BY <1>1, <1>2, <1>3
<1> HIDE DEF With
<1>8. Connections \in Int
  BY ConnectionsAssumption
<1>9. Cardinality(Lent) = Cardinality(LentElse(u, leg)) + HeldBy(u, leg)
  BY <1>1, <1>6, <1>7
<1>10. IsFiniteSet(Lent') /\ Cardinality(Lent') = Cardinality(LentElse(u, leg)) + HeldBy(u, leg)'
  <2> DEFINE n == HeldBy(u, leg)'
  <2>1. n \in 0 .. 2 /\ Lent' = With(n)
    BY <1>2, <1>7
  <2> HIDE DEF n
  <2>2. IsFiniteSet(Lent') /\ Cardinality(Lent') = Cardinality(LentElse(u, leg)) + n
    BY <1>6, <2>1
  <2> QED
    BY <2>2 DEF n
<1>11. Cardinality(Lent') \in Int /\ Cardinality(Lent) \in Int /\ HeldBy(u, leg) \in Int /\ HeldBy(u, leg)' \in Int
  BY <1>1, <1>2, <1>5, <1>9, <1>10
<1> QED
  <2>1. idle = Connections - Cardinality(Lent)
    BY DEF ConnectionsReturn
  <2>2. idle' = Connections - Cardinality(Lent')
    BY <1>5, <1>8, <1>9, <1>10, <1>11, <2>1
  <2> QED
    BY <1>10, <2>2, ConnectionsAssumption DEF ConnectionsReturn

\* A leg that moves leaves everything else of the searches as it is.
LEMMA QuestMoves ==
    ASSUME QuestsTyped, NEW u \in Seekers, NEW leg \in {"text", "vector"}, NEW to,
           \/ quest' = [quest EXCEPT ![u][leg] = to]
           \/ \E hits : quest' = [quest EXCEPT ![u].text = to, ![u].heard[1] = hits] /\ leg = "text"
           \/ \E hits : quest' = [quest EXCEPT ![u].vector = to, ![u].heard[2] = hits] /\ leg = "vector",
           leg = "text" => to \in TextSteps, leg = "vector" => to \in VectorSteps,
           quest[u].engine \in Postgres
    PROVE  /\ QuestsTyped'
           /\ \A v \in Seekers, other \in {"text", "vector"} :
                  quest'[v][other] = IF v = u /\ other = leg THEN to ELSE quest[v][other]
<1>1. QuestTyped(quest[u]) /\ quest = [v \in Seekers |-> quest[v]]
  BY DEF QuestsTyped
<1> DEFINE p == quest[u]
           q == quest'[u]
<1>2. /\ quest' = [v \in Seekers |-> quest'[v]] /\ \A v \in Seekers \ {u} : quest'[v] = quest[v]
      /\ \/ q = [p EXCEPT ![leg] = to]
         \/ \E hits : q = [p EXCEPT !.text = to, !.heard[1] = hits] /\ leg = "text"
         \/ \E hits : q = [p EXCEPT !.vector = to, !.heard[2] = hits] /\ leg = "vector"
  BY <1>1
<1>3. QuestTyped(q) /\ \A other \in {"text", "vector"} : q[other] = IF other = leg THEN to ELSE p[other]
  <2> HIDE DEF p, q
  <2>0. QuestTyped(p) /\ p.engine \in Postgres
    BY <1>1 DEF p
  <2>1. CASE q = [p EXCEPT ![leg] = to]
    <3>1. CASE leg = "text"
      BY <2>0, <2>1, <3>1 DEF QuestTyped
    <3>2. CASE leg = "vector"
      BY <2>0, <2>1, <3>2 DEF QuestTyped
    <3> QED
      BY <3>1, <3>2
  <2>2. ASSUME NEW hits, q = [p EXCEPT !.text = to, !.heard[1] = hits], leg = "text"
        PROVE  QuestTyped(q) /\ \A other \in {"text", "vector"} : q[other] = IF other = leg THEN to ELSE p[other]
    BY <2>0, <2>2 DEF QuestTyped
  <2>3. ASSUME NEW hits, q = [p EXCEPT !.vector = to, !.heard[2] = hits], leg = "vector"
        PROVE  QuestTyped(q) /\ \A other \in {"text", "vector"} : q[other] = IF other = leg THEN to ELSE p[other]
    BY <2>0, <2>3 DEF QuestTyped
  <2> QED
    BY <1>2, <2>1, <2>2, <2>3
<1> QED
  BY <1>1, <1>2, <1>3 DEF QuestsTyped

\* While no leg moves, the pool stays as it is.
LEMMA PoolStays ==
    ASSUME PoolInv, idle' = idle, QuestsTyped',
           \A u \in Seekers, leg \in {"text", "vector"} : HeldBy(u, leg)' = HeldBy(u, leg),
           FallingBack' = FallingBack
    PROVE  PoolInv'
<1>1. Lent' = Lent
  BY DEF Lent
<1> QED
  BY <1>1 DEF PoolInv, ConnectionsReturn

\* One leg of a search of Postgres moves on: it takes from the pool what it
\* holds then, and gives back what it held.
LEMMA PoolMoves ==
    ASSUME PoolInv, NEW u \in Seekers, NEW leg \in {"text", "vector"}, NEW to,
           \/ quest' = [quest EXCEPT ![u][leg] = to]
           \/ \E hits : quest' = [quest EXCEPT ![u].text = to, ![u].heard[1] = hits] /\ leg = "text"
           \/ \E hits : quest' = [quest EXCEPT ![u].vector = to, ![u].heard[2] = hits] /\ leg = "vector",
           leg = "text" => to \in TextSteps, leg = "vector" => to \in VectorSteps,
           quest[u].engine \in Postgres,
           idle' \in Nat, idle' = idle + HeldAt(quest[u][leg]) - HeldAt(to)
    PROVE  PoolInv'
<1>1. /\ QuestsTyped'
      /\ \A v \in Seekers, other \in {"text", "vector"} :
             quest'[v][other] = IF v = u /\ other = leg THEN to ELSE quest[v][other]
  BY QuestMoves DEF PoolInv
<1>2. \A v, other : HeldBy(v, other) = HeldAt(quest[v][other]) /\ HeldBy(v, other)' = HeldAt(quest'[v][other])
  BY DEF HeldBy, HeldAt
<1>3. HeldBy(u, leg) = HeldAt(quest[u][leg]) /\ HeldBy(u, leg)' = HeldAt(to)
  BY <1>1, <1>2
<1>4. \A v \in Seekers, other \in {"text", "vector"} :
          ~(v = u /\ other = leg) => HeldBy(v, other)' = HeldBy(v, other)
  BY <1>1, <1>2
<1>5. IsFiniteSet(Lent') /\ ConnectionsReturn'
  BY <1>3, <1>4, LegMoves DEF PoolInv
<1>6. IsFiniteSet(FallingBack')
  <2>1. FallingBack' \in SUBSET (FallingBack \union {u})
    BY <1>1 DEF FallingBack
  <2>2. IsFiniteSet(FallingBack \union {u})
    BY FS_AddElement DEF PoolInv
  <2> QED
    BY <2>1, <2>2, FS_Subset
<1> QED
  BY <1>1, <1>5, <1>6 DEF PoolInv

\* A search is asked for.
LEMMA AskPool ==
    ASSUME PoolInv, NEW u \in Seekers, NEW engine, NEW wish, Ask(u, engine, wish)
    PROVE  PoolInv'
<1>1. QuestTyped(quest[u]) /\ quest[u].engine = "none" /\ quest = [v \in Seekers |-> quest[v]]
  BY DEF PoolInv, QuestsTyped, Ask
<1>2. quest[u].text = "none" /\ quest[u].vector = "none"
  BY <1>1 DEF QuestTyped, Postgres
<1>3. /\ quest' = [v \in Seekers |-> quest'[v]] /\ \A v \in Seekers \ {u} : quest'[v] = quest[v]
      /\ QuestTyped(quest'[u]) /\ quest'[u].text \in {"none", "acquire"} /\ quest'[u].vector \in {"none", "embed", "done"}
      /\ idle' = idle
  BY <1>1 DEF Ask, QuestTyped, NoQuest, TextSteps, VectorSteps, Over, Postgres
<1>4. \A v, leg : HeldBy(v, leg) = HeldAt(quest[v][leg]) /\ HeldBy(v, leg)' = HeldAt(quest'[v][leg])
  BY DEF HeldBy, HeldAt
<1>5. \A v \in Seekers, leg \in {"text", "vector"} : HeldBy(v, leg)' = HeldBy(v, leg)
  BY <1>2, <1>3, <1>4, HeldRight
<1>6. FallingBack' = FallingBack
  BY <1>2, <1>3 DEF FallingBack
<1>7. QuestsTyped'
  BY <1>3 DEF PoolInv, QuestsTyped
<1> QED
  BY <1>3, <1>5, <1>6, <1>7, PoolStays

\* A search ends, with an answer or an error.
LEMMA EndPool ==
    ASSUME PoolInv, NEW u \in Seekers,
           BleveSearch(u) \/ VecSearch(u) \/ LegFails(u) \/ Fuse(u) \/ GiveError(u)
    PROVE  PoolInv'
<1>1. QuestTyped(quest[u]) /\ quest = [v \in Seekers |-> quest[v]]
  BY DEF PoolInv, QuestsTyped
<1>2. /\ quest' = [v \in Seekers |-> quest'[v]] /\ \A v \in Seekers \ {u} : quest'[v] = quest[v]
      /\ QuestTyped(quest'[u]) /\ quest'[u].text = quest[u].text /\ quest'[u].vector = quest[u].vector
      /\ idle' = idle
  <2>1. ASSUME NEW end \in {"answered", "failed"}, NEW heard, NEW results, idle' = idle,
               \/ quest' = [quest EXCEPT ![u].end = end, ![u].heard[1] = heard, ![u].results = results]
               \/ quest' = [quest EXCEPT ![u].end = end, ![u].heard[2] = heard, ![u].results = results]
               \/ quest' = [quest EXCEPT ![u].end = end, ![u].results = results]
               \/ quest' = [quest EXCEPT ![u].end = end]
        PROVE  /\ quest' = [v \in Seekers |-> quest'[v]] /\ \A v \in Seekers \ {u} : quest'[v] = quest[v]
               /\ QuestTyped(quest'[u]) /\ quest'[u].text = quest[u].text /\ quest'[u].vector = quest[u].vector
               /\ idle' = idle
    BY <1>1, <2>1 DEF QuestTyped
  <2>2. CASE BleveSearch(u)
    <3>1. PICK heard, results : quest' = [quest EXCEPT ![u].end = "answered", ![u].heard[1] = heard, ![u].results = results]
      BY <2>2 DEF BleveSearch
    <3> QED
      BY <2>1, <2>2, <3>1 DEF BleveSearch
  <2>3. CASE VecSearch(u)
    <3> DEFINE hits == VecHits(quest[u].wish, quest[u].engine = "coarse")
    <3>1. \E results \in ByNearness(hits) :
              quest' = [quest EXCEPT ![u].end = "answered", ![u].heard[2] = hits, ![u].results = results]
      BY Zenon, <2>3 DEF VecSearch
    <3> HIDE DEF hits
    <3>2. PICK results : quest' = [quest EXCEPT ![u].end = "answered", ![u].heard[2] = hits, ![u].results = results]
      BY <3>1
    <3> QED
      BY <2>1, <2>3, <3>2, Zenon DEF VecSearch
  <2>4. CASE Fuse(u)
    <3>1. PICK results : quest' = [quest EXCEPT ![u].end = "answered", ![u].results = results]
      BY <2>4 DEF Fuse
    <3> QED
      BY <2>1, <2>4, <3>1 DEF Fuse
  <2>5. CASE LegFails(u) \/ GiveError(u)
    BY <2>1, <2>5 DEF LegFails, GiveError
  <2> QED
    BY <2>2, <2>3, <2>4, <2>5
<1>3. \A v, leg : HeldBy(v, leg) = HeldAt(quest[v][leg]) /\ HeldBy(v, leg)' = HeldAt(quest'[v][leg])
  BY DEF HeldBy, HeldAt
<1>4. \A v \in Seekers, leg \in {"text", "vector"} : HeldBy(v, leg)' = HeldBy(v, leg)
  BY <1>2, <1>3
<1>5. FallingBack' = FallingBack
  BY <1>2 DEF FallingBack
<1>6. QuestsTyped'
  BY <1>2 DEF PoolInv, QuestsTyped
<1> QED
  BY <1>2, <1>4, <1>5, <1>6, PoolStays

\* The legs of Postgres move one step at a time.
LEMMA LegPool ==
    ASSUME PoolInv, NEW u \in Seekers,
           \/ FtsAcquire(u) \/ FtsQuery(u) \/ Embed(u) \/ Begin(u) \/ SetHeap(u) \/ SetHeapFails(u)
           \/ VecQuery(u) \/ ReplayAcquire(u) \/ Replay(u)
           \/ \E leg \in {"text", "vector"} : PgFails(u, leg)
    PROVE  PoolInv'
<1>1. idle \in Nat /\ QuestTyped(quest[u])
  BY DEF PoolInv, QuestsTyped
<1>2. ASSUME NEW leg \in {"text", "vector"}, NEW from, NEW to, Acquires(u, leg, from, to),
             leg = "text" => to \in TextSteps, leg = "vector" => to \in VectorSteps,
             HeldAt(to) = HeldAt(from) + 1
      PROVE  PoolInv'
  <2>1. /\ quest' = [quest EXCEPT ![u][leg] = to] /\ quest[u][leg] = from /\ quest[u].engine \in Postgres
        /\ idle > 0 /\ idle' = idle - 1
    BY <1>2 DEF Acquires, On
  <2>2. HeldAt(from) \in 0 .. 2
    BY HeldRight
  <2>3. idle' \in Nat /\ idle' = idle + HeldAt(quest[u][leg]) - HeldAt(to)
    BY <1>1, <1>2, <2>1, <2>2
  <2> QED
    BY <1>2, <2>1, <2>3, PoolMoves
<1>3. CASE FtsAcquire(u)
  BY <1>2, <1>3, HeldRight DEF FtsAcquire, TextSteps
<1>4. CASE Begin(u)
  BY <1>2, <1>4, HeldRight DEF Begin, VectorSteps
<1>5. CASE ReplayAcquire(u)
  BY <1>2, <1>5, HeldRight DEF ReplayAcquire, VectorSteps
<1>6. CASE FtsQuery(u)
  <2>1. quest[u]["text"] = "query" /\ quest[u].engine \in Postgres /\ idle' = idle + 1
    BY <1>6 DEF FtsQuery, On
  <2>2. \E hits : quest' = [quest EXCEPT ![u].text = "done", ![u].heard[1] = hits]
    BY <1>6 DEF FtsQuery
  <2>3. idle' \in Nat /\ idle' = idle + HeldAt(quest[u]["text"]) - HeldAt("done")
    BY <1>1, <2>1, HeldRight
  <2>4. "done" \in TextSteps
    BY DEF TextSteps, Over
  <2> QED
    BY <2>1, <2>2, <2>3, <2>4, PoolMoves
<1>7. CASE VecQuery(u)
  <2>1. quest[u]["vector"] = "query" /\ quest[u].engine \in Postgres /\ idle' = idle + 1
    BY <1>7 DEF VecQuery, On
  <2>2. \E hits : quest' = [quest EXCEPT ![u].vector = "done", ![u].heard[2] = hits]
    BY <1>7 DEF VecQuery
  <2>3. idle' \in Nat /\ idle' = idle + HeldAt(quest[u]["vector"]) - HeldAt("done")
    BY <1>1, <2>1, HeldRight
  <2>4. "done" \in VectorSteps
    BY DEF VectorSteps, Over
  <2> QED
    BY <2>1, <2>2, <2>3, <2>4, PoolMoves
<1>8. CASE Replay(u)
  <2>1. quest[u]["vector"] = "replaying" /\ quest[u].engine \in Postgres /\ idle' = idle + 2
    BY <1>8 DEF Replay, On
  <2>2. \E hits : quest' = [quest EXCEPT ![u].vector = "replayed", ![u].heard[2] = hits]
    BY <1>8 DEF Replay
  <2>3. idle' \in Nat /\ idle' = idle + HeldAt(quest[u]["vector"]) - HeldAt("replayed")
    BY <1>1, <2>1, HeldRight
  <2>4. "replayed" \in VectorSteps
    BY DEF VectorSteps, Over
  <2> QED
    BY <2>1, <2>2, <2>3, <2>4, PoolMoves
<1>9. ASSUME NEW from, NEW to \in VectorSteps, On(u, "vector", from), idle' = idle, HeldAt(from) = HeldAt(to),
             quest' = [quest EXCEPT ![u].vector = to]
      PROVE  PoolInv'
  <2>1. quest[u]["vector"] = from /\ quest[u].engine \in Postgres
    BY <1>9 DEF On
  <2>2. HeldAt(from) \in 0 .. 2
    BY HeldRight
  <2>3. idle' \in Nat /\ idle' = idle + HeldAt(quest[u]["vector"]) - HeldAt(to)
    BY <1>1, <1>9, <2>1, <2>2
  <2> QED
    BY <1>9, <2>1, <2>3, PoolMoves
<1>10. CASE Embed(u)
  BY <1>9, <1>10, HeldRight DEF Embed, VectorSteps
<1>11. CASE SetHeap(u)
  BY <1>9, <1>11, HeldRight DEF SetHeap, VectorSteps
<1>12. CASE SetHeapFails(u)
  BY <1>9, <1>12, HeldRight DEF SetHeapFails, VectorSteps
<1>13. ASSUME NEW leg \in {"text", "vector"}, PgFails(u, leg)
       PROVE  PoolInv'
  <2>1. /\ quest' = [quest EXCEPT ![u][leg] = "failed"] /\ quest[u].engine \in Postgres
        /\ idle' = idle + HeldBy(u, leg)
    BY <1>13 DEF PgFails
  <2>2. HeldBy(u, leg) = HeldAt(quest[u][leg]) /\ HeldAt(quest[u][leg]) \in 0 .. 2 /\ HeldAt("failed") = 0
    BY HeldRight
  <2>3. idle' \in Nat /\ idle' = idle + HeldAt(quest[u][leg]) - HeldAt("failed")
    BY <1>1, <2>1, <2>2
  <2>4. "failed" \in TextSteps /\ "failed" \in VectorSteps
    BY DEF TextSteps, VectorSteps, Over
  <2> QED
    BY <2>1, <2>3, <2>4, PoolMoves
<1> QED
  BY <1>3, <1>4, <1>5, <1>6, <1>7, <1>8, <1>10, <1>11, <1>12, <1>13

\* Nothing is lent at first.
LEMMA PoolStarts == LegInit => PoolInv
<1> SUFFICES ASSUME LegInit
             PROVE  PoolInv
  OBVIOUS
<1>1. quest = [u \in Seekers |-> NoQuest] /\ idle = Connections
  BY DEF LegInit
<1>2. QuestTyped(NoQuest)
  BY DEF QuestTyped, NoQuest, TextSteps, VectorSteps
<1>3. QuestsTyped
  BY <1>1, <1>2 DEF QuestsTyped
<1>4. \A u \in Seekers, leg \in {"text", "vector"} : HeldBy(u, leg) = 0
  BY <1>1, HeldRight DEF NoQuest
<1>5. Lent = {}
  BY <1>4 DEF Lent
<1>6. FallingBack = {}
  BY <1>1 DEF FallingBack, NoQuest
<1> QED
  BY <1>1, <1>3, <1>5, <1>6, FS_EmptySet, ConnectionsAssumption DEF PoolInv, ConnectionsReturn

\* When nobody goes on with an empty pool, each connection is with a fallback of
\* its own.
LEMMA PoolGoesOn == PoolInv => OnlyFallbacksStarve
<1> SUFFICES ASSUME PoolInv, idle = 0,
                    \A u \in Seekers : quest[u].text # "query" /\ quest[u].vector \notin {"set", "query", "replaying"}
             PROVE  Cardinality(FallingBack) >= Connections
  BY DEF OnlyFallbacksStarve, FallbacksGoOn, GoesOn
<1> DEFINE f == [l \in Lent |-> l[1]]
<1>1. \A l \in Lent : l[2] = "vector" /\ l[3] = 1 /\ l[1] \in FallingBack /\ l = <<l[1], "vector", 1>>
  <2> SUFFICES ASSUME NEW l \in Lent
               PROVE  l[2] = "vector" /\ l[3] = 1 /\ l[1] \in FallingBack /\ l = <<l[1], "vector", 1>>
    OBVIOUS
  <2>1. /\ l = <<l[1], l[2], l[3]>> /\ l[1] \in Seekers /\ l[2] \in {"text", "vector"} /\ l[3] \in {1, 2}
        /\ l[3] <= HeldBy(l[1], l[2])
    BY DEF Lent
  <2>2. QuestTyped(quest[l[1]])
    BY <2>1 DEF PoolInv, QuestsTyped
  <2>3. HeldBy(l[1], "text") = 0
    BY <2>1, <2>2, HeldRight DEF QuestTyped, TextSteps, Over
  <2>4. HeldBy(l[1], "vector") = IF quest[l[1]].vector = "replay" THEN 1 ELSE 0
    BY <2>1, <2>2, HeldRight DEF QuestTyped, VectorSteps, Over
  <2> QED
    BY <2>1, <2>3, <2>4 DEF FallingBack
<1>2. f \in Injection(Lent, FallingBack)
  BY <1>1 DEF Injection, IsInjective
<1>3. Cardinality(Lent) <= Cardinality(FallingBack)
  BY <1>2, FS_Injection DEF PoolInv
<1>4. Cardinality(Lent) \in Nat /\ Cardinality(FallingBack) \in Nat
  BY FS_CardinalityType DEF PoolInv
<1> QED
  BY <1>3, <1>4, ConnectionsAssumption DEF PoolInv, ConnectionsReturn

\* Whichever leg of which search fails when, each connection is in the pool or with
\* a leg that returns it (postgres/index.go, search and queryANN), and nothing else
\* exhausts the pool for good than as many failed SET LOCALs at a time as it has
\* connections, each waiting for a second one to replay its query on.
THEOREM PoolKept == LegSpec => [](ConnectionsReturn /\ OnlyFallbacksStarve)
<1>1. LegInit => PoolInv
  BY PoolStarts
<1>2. PoolInv /\ [LegNext]_legVars => PoolInv'
  <2> SUFFICES ASSUME PoolInv, [LegNext]_legVars
               PROVE  PoolInv'
    OBVIOUS
  <2>1. CASE UNCHANGED legVars
    BY <2>1 DEF legVars, PoolInv, QuestsTyped, QuestTyped, ConnectionsReturn, Lent, HeldBy, FallingBack
  <2>2. ASSUME NEW u \in Seekers, NEW engine, NEW wish, Ask(u, engine, wish)
        PROVE  PoolInv'
    BY <2>2, AskPool
  <2>3. ASSUME NEW u \in Seekers, BleveSearch(u) \/ VecSearch(u) \/ LegFails(u) \/ Fuse(u) \/ GiveError(u)
        PROVE  PoolInv'
    BY <2>3, EndPool
  <2>4. ASSUME NEW u \in Seekers,
               \/ FtsAcquire(u) \/ FtsQuery(u) \/ Embed(u) \/ Begin(u) \/ SetHeap(u) \/ SetHeapFails(u)
               \/ VecQuery(u) \/ ReplayAcquire(u) \/ Replay(u)
               \/ PgFails(u, "text") \/ PgFails(u, "vector")
        PROVE  PoolInv'
    BY <2>4, LegPool
  <2> QED
    BY <2>1, <2>2, <2>3, <2>4 DEF LegNext
<1>3. PoolInv => ConnectionsReturn /\ OnlyFallbacksStarve
  BY PoolGoesOn DEF PoolInv
<1> QED
  BY <1>1, <1>2, <1>3, PTL DEF LegSpec
=============================================================================
