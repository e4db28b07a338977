------------------------------ MODULE Snapshots ------------------------------
(***************************************************************************)
(* Codex.Backup and Codex.Restore (amoxtli.go, backup/compose.go): an archive *)
(* of three parts, the index (of whose legs only the vector one has a         *)
(* snapshot, index/pipeline/snapshot.go), the documents                       *)
(* (ingest/gorm/snapshot.go) and the blobs (blob/snapshot.go), written while  *)
(* documents are indexed and deleted, and read back part after part into the  *)
(* same workspace or a new one. A document is its row: indexing its source    *)
(* again gives it a new id, and the entries of a leg carry the id they were   *)
(* made from.                                                                *)
(***************************************************************************)
EXTENDS Naturals, Sequences, SequencesExt, FiniteSets

CONSTANTS
    Files,          \* sources
    Pictures,       \* blobs, by their hash
    PicturesOf,     \* per source, the blobs its content references
    Collected,      \* sources at first in the store
    DocPage,        \* the page of ingest/gorm/snapshot.go
    DocBatch,       \* the batch of ingest/gorm/snapshot.go
    MaxWritesHere,  \* bound on the documents indexed and deleted
    MaxArchives,    \* bound on the backups
    MaxRestores,    \* bound on the restorations
    MaxStops        \* bound on the backups and restorations that fail

ASSUME SnapshotAssumption ==
    /\ Pictures \subseteq Nat \ {0} /\ PicturesOf \in [Files -> SUBSET Pictures] /\ Collected \in Seq(Files)
    /\ DocPage \in Nat \ {0} /\ DocBatch \in Nat \ {0}
    /\ MaxWritesHere \in Nat /\ MaxArchives \in Nat /\ MaxRestores \in Nat /\ MaxStops \in Nat

VARIABLES
    table,      \* the rows of the store, in the order of their insertion
    vecLeg,     \* per source, the id its vector entries were made from; 0 if none
    pictures,   \* the blobs stored
    nextId,
    saving,     \* the document that is saved and not yet indexed, or 0
    writer,     \* the backup under way
    chest,      \* the archive last written
    reader,     \* the restoration under way
    writesHere, archives, restores, stops

snapVars == <<table, vecLeg, pictures, nextId, saving, writer, chest, reader, writesHere, archives, restores, stops>>
-----------------------------------------------------------------------------
NoLeg == [s \in Files |-> 0]
NoChest == [index |-> NoLeg, docs |-> <<>>, blobs |-> {}, parts |-> <<>>, sealed |-> FALSE, moved |-> "nothing"]
NoWriter == [at |-> "end", page |-> 0, queue |-> <<>>, last |-> 0, there |-> {}]
NoReader == [at |-> "end", left |-> <<>>, ok |-> FALSE, before |-> <<>>]

Row(id, s) == [id |-> id, source |-> s]
Sourced(rows, s) == SelectSeq(rows, LAMBDA r : r.source = s)
Others(rows, s) == SelectSeq(rows, LAMBDA r : r.source # s)
Least(S) == CHOOSE x \in S : \A y \in S : x <= y
IdOf(rows, s) == IF Sourced(rows, s) = <<>> THEN 0 ELSE Head(Sourced(rows, s)).id

\* Some of the entries of a leg.
PartsOf(leg) == {[s \in Files |-> IF s \in S THEN leg[s] ELSE 0] : S \in SUBSET Files}

Reading == reader.at # "end"
Archiving == writer.at # "end"

Bounds == UNCHANGED <<writesHere, archives, restores, stops>>
WorkspaceKept == UNCHANGED <<table, vecLeg, pictures, nextId, saving>>

\* What moved under the backup that is being written: nothing, new documents, or more.
Moves(how) == chest' = IF Archiving THEN [chest EXCEPT !.moved = IF @ = "more" THEN @ ELSE how] ELSE chest
-----------------------------------------------------------------------------
\* A workspace with documents indexed before.
Furnish ==
    /\ nextId = 0
    /\ nextId' = Len(Collected)
    /\ table' = [n \in DOMAIN Collected |-> Row(n, Collected[n])]
    /\ vecLeg' = [s \in Files |-> IdOf(table', s)]
    /\ pictures' = UNION {PicturesOf[s] : s \in ToSet(Collected)}
    /\ UNCHANGED <<saving, writer, chest, reader>> /\ Bounds

\* IndexFile: the images, then the document in place of the one of its source,
\* then the entries of the legs.
SaveFile(s) ==
    /\ nextId > 0 /\ writesHere < MaxWritesHere /\ saving = 0 /\ ~Reading
    /\ writesHere' = writesHere + 1 /\ nextId' = nextId + 1
    /\ pictures' = pictures \union PicturesOf[s]
    /\ table' = Append(Others(table, s), Row(nextId', s))
    /\ saving' = nextId'
    /\ Moves(IF Sourced(table, s) = <<>> THEN "added" ELSE "more")
    /\ UNCHANGED <<vecLeg, writer, reader, archives, restores, stops>>

IndexSaved ==
    /\ saving # 0
    /\ LET s == (CHOOSE r \in ToSet(table) : r.id = saving).source
       IN  vecLeg' = [vecLeg EXCEPT ![s] = saving]
    /\ saving' = 0
    /\ Moves("added")
    /\ UNCHANGED <<table, pictures, nextId, writer, reader>> /\ Bounds

\* A document is deleted, and CleanupIndex deletes the blobs no document references.
RemoveFile(s) ==
    /\ nextId > 0 /\ writesHere < MaxWritesHere /\ saving = 0 /\ ~Reading /\ Sourced(table, s) # <<>>
    /\ writesHere' = writesHere + 1
    /\ table' = Others(table, s)
    /\ vecLeg' = [vecLeg EXCEPT ![s] = 0]
    /\ pictures' = UNION {PicturesOf[r.source] : r \in ToSet(table')}
    /\ Moves("more")
    /\ UNCHANGED <<nextId, saving, writer, reader, archives, restores, stops>>
-----------------------------------------------------------------------------
\* Backup: the parts in their order.
BackUp ==
    /\ nextId > 0 /\ archives < MaxArchives /\ ~Archiving /\ ~Reading
    /\ archives' = archives + 1
    /\ chest' = [NoChest EXCEPT !.moved = IF saving = 0 THEN "nothing" ELSE "more"]
    /\ writer' = [NoWriter EXCEPT !.at = "index", !.there = ToSet(table)]
    /\ WorkspaceKept /\ UNCHANGED <<reader, writesHere, restores, stops>>

\* The vector leg in one read transaction; the full-text leg has no snapshot.
WriteIndex ==
    /\ writer.at = "index"
    /\ chest' = [chest EXCEPT !.index = vecLeg, !.parts = Append(@, "index")]
    /\ writer' = [writer EXCEPT !.at = "docs"]
    /\ WorkspaceKept /\ UNCHANGED reader /\ Bounds

\* Mutation of WriteDocs: a page that is not full ends the part.
WriteDocsShort ==
    /\ writer.at = "docs" /\ writer.queue = <<>>
    /\ LET first == writer.page * DocPage + 1
           last == IF first + DocPage - 1 < Len(table) THEN first + DocPage - 1 ELSE Len(table)
           rows == SubSeq(table, first, last)
       IN  IF Len(rows) < DocPage
           THEN /\ writer' = [writer EXCEPT !.at = "blobs"]
                /\ chest' = [chest EXCEPT !.parts = Append(@, "docs")]
           ELSE /\ writer' = [writer EXCEPT !.page = @ + 1, !.queue = [n \in DOMAIN rows |-> rows[n].id]]
                /\ UNCHANGED chest
    /\ WorkspaceKept /\ UNCHANGED reader /\ Bounds

\* The ids of the next page, by offset; an empty page ends the part.
WriteDocs ==
    /\ writer.at = "docs" /\ writer.queue = <<>>
    /\ LET first == writer.page * DocPage + 1
           last == IF first + DocPage - 1 < Len(table) THEN first + DocPage - 1 ELSE Len(table)
           rows == SubSeq(table, first, last)
       IN  IF rows = <<>>
           THEN /\ writer' = [writer EXCEPT !.at = "blobs"]
                /\ chest' = [chest EXCEPT !.parts = Append(@, "docs")]
           ELSE /\ writer' = [writer EXCEPT !.page = @ + 1, !.queue = [n \in DOMAIN rows |-> rows[n].id]]
                /\ UNCHANGED chest
    /\ WorkspaceKept /\ UNCHANGED reader /\ Bounds

\* Each document is read again; one that is gone ends the backup with an error.
WriteDoc ==
    /\ writer.at = "docs" /\ writer.queue # <<>>
    /\ LET found == SelectSeq(table, LAMBDA r : r.id = Head(writer.queue))
       IN  IF found = <<>> THEN writer' = [writer EXCEPT !.at = "end"] /\ UNCHANGED chest
           ELSE /\ chest' = [chest EXCEPT !.docs = Append(@, Head(found))]
                /\ writer' = [writer EXCEPT !.queue = Tail(@)]
    /\ WorkspaceKept /\ UNCHANGED reader /\ Bounds

\* Mutation of WriteBlob: the blobs are listed from the last one.
WriteBlobFromLast ==
    /\ writer.at = "blobs"
    /\ LET left == {h \in pictures : h > writer.last}
       IN  IF left = {}
           THEN /\ writer' = [writer EXCEPT !.at = "end"]
                /\ chest' = [chest EXCEPT !.parts = Append(@, "blobs"), !.sealed = TRUE]
           ELSE LET h == CHOOSE x \in left : \A y \in left : y <= x
                IN  writer' = [writer EXCEPT !.last = h] /\ chest' = [chest EXCEPT !.blobs = @ \union {h}]
    /\ WorkspaceKept /\ UNCHANGED reader /\ Bounds

\* The blobs in the order of their hashes; the closing boundary.
WriteBlob ==
    /\ writer.at = "blobs"
    /\ LET left == {h \in pictures : h > writer.last}
       IN  IF left = {}
           THEN /\ writer' = [writer EXCEPT !.at = "end"]
                /\ chest' = [chest EXCEPT !.parts = Append(@, "blobs"), !.sealed = TRUE]
           ELSE LET h == Least(left)
                IN  writer' = [writer EXCEPT !.last = h] /\ chest' = [chest EXCEPT !.blobs = @ \union {h}]
    /\ WorkspaceKept /\ UNCHANGED reader /\ Bounds

\* A part fails: the reader of the archive gets the error, after what was written.
BackUpFails ==
    /\ Archiving /\ stops < MaxStops
    /\ stops' = stops + 1
    /\ writer' = [writer EXCEPT !.at = "end"]
    /\ IF writer.at = "index"
       THEN \E leg \in PartsOf(vecLeg) : chest' = [chest EXCEPT !.index = leg]
       ELSE UNCHANGED chest
    /\ WorkspaceKept /\ UNCHANGED <<reader, writesHere, archives, restores>>
-----------------------------------------------------------------------------
\* The workspace is lost, and a new one stands in its place.
Relocate ==
    /\ nextId > 0 /\ ~Archiving /\ ~Reading /\ saving = 0 /\ table # <<>>
    /\ table' = <<>> /\ vecLeg' = NoLeg /\ pictures' = {}
    /\ UNCHANGED <<nextId, saving, writer, chest, reader>> /\ Bounds

\* Restore: an archive that did not end has its complete parts, then part of one.
RestoreArchive ==
    /\ ~Archiving /\ ~Reading /\ saving = 0 /\ restores < MaxRestores /\ archives > 0
    /\ restores' = restores + 1
    /\ reader' = [NoReader EXCEPT !.at = "index", !.left = chest.docs, !.before = table]
    /\ WorkspaceKept /\ UNCHANGED <<writer, chest, writesHere, archives, stops>>

\* Mutation of RestoreIndex: the entries there are stay.
RestoreIndexOver ==
    /\ reader.at = "index"
    /\ vecLeg' = [s \in Files |-> IF chest.index[s] # 0 THEN chest.index[s] ELSE vecLeg[s]]
    /\ reader' = [reader EXCEPT !.at = IF chest.parts = <<>> THEN "end" ELSE "docs"]
    /\ UNCHANGED <<table, pictures, nextId, saving, writer, chest>> /\ Bounds

\* What the vector leg held is deleted, then the entries are inserted in batches: a
\* part that breaks off is an error that leaves the full batches before it, or the
\* leg as it was when not even the name of the model was read. The full-text leg,
\* which the archive has nothing of, stays as it is.
RestoreIndex ==
    /\ reader.at = "index"
    /\ vecLeg' \in IF chest.parts = <<>> THEN {chest.index, NoLeg, vecLeg} ELSE {chest.index}
    /\ reader' = [reader EXCEPT !.at = IF chest.parts = <<>> THEN "end" ELSE "docs"]
    /\ UNCHANGED <<table, pictures, nextId, saving, writer, chest>> /\ Bounds

\* Mutation of Saved: the document of the source stays.
SavedBeside(rows, batch) == FoldLeft(LAMBDA kept, r : IF r \in ToSet(kept) THEN kept ELSE Append(kept, r), rows, batch)

\* SaveDocuments of a batch, in one transaction: each document in the place of
\* the one of its source.
Saved(rows, batch) == FoldLeft(LAMBDA kept, r : Append(Others(kept, r.source), r), rows, batch)

NextBatch == SubSeq(reader.left, 1, IF Len(reader.left) < DocBatch THEN Len(reader.left) ELSE DocBatch)

\* Mutation of RestoreDocs: what is left at the end of the part is not saved.
RestoreDocsFull ==
    /\ reader.at = "docs"
    /\ LET whole == "docs" \in ToSet(chest.parts)
       IN  IF reader.left = <<>> \/ Len(reader.left) < DocBatch
           THEN reader' = [reader EXCEPT !.at = IF whole THEN "blobs" ELSE "end"] /\ UNCHANGED table
           ELSE /\ table' = Saved(table, NextBatch)
                /\ reader' = [reader EXCEPT !.left = SubSeq(@, Len(NextBatch) + 1, Len(@))]
    /\ UNCHANGED <<vecLeg, pictures, nextId, saving, writer, chest>> /\ Bounds

\* A part that breaks off is an error, and its last batch is not saved unless full.
RestoreDocs ==
    /\ reader.at = "docs"
    /\ LET whole == "docs" \in ToSet(chest.parts)
       IN  IF reader.left = <<>> \/ (~whole /\ Len(reader.left) < DocBatch)
           THEN reader' = [reader EXCEPT !.at = IF whole THEN "blobs" ELSE "end"] /\ UNCHANGED table
           ELSE /\ table' = Saved(table, NextBatch)
                /\ reader' = [reader EXCEPT !.left = SubSeq(@, Len(NextBatch) + 1, Len(@))]
    /\ UNCHANGED <<vecLeg, pictures, nextId, saving, writer, chest>> /\ Bounds

\* Mutation of RestoreBlob: the end of the input is the end of the archive.
RestoreBlobToEnd ==
    /\ reader.at = "blobs"
    /\ \/ /\ chest.blobs \ pictures # {} /\ pictures' = pictures \union {Least(chest.blobs \ pictures)}
          /\ UNCHANGED reader
       \/ /\ chest.blobs \subseteq pictures /\ UNCHANGED pictures
          /\ reader' = [reader EXCEPT !.at = "end", !.ok = TRUE]
    /\ UNCHANGED <<table, vecLeg, nextId, saving, writer, chest>> /\ Bounds

\* Put leaves a blob that is there; the end of the archive is an error unless it
\* was written to its end.
RestoreBlob ==
    /\ reader.at = "blobs"
    /\ \/ /\ chest.blobs \ pictures # {} /\ pictures' = pictures \union {Least(chest.blobs \ pictures)}
          /\ UNCHANGED reader
       \/ /\ chest.blobs \subseteq pictures /\ UNCHANGED pictures
          /\ reader' = [reader EXCEPT !.at = "end", !.ok = chest.sealed]
    /\ UNCHANGED <<table, vecLeg, nextId, saving, writer, chest>> /\ Bounds

\* A part fails to be restored: those before it stay, and of the entries some.
RestoreFails ==
    /\ Reading /\ stops < MaxStops
    /\ stops' = stops + 1
    /\ reader' = [reader EXCEPT !.at = "end"]
    /\ vecLeg' \in {vecLeg} \union (IF reader.at = "index" THEN PartsOf(chest.index) ELSE {})
    /\ UNCHANGED <<table, pictures, nextId, saving>> /\ UNCHANGED <<writer, chest, writesHere, archives, restores>>
-----------------------------------------------------------------------------
SnapInit ==
    /\ table = <<>> /\ vecLeg = NoLeg /\ pictures = {} /\ nextId = 0 /\ saving = 0
    /\ writer = NoWriter /\ chest = NoChest /\ reader = NoReader
    /\ writesHere = 0 /\ archives = 0 /\ restores = 0 /\ stops = 0

SnapNext ==
    \/ Furnish
    \/ \E s \in Files : SaveFile(s) \/ RemoveFile(s)
    \/ IndexSaved
    \/ BackUp \/ WriteIndex \/ WriteDocs \/ WriteDoc \/ WriteBlob \/ BackUpFails
    \/ Relocate
    \/ RestoreArchive \/ RestoreIndex \/ RestoreDocs \/ RestoreBlob \/ RestoreFails
-----------------------------------------------------------------------------
\* Every variable has its type: the one type invariant of this module.
SnapTypeOK ==
    /\ \A n, m \in DOMAIN table : n # m => table[n].source # table[m].source /\ table[n].id # table[m].id
    /\ vecLeg \in [Files -> 0..nextId]
    /\ pictures \subseteq Pictures /\ saving \in 0..nextId
    /\ writer.at \in {"end", "index", "docs", "blobs"} /\ reader.at \in {"end", "index", "docs", "blobs"}
    /\ chest.sealed => chest.parts = <<"index", "docs", "blobs">>

\* An archive that was written without an error holds every document that was
\* in the store when the backup began, once, when at most new documents were
\* indexed next to it (the pages of the store are read by offset: one that is
\* indexed again moves the pages under the reader).
SealedIsWhole ==
    [][chest'.sealed /\ ~chest.sealed /\ chest.moved # "more" =>
          writer.there \subseteq ToSet(chest'.docs) /\ IsInjective(chest'.docs)]_snapVars

\* The documents of an archive that are still in the store have their images in
\* it (amoxtli.go:675, "the two travel together"): the blobs are read after the
\* documents, and stored before them.
ArchiveResolves ==
    [][chest'.sealed /\ ~chest.sealed =>
          \A r \in ToSet(chest'.docs) \intersect ToSet(table) : PicturesOf[r.source] \subseteq chest'.blobs]_snapVars

\* A restoration that ended without an error put back every document, entry and
\* image of the archive, whatever restoration failed before it, and took no
\* other document out of the store. (An archive has a source twice when it was
\* indexed again next to the backup: the later row is put back.)
RestoredAsArchived ==
    [][~reader.ok /\ reader'.ok =>
          /\ \A r \in ToSet(chest.docs) : Last(Sourced(chest.docs, r.source)) \in ToSet(table')
          /\ vecLeg' = chest.index /\ chest.blobs \subseteq pictures'
          /\ {r \in ToSet(reader.before) : Sourced(chest.docs, r.source) = <<>>} \subseteq ToSet(table')]_snapVars

\* After a quiet backup is restored, every entry of the vector leg is that of a
\* document of the store: a search returns nothing that cannot be read.
EntriesResolve ==
    [][~reader.ok /\ reader'.ok /\ chest.moved = "nothing" =>
          \A s \in Files : vecLeg'[s] # 0 => vecLeg'[s] = IdOf(table', s)]_snapVars

\* A part of an archive is never taken for the whole: what a backup whose part
\* failed left behind is not restored without an error (the end of the input
\* inside a part is not the end of the archive, backup/compose.go:79-86).
OnlySealedRestores == [][reader'.ok /\ ~reader.ok => chest.sealed /\ chest.parts = <<"index", "docs", "blobs">>]_snapVars

\* What backup and restoration promise (backup/compose.go): a sealed archive is
\* whole and shows only images it holds, and only a sealed one is restored, to
\* what it holds.
ArchivesKeepFaith ==
    /\ []SnapTypeOK
    /\ SealedIsWhole
    /\ ArchiveResolves
    /\ RestoredAsArchived
    /\ EntriesResolve
    /\ OnlySealedRestores
=============================================================================
