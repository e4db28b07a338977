-------------------------------- MODULE Ingest --------------------------------
(***************************************************************************)
(* Ingestion: the tasks IndexFile, CleanupIndex and Reindex (package       *)
(* ingest), run by a task runner, and the calls DeleteBySource,            *)
(* SetDocumentCollections and DeleteCollection, on the document store      *)
(* (ingest/gorm), the pipeline of indexes and the blob store.  None of the three stores knows of the      *)
(* others: that they agree is the work of the handlers below, step by      *)
(* step, while other handlers run.                                         *)
(*                                                                         *)
(* The runner is what TaskLifecycle says of it, and no more.  A document   *)
(* is identified by its task and its position among the documents saved:   *)
(* a source indexed again is a new document with new sections, and a       *)
(* transaction of the store is one step.                                   *)
(***************************************************************************)
EXTENDS Integers, FiniteSets

CONSTANTS
    Tasks,
    KindOf,         \* [Tasks -> {"index", "cleanup", "reindex"}]
    Target,         \* [Tasks -> Sources]: what an IndexFile task indexes
    Images,         \* [Tasks -> SUBSET Hashes]: the images of its file
    Hashes,         \* blobs, by the hash of their content
    Sources,
    Workers,        \* the workers of the runner, all of one process
    Legs, Vector,   \* the pipeline, see IndexPipeline
    PageSize,       \* documents read by one query of Reindex
    OrphanBatch,    \* orphaned documents deleted at a time
    Deletable,      \* the sources DeleteBySource may be called for (bound)
    Movable,        \* the sources SetDocumentCollections may (bound): one call for each source
    MaxSaves,       \* documents saved (bound)
    Faults, MaxFaults,
    None

Documents == Tasks \X (1 .. MaxSaves)
Callers   == Workers \union Sources

SourceOf(d) == Target[d[1]]
BlobsOf(d)  == Images[d[1]]

ASSUME IngestAssumption ==
    /\ KindOf \in [Tasks -> {"index", "cleanup", "reindex"}]
    /\ Target \in [Tasks -> Sources]
    /\ Images \in [Tasks -> SUBSET Hashes]
    /\ Vector \subseteq Legs
    /\ Deletable \subseteq Sources
    /\ Movable \subseteq Sources
    /\ Workers \intersect Sources = {}
    /\ PageSize \in Nat \ {0}
    /\ OrphanBatch \in Nat \ {0}
    /\ MaxSaves \in Nat
    /\ MaxFaults \in Nat
    /\ None \notin Tasks \union Sources

VARIABLES
    status, executors,  \* the tasks, see TaskLifecycle
    legs, call, faults, \* the pipeline, see IndexPipeline
    staged,     \* the tasks whose file is in the staging directory
    docs,       \* the documents in the store
    orphans,    \* those of them in no collection
    saves,      \* documents saved so far
    blobs,      \* the blobs stored
    job,        \* [Workers -> Job]: the handler each worker is in
    canceled,   \* the workers whose context is done
    request,    \* [Sources -> step of the DeleteBySource or SetDocumentCollections call]
    moved       \* [Sources -> SUBSET Documents]: what SetDocumentCollections was called for

runnerVars == <<status, executors>>
storeVars  == <<docs, orphans, saves>>
vars == <<status, executors, legs, call, faults, staged, docs, orphans, saves, blobs,
          job, canceled, request, moved>>

Runner == INSTANCE TaskLifecycle
INSTANCE IndexPipeline

IndexStep   == {"open", "parse", "save", "index", "unindex", "unsave", "remove"}
ReindexStep == {"count", "page", "next", "each"}
CleanupStep == {"orphans", "drop", "list", "check", "sweep", "refs", "blobs", "collect"}

Job == [task   : Tasks \union {None},
        step   : {"idle", "report"} \union IndexStep \union ReindexStep \union CleanupStep,
        result : {"ok", "error", "missing"},
        phase  : {"erase", "index"},    \* of Reindex
        page   : Nat,
        more   : BOOLEAN,               \* the page was full, the last query found orphans
        found  : Nat,                   \* orphans listed, with repetitions
        todo   : SUBSET Documents,      \* documents, or the sections of documents, to treat
        hashes : SUBSET Hashes]

Idle == [task |-> None, step |-> "idle", result |-> "ok", phase |-> "erase", page |-> 0,
         more |-> FALSE, found |-> 0, todo |-> {}, hashes |-> {}]

At(w, step) == job[w].step = step
Go(w, step) == job' = [job EXCEPT ![w].step = step]
Fails(w, result, step) == job' = [job EXCEPT ![w] = [@ EXCEPT !.result = result, !.step = step]]

\* A query fails: its context is done, or the database is at fault.
Breaks(w, kind) == IF w \in canceled THEN UNCHANGED faults ELSE Fault(kind)

\* The document store: documents, their collections and their references to
\* blobs, each change in one transaction.
Stored(s)  == {d \in docs : SourceOf(d) = s}
Missing(D) == D \ docs
Referenced == UNION {BlobsOf(d) : d \in docs}

SaveDocument(d) ==
    /\ docs' = (docs \ Stored(SourceOf(d))) \union {d}
    /\ orphans' = orphans \ Stored(SourceOf(d))
    /\ saves' = saves + 1

DeleteDocuments(D) ==
    /\ docs' = docs \ D
    /\ orphans' = orphans \ D
    /\ UNCHANGED saves

DeleteBySource(s) == DeleteDocuments(Stored(s))

\* IndexFile copies the file to the staging directory, then schedules the
\* task; the file stays there when the task is refused.
Submit(t) ==
    /\ \E s \in {"pending", "failed"} : Runner!Submit(t, s)
    /\ staged' = IF KindOf[t] = "index" THEN staged \union {t} ELSE staged
    /\ UNCHANGED <<legs, call, faults, storeVars, blobs, job, canceled, request, moved>>

\* A worker takes a task and calls the handler of its type.
Begin(w, t) ==
    /\ At(w, "idle")
    /\ Runner!Take(t, w)
    /\ job' = [job EXCEPT ![w] =
          [Idle EXCEPT !.task = t,
                       !.step = CASE KindOf[t] = "index"   -> "open"
                                  [] KindOf[t] = "reindex" -> "count"
                                  [] KindOf[t] = "cleanup" -> "orphans"]]
    /\ UNCHANGED <<legs, call, faults, staged, storeVars, blobs, canceled, request, moved>>

\* The context of a handler is done: the task was canceled, or took too long.
ContextDone(w) ==
    /\ ~At(w, "idle")
    /\ w \notin canceled
    /\ canceled' = canceled \union {w}
    /\ \/ status[job[w].task] # "running" /\ UNCHANGED faults
       \/ KindOf[job[w].task] = "index" /\ Fault("timeout")
    /\ UNCHANGED <<runnerVars, legs, call, staged, storeVars, blobs, job, request, moved>>

(***************************************************************************)
(* IndexFile: a workflow of four steps.  The context is checked before     *)
(* each step, and when it is done the workflow returns without undoing the *)
(* steps before.  A step that fails is undone, with the ones before it.    *)
(* The staged file is removed whatever happened.                           *)
(***************************************************************************)
WorkflowStops(w) ==
    /\ job[w].step \in {"open", "parse", "save", "index"}
    /\ call[w].op = "none"
    /\ w \in canceled
    /\ Fails(w, "error", "remove")
    /\ UNCHANGED <<runnerVars, legs, call, faults, staged, storeVars, blobs, canceled, request, moved>>

OpenStaged(w) ==
    /\ At(w, "open") /\ w \notin canceled
    /\ IF job[w].task \in staged THEN Go(w, "parse") ELSE Fails(w, "missing", "remove")
    /\ UNCHANGED <<runnerVars, legs, call, faults, staged, storeVars, blobs, canceled, request, moved>>

\* Images are stored while the document is converted, before it is saved.
Parse(w) ==
    /\ At(w, "parse") /\ w \notin canceled
    /\ blobs' = blobs \union Images[job[w].task]
    /\ \/ Go(w, "save") /\ UNCHANGED faults
       \/ Fails(w, "error", "remove") /\ Fault("parse")
    /\ UNCHANGED <<runnerVars, legs, call, staged, storeVars, canceled, request, moved>>

\* The document of the source is replaced.
Save(w) ==
    /\ At(w, "save") /\ w \notin canceled
    /\ saves < MaxSaves
    /\ LET d == <<job[w].task, saves + 1>>
       IN  /\ SaveDocument(d)
           /\ job' = [job EXCEPT ![w] = [@ EXCEPT !.step = "index", !.todo = {d}]]
    /\ UNCHANGED <<runnerVars, legs, call, faults, staged, blobs, canceled, request, moved>>

SaveFails(w) ==
    /\ At(w, "save")
    /\ Fails(w, "error", "unsave")
    /\ Breaks(w, "save")
    /\ UNCHANGED <<runnerVars, legs, call, staged, storeVars, blobs, canceled, request, moved>>

IndexStarts(w) ==
    /\ At(w, "index") /\ w \notin canceled
    /\ call[w].op = "none"
    /\ \E d \in job[w].todo : CallIndex(w, d)
    /\ UNCHANGED <<runnerVars, legs, faults, staged, storeVars, blobs, job, canceled, request, moved>>

\* Mutation of IndexReturns: the step that failed is not undone itself.
IndexReturnsUncompensated(w) ==
    /\ At(w, "index") /\ Returned(w)
    /\ IF Succeeds(w) THEN Go(w, "remove") ELSE Fails(w, "error", "unsave")
    /\ EndCall(w)
    /\ UNCHANGED <<runnerVars, legs, faults, staged, storeVars, blobs, canceled, request, moved>>

IndexReturns(w) ==
    /\ At(w, "index") /\ Returned(w)
    /\ IF Succeeds(w) THEN Go(w, "remove") /\ EndCall(w)
                      ELSE Fails(w, "error", "unindex") /\ CallErase(w, Target[job[w].task])
    /\ UNCHANGED <<runnerVars, legs, faults, staged, storeVars, blobs, canceled, request, moved>>

\* The compensations, last step first; one that fails does not stop the others.
Unindexed(w) ==
    /\ At(w, "unindex") /\ Returned(w)
    /\ Go(w, "unsave") /\ EndCall(w)
    /\ UNCHANGED <<runnerVars, legs, faults, staged, storeVars, blobs, canceled, request, moved>>

Unsave(w) ==
    /\ At(w, "unsave")
    /\ Go(w, "remove")
    /\ \/ DeleteBySource(Target[job[w].task]) /\ UNCHANGED faults
       \/ Fault("save") /\ UNCHANGED storeVars
    /\ UNCHANGED <<runnerVars, legs, call, staged, blobs, canceled, request, moved>>

RemoveStaged(w) ==
    /\ At(w, "remove")
    /\ staged' = staged \ {job[w].task}
    /\ Go(w, "report")
    /\ UNCHANGED <<runnerVars, legs, call, faults, storeVars, blobs, canceled, request, moved>>

(***************************************************************************)
(* Reindex: erase the entries of every document, then index every          *)
(* document, page by page.  The failure of a document is logged.           *)
(***************************************************************************)
\* The documents of a page, in the order they were saved.
Page(n) ==
    LET rank(d) == Cardinality({e \in docs : e[2] < d[2]})
    IN  {d \in docs : n * PageSize <= rank(d) /\ rank(d) < (n + 1) * PageSize}

ReindexStops(w) ==
    /\ \/ job[w].step \in {"count", "page", "next"} /\ w \in canceled /\ UNCHANGED faults
       \/ job[w].step \in {"count", "page"} /\ Fault("query")
    /\ Fails(w, "error", "report")
    /\ UNCHANGED <<runnerVars, legs, call, staged, storeVars, blobs, canceled, request, moved>>

ReindexCounts(w) ==
    /\ At(w, "count") /\ w \notin canceled
    /\ Go(w, IF docs = {} THEN "report" ELSE "page")
    /\ UNCHANGED <<runnerVars, legs, call, faults, staged, storeVars, blobs, canceled, request, moved>>

\* The step after the last page of a phase.
PhaseOver(w) ==
    job' = [job EXCEPT ![w] =
              IF job[w].phase = "index"
              THEN [@ EXCEPT !.step = "report"]
              ELSE [@ EXCEPT !.step = "page", !.phase = "index", !.page = 0]]

ReindexQueries(w) ==
    /\ At(w, "page") /\ w \notin canceled
    /\ LET batch == Page(job[w].page)
       IN  IF batch = {}
           THEN PhaseOver(w)
           ELSE job' = [job EXCEPT ![w] = [@ EXCEPT !.step = "next", !.todo = batch,
                                                    !.more = Cardinality(batch) = PageSize]]
    /\ UNCHANGED <<runnerVars, legs, call, faults, staged, storeVars, blobs, canceled, request, moved>>

\* The next document of the page, as it was read.
ReindexNext(w) ==
    /\ At(w, "next") /\ w \notin canceled
    /\ \E d \in job[w].todo :
          /\ IF job[w].phase = "erase" THEN CallErase(w, SourceOf(d)) ELSE CallIndex(w, d)
          /\ job' = [job EXCEPT ![w] = [@ EXCEPT !.step = "each", !.todo = job[w].todo \ {d}]]
    /\ UNCHANGED <<runnerVars, legs, faults, staged, storeVars, blobs, canceled, request, moved>>

ReindexReturns(w) ==
    /\ At(w, "each") /\ Returned(w)
    /\ EndCall(w)
    /\ CASE job[w].todo # {} -> Go(w, "next")
         [] job[w].todo = {} /\ job[w].more ->
              job' = [job EXCEPT ![w] = [@ EXCEPT !.step = "page", !.page = job[w].page + 1]]
         [] OTHER -> PhaseOver(w)
    /\ UNCHANGED <<runnerVars, legs, faults, staged, storeVars, blobs, canceled, request, moved>>

(***************************************************************************)
(* CleanupIndex: delete the documents of no collection, then the sections  *)
(* the indexes hold of documents that are gone, then the blobs that no     *)
(* document references.  What was read is acted upon later.                *)
(***************************************************************************)
CleanupFails(w) ==
    /\ job[w].step \in {"orphans", "list", "refs", "blobs", "collect"}
    /\ Fails(w, "error", "report")
    /\ Breaks(w, "query")
    /\ UNCHANGED <<runnerVars, legs, call, staged, storeVars, blobs, canceled, request, moved>>

\* Mutation of CleanupListsOrphans: the query has lost its condition.
CleanupListsAll(w) ==
    /\ At(w, "orphans")
    /\ job' = [job EXCEPT ![w] = [@ EXCEPT !.todo = docs, !.more = FALSE,
                                           !.step = IF docs = {} THEN "list" ELSE "drop"]]
    /\ UNCHANGED <<runnerVars, legs, call, faults, staged, storeVars, blobs, canceled, request, moved>>

\* Orphans are listed, again and again, until there are enough for a batch or
\* there are none left.
CleanupListsOrphans(w) ==
    /\ At(w, "orphans")
    /\ \E found \in SUBSET orphans :
          /\ Cardinality(found) = IF Cardinality(orphans) < OrphanBatch
                                  THEN Cardinality(orphans) ELSE OrphanBatch
          /\ LET n == job[w].found + Cardinality(found)
                 enough == n >= OrphanBatch
                 over == found = {}
             IN  job' = [job EXCEPT ![w] =
                   [@ EXCEPT !.found = n, !.todo = job[w].todo \union found, !.more = ~over,
                             !.step = IF enough \/ (over /\ n > 0) THEN "drop"
                                      ELSE IF over THEN "list" ELSE "orphans"]]
    /\ UNCHANGED <<runnerVars, legs, call, faults, staged, storeVars, blobs, canceled, request, moved>>

\* Mutation of CleanupDropsOrphans: DeleteDocumentByID matches no row.
CleanupDropsNothing(w) ==
    /\ At(w, "drop")
    /\ job' = [job EXCEPT ![w] = [@ EXCEPT !.step = IF job[w].more THEN "orphans" ELSE "list",
                                           !.todo = {}, !.found = 0]]
    /\ UNCHANGED <<runnerVars, legs, call, faults, staged, storeVars, blobs, canceled, request, moved>>

\* DeleteDocumentByID; its failure is logged.
CleanupDropsOrphans(w) ==
    /\ At(w, "drop")
    /\ job' = [job EXCEPT ![w] = [@ EXCEPT !.step = IF job[w].more THEN "orphans" ELSE "list",
                                           !.todo = {}, !.found = 0]]
    /\ \/ DeleteDocuments(job[w].todo) /\ UNCHANGED faults
       \/ Fault("save") /\ UNCHANGED storeVars
    /\ UNCHANGED <<runnerVars, legs, call, staged, blobs, canceled, request, moved>>

\* Mutation of CleanupListsSections: only the vector legs are walked.
CleanupListsVector(w) ==
    /\ At(w, "list")
    /\ job' = [job EXCEPT ![w] = [@ EXCEPT !.step = "check", !.todo = UNION {legs[l] : l \in Vector}]]
    /\ UNCHANGED <<runnerVars, legs, call, faults, staged, storeVars, blobs, canceled, request, moved>>

CleanupListsSections(w) ==
    /\ At(w, "list")
    /\ job' = [job EXCEPT ![w] = [@ EXCEPT !.step = "check", !.todo = UNION {legs[l] : l \in Legs}]]
    /\ UNCHANGED <<runnerVars, legs, call, faults, staged, storeVars, blobs, canceled, request, moved>>

\* Mutation of CleanupChecksSections: the sections that exist are kept for deletion.
CleanupChecksInverted(w) ==
    /\ At(w, "check")
    /\ job' = [job EXCEPT ![w] = [@ EXCEPT !.step = "sweep", !.todo = job[w].todo \intersect docs]]
    /\ UNCHANGED <<runnerVars, legs, call, faults, staged, storeVars, blobs, canceled, request, moved>>

\* SectionsExist; when the query fails the sections are left alone.
CleanupChecksSections(w) ==
    /\ At(w, "check")
    /\ \/ job' = [job EXCEPT ![w] = [@ EXCEPT !.step = "sweep", !.todo = Missing(job[w].todo)]]
          /\ UNCHANGED faults
       \/ job' = [job EXCEPT ![w] = [@ EXCEPT !.step = "sweep", !.todo = {}]]
          /\ Breaks(w, "query")
    /\ UNCHANGED <<runnerVars, legs, call, staged, storeVars, blobs, canceled, request, moved>>

CleanupSweeps(w) ==
    /\ At(w, "sweep") /\ call[w].op = "none"
    /\ IF job[w].todo = {} THEN Go(w, "refs") /\ UNCHANGED call
                           ELSE CallSweep(w, job[w].todo) /\ UNCHANGED job
    /\ UNCHANGED <<runnerVars, legs, faults, staged, storeVars, blobs, canceled, request, moved>>

CleanupSwept(w) ==
    /\ At(w, "sweep") /\ Returned(w)
    /\ Go(w, "refs") /\ EndCall(w)
    /\ UNCHANGED <<runnerVars, legs, faults, staged, storeVars, blobs, canceled, request, moved>>

\* referencedBlobs reads the live set, blobs.List what is not in it, and
\* blobs.Delete deletes that.
CleanupReadsReferences(w) ==
    /\ At(w, "refs") /\ w \notin canceled
    /\ job' = [job EXCEPT ![w] = [@ EXCEPT !.step = "blobs", !.hashes = Referenced]]
    /\ UNCHANGED <<runnerVars, legs, call, faults, staged, storeVars, blobs, canceled, request, moved>>

\* Mutation of CleanupListsBlobs: the live set is not taken out.
CleanupListsEveryBlob(w) ==
    /\ At(w, "blobs")
    /\ job' = [job EXCEPT ![w] = [@ EXCEPT !.step = "collect", !.hashes = blobs]]
    /\ UNCHANGED <<runnerVars, legs, call, faults, staged, storeVars, blobs, canceled, request, moved>>

CleanupListsBlobs(w) ==
    /\ At(w, "blobs")
    /\ job' = [job EXCEPT ![w] = [@ EXCEPT !.step = "collect", !.hashes = blobs \ job[w].hashes]]
    /\ UNCHANGED <<runnerVars, legs, call, faults, staged, storeVars, blobs, canceled, request, moved>>

CleanupCollects(w) ==
    /\ At(w, "collect")
    /\ blobs' = blobs \ job[w].hashes
    /\ Go(w, "report")
    /\ UNCHANGED <<runnerVars, legs, call, faults, staged, storeVars, canceled, request, moved>>

(***************************************************************************)
(* The end of a handler, and what happens around it.                       *)
(***************************************************************************)
\* The worker writes the outcome.  The write is without effect when the task
\* was canceled, and may be lost: the task then stays running, by nobody.
Report(w) ==
    /\ At(w, "report")
    /\ \/ /\ Runner!End(job[w].task, w, IF job[w].result = "ok" THEN "succeeded" ELSE "failed")
          /\ UNCHANGED faults
       \/ status[job[w].task] # "running" /\ Runner!Leave({w}) /\ UNCHANGED faults
       \/ Fault("report") /\ Runner!Leave({w})
    /\ job' = [job EXCEPT ![w] = Idle]
    /\ canceled' = canceled \ {w}
    /\ UNCHANGED <<legs, call, staged, storeVars, blobs, request, moved>>

\* A task left running by nobody is pending again.
Resume(t) ==
    /\ Runner!Requeue({t})
    /\ UNCHANGED <<legs, call, faults, staged, storeVars, blobs, job, canceled, request, moved>>

Cancel(t) ==
    /\ Fault("cancel")
    /\ Runner!Abort(t)
    /\ UNCHANGED <<legs, call, staged, storeVars, blobs, job, canceled, request, moved>>

InProgress == {"erase", "delete", "read", "clear", "reindex"}

\* The process stops; what it wrote stays.
Crash ==
    /\ Fault("crash")
    /\ Runner!Leave(Workers)
    /\ job' = [w \in Workers |-> Idle]
    /\ call' = [c \in Callers |-> NoCall]
    /\ canceled' = {}
    /\ request' = [s \in Sources |-> IF request[s] \in InProgress THEN "failed" ELSE request[s]]
    /\ UNCHANGED <<legs, staged, storeVars, blobs, moved>>

\* DeleteBySource: the indexes, then the store.
DeletionStarts(s) ==
    /\ s \in Deletable /\ request[s] = "none"
    /\ CallErase(s, s)
    /\ request' = [request EXCEPT ![s] = "erase"]
    /\ UNCHANGED <<runnerVars, legs, faults, staged, storeVars, blobs, job, canceled, moved>>

DeletionErased(s) ==
    /\ request[s] = "erase" /\ Returned(s)
    /\ request' = [request EXCEPT ![s] = IF Succeeds(s) THEN "delete" ELSE "failed"]
    /\ EndCall(s)
    /\ UNCHANGED <<runnerVars, legs, faults, staged, storeVars, blobs, job, canceled, moved>>

DeletionEnds(s) ==
    /\ request[s] = "delete"
    /\ request' = [request EXCEPT ![s] = "done"]
    /\ DeleteBySource(s)
    /\ UNCHANGED <<runnerVars, legs, call, faults, staged, blobs, job, canceled, moved>>

\* SetDocumentCollections: the store gives the document other collections, or
\* none, then its entries are erased and written again from what is read back.
MoveStarts(s) ==
    /\ s \in Movable /\ request[s] = "none"
    /\ \E d \in Stored(s) :
          /\ moved' = [moved EXCEPT ![s] = {d}]
          /\ orphans' \in {orphans \union {d}, orphans \ {d}}
    /\ request' = [request EXCEPT ![s] = "read"]
    /\ UNCHANGED <<runnerVars, legs, call, faults, staged, docs, saves, blobs, job, canceled>>

\* The document may be gone since.
MoveReads(s) ==
    /\ request[s] = "read"
    /\ \/ /\ moved[s] \subseteq docs
          /\ CallErase(s, s)
          /\ request' = [request EXCEPT ![s] = "clear"]
          /\ UNCHANGED faults
       \/ /\ request' = [request EXCEPT ![s] = "failed"]
          /\ IF moved[s] \subseteq docs THEN Fault("query") ELSE UNCHANGED faults
          /\ UNCHANGED call
    /\ UNCHANGED <<runnerVars, legs, staged, storeVars, blobs, job, canceled, moved>>

MoveErased(s) ==
    /\ request[s] = "clear" /\ Returned(s)
    /\ IF Succeeds(s)
       THEN (\E d \in moved[s] : CallIndex(s, d)) /\ request' = [request EXCEPT ![s] = "reindex"]
       ELSE EndCall(s) /\ request' = [request EXCEPT ![s] = "failed"]
    /\ UNCHANGED <<runnerVars, legs, faults, staged, storeVars, blobs, job, canceled, moved>>

MoveIndexed(s) ==
    /\ request[s] = "reindex" /\ Returned(s)
    /\ request' = [request EXCEPT ![s] = IF Succeeds(s) THEN "done" ELSE "failed"]
    /\ EndCall(s)
    /\ UNCHANGED <<runnerVars, legs, faults, staged, storeVars, blobs, job, canceled, moved>>

\* DeleteCollection, of a collection that tasks do not index into any more:
\* the documents in no other one are orphans.
DeleteCollection ==
    /\ Fault("collection")
    /\ \E D \in SUBSET docs : orphans' = orphans \union D
    /\ UNCHANGED <<runnerVars, legs, call, staged, docs, saves, blobs, job, canceled, request, moved>>

PipelineStep(c) ==
    /\ \E l \in Legs : LegErases(c, l) \/ LegWrites(c, l) \/ LegFails(c, l)
                      \/ LegStops(c, l, c \in canceled)
    /\ UNCHANGED <<runnerVars, staged, storeVars, blobs, job, canceled, request, moved>>

Init ==
    /\ Runner!Init
    /\ PipelineInit
    /\ staged = {} /\ docs = {} /\ orphans = {} /\ saves = 0 /\ blobs = {}
    /\ job = [w \in Workers |-> Idle]
    /\ canceled = {}
    /\ request = [s \in Sources |-> "none"]
    /\ moved = [s \in Sources |-> {}]

IndexFileStep(w) ==
    \/ WorkflowStops(w) \/ OpenStaged(w) \/ Parse(w) \/ Save(w) \/ SaveFails(w)
    \/ IndexStarts(w) \/ IndexReturns(w) \/ Unindexed(w) \/ Unsave(w) \/ RemoveStaged(w)

ReindexTaskStep(w) ==
    \/ ReindexStops(w) \/ ReindexCounts(w) \/ ReindexQueries(w) \/ ReindexNext(w)
    \/ ReindexReturns(w)

CleanupTaskStep(w) ==
    \/ CleanupFails(w) \/ CleanupListsOrphans(w) \/ CleanupDropsOrphans(w)
    \/ CleanupListsSections(w) \/ CleanupChecksSections(w) \/ CleanupSweeps(w)
    \/ CleanupSwept(w) \/ CleanupReadsReferences(w) \/ CleanupListsBlobs(w)
    \/ CleanupCollects(w)

HandlerStep(w) ==
    IndexFileStep(w) \/ ReindexTaskStep(w) \/ CleanupTaskStep(w) \/ Report(w)

DeletionStep(s) == DeletionErased(s) \/ DeletionEnds(s)
MoveStep(s)     == MoveReads(s) \/ MoveErased(s) \/ MoveIndexed(s)

Next ==
    \/ \E t \in Tasks : Submit(t) \/ Resume(t) \/ Cancel(t)
    \/ \E w \in Workers : HandlerStep(w) \/ ContextDone(w) \/ \E t \in Tasks : Begin(w, t)
    \/ \E s \in Sources : DeletionStarts(s) \/ DeletionStep(s) \/ MoveStarts(s) \/ MoveStep(s)
    \/ \E c \in Callers : PipelineStep(c)
    \/ DeleteCollection
    \/ Crash

Spec == Init /\ [][Next]_vars

\* The goroutines of a handler and of the pipeline go on; the runner resumes
\* what nobody runs, and has a worker for every task that waits.
Fairness ==
    /\ \A w \in Workers : WF_vars(HandlerStep(w)) /\ WF_vars(\E t \in Tasks : Begin(w, t))
    /\ \A c \in Callers : WF_vars(PipelineStep(c))
    /\ \A s \in Sources : WF_vars(DeletionStep(s) \/ MoveStep(s))
    /\ \A t \in Tasks : WF_vars(Resume(t))

FairSpec == Spec /\ Fairness

(***************************************************************************)
(* Properties                                                              *)
(***************************************************************************)
\* The state of every component has its type, and one document is stored per
\* source.
TypeOK ==
    /\ status \in [Tasks -> {"absent", "pending", "running", "succeeded", "failed"}]
    /\ executors \in [Tasks -> SUBSET Workers]
    /\ legs \in [Legs -> SUBSET Documents]
    /\ call \in [Callers -> Call]
    /\ faults \in 0 .. MaxFaults
    /\ staged \subseteq Tasks
    /\ docs \subseteq Documents
    /\ \A d, e \in docs : SourceOf(d) = SourceOf(e) => d = e
    /\ orphans \subseteq docs
    /\ saves \in 0 .. MaxSaves
    /\ blobs \subseteq Hashes
    /\ job \in [Workers -> Job]
    /\ canceled \subseteq Workers
    /\ request \in [Sources -> {"none", "done", "failed"} \union InProgress]
    /\ moved \in [Sources -> SUBSET Documents]

Searchable(d) == \A l \in Legs : d \in legs[l]

Quiet ==
    /\ \A t \in Tasks : executors[t] = {} /\ status[t] # "running"
    /\ \A c \in Callers : call[c].op = "none"
    /\ \A s \in Sources : request[s] \notin InProgress

\* SetDocumentCollections erases and indexes by source and by what it read, so
\* a task of the same source beside it may leave it with other entries.
Untouched(D) == {d \in D : moved[SourceOf(d)] = {}}

\* When no handler runs, every leg holds exactly the documents stored: what
\* IndexFile, its compensations (a leg, a conversion or a query may fail),
\* CleanupIndex and, without faults, Reindex leave, one after the other.
SettledAgree ==
    Quiet /\ (faults = 0 \/ \A t \in Tasks : KindOf[t] = "reindex" => status[t] = "absent")
    => \A l \in Legs : Untouched(legs[l]) = Untouched(docs)

\* An IndexFile task whose source nothing else concerns.
Sole(t) ==
    /\ KindOf[t] = "index"
    /\ Target[t] \notin Deletable \union Movable
    /\ \A u \in Tasks \ {t} : KindOf[u] = "index" => Target[u] # Target[t]

\* A document whose IndexFile task succeeded is stored and in every leg, if
\* nothing else concerns its source: cleanups, other documents, crashes and
\* resumed runs do not take it away.
SucceededIsSearchable ==
    \A t \in Tasks : Sole(t) /\ status[t] = "succeeded"
                     => \E d \in docs : d[1] = t /\ Searchable(d)

\* cleanupObsoleteSections removes a section long after it found it missing
\* from the store; the document is still missing then.
SweepsOnlyGone ==
    [][\A w \in Workers, l \in Legs :
          call[w].op = "sweep" /\ call'[w].leg[l] # call[w].leg[l]
          => (legs[l] \ legs'[l]) \intersect docs = {}]_vars

Moved == UNION {moved[s] : s \in Sources}

\* "CleanupIndex schedules a cleanup of orphaned documents" (amoxtli.go:623): a
\* document it drops is in no collection, though the list was made earlier. The
\* code does not keep this when one is moved in between.
DropsOnlyOrphans ==
    [][\A w \in Workers : job[w].step = "drop" /\ job'[w].step # "drop"
                          => docs \ docs' \subseteq orphans]_vars

\* Cleanup drops no document that was in a collection when it was listed; it is
\* in none when it is dropped, unless SetDocumentCollections was called for it.
DropsOrphansOrMoved ==
    [][\A w \in Workers : job[w].step = "drop" /\ job'[w].step # "drop"
                          => docs \ docs' \subseteq orphans \union Moved]_vars

\* Past its second part a cleanup beside which no other handler ran has removed
\* from the indexes whatever is not stored, orphaned documents included. Only a
\* SetDocumentCollections may write back the document it has read.
CleanupSettles ==
    \A w \in Workers : job[w].step \in {"refs", "blobs", "collect"} /\ w \notin canceled
                       => \A l \in Legs : legs[l] \subseteq docs \union Moved

\* Every image a stored document shows is in the blob store.
ImagesResolve == \A d \in docs : BlobsOf(d) \subseteq blobs

\* A task that waits ends, whichever step of it fails and if its outcome is lost:
\* no loop of a handler goes on for ever.
TasksEnd == \A t \in Tasks : status[t] = "pending" ~> status[t] \in {"succeeded", "failed"}

\* What a cleanup may rely on and leaves: one document for each source, indexes
\* without orphans, and every image a stored document shows.
CleanupIsRight ==
    /\ TypeOK
    /\ CleanupSettles
    /\ ImagesResolve
=============================================================================
