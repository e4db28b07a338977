# Amoxtli: specification, model checking and proofs

This directory keeps TLA+ models of amoxtli, a Go library (and a command line) that
indexes documents for hybrid, full-text and vector, search. They cover the parts of the
program that are hard to test: tasks shared by workers, runners and processes; the stores
(documents, legs of the index, blobs) that no transaction spans; a search from its filter to
its streamed answer; and the files a workspace is made of.

    tlc -workers 2 -config RunnerExclusive.cfg MCPersistentRunner.tla
    tlc -workers 2 -config Stores.cfg MCStores.tla
    tlapm PersistentRunnerProofs.tla
    tlapm IngestProofs.tla

`PROJECT.json` lists the runs, the source lines every definition models, the
hazards, the mutants of each property and the theorems.

## 1. Inventory

| Component | State | Operations | What makes it correct |
|---|---|---|---|
| Task contract `task` | status of a task | `Runner` interface | a task is executed by one worker at a time and ends once |
| Persistent runner `task/gorm` | table `amoxtli_tasks`; per process: `local`, `cancelFuncs` | `ScheduleTask`, claim loop, `executeTask`, heartbeat, `CancelTask`, reclaim, cleanup, shutdown | exclusive execution, final outcomes, no task lost, no leak |
| In-memory runner `task/memory` | `tasks`, `cancelFuncs`, channel | the same, over a bounded channel | accepted tasks end, refused ones never run, `Run` returns |
| Ingestion manager `ingest/manager.go` | staging directories | `IndexFile`, `IndexFileSync`, the sweep, `Close` | a staged file exists until its task is over, and no longer |
| Search pages `ingest/manager.go`, `amoxtli.go` | none; the cursor is the reader's | `Search`, `SearchPage`, `CheckGrounding` | pages partition a steady ranking, and repeat nothing beside edits |
| `IndexFile` handler, `internal/workflow` | steps done so far | open, parse, save, index; compensations | a failure leaves store and indexes in agreement |
| `CleanupIndex` handler | lists read so far | orphans, obsolete sections, orphaned blobs | deletes only what is garbage, and all of it |
| `Reindex` handler | page, phase | erase all, index all | every stored document is in the index after |
| Document store `ingest/gorm` | documents, sections, collections, blob references | save, delete, query; one transaction each | one document per source |
| Index pipeline `index/pipeline` | none of its own | `Index`, `DeleteBySource`, `DeleteByID`, `Search` over all legs | the legs agree; fusion keeps what they agree on |
| Legs `index/bleve`, `index/sqlitevec`, `index/postgres` | sections by document; connections | erase by source, write, delete by id, search | whole documents, full answers, connections given back |
| Filters `index/filter.go`, `index/filterexpr`, `internal/filternorm` | none | parse, normalise, match, translate | every evaluator agrees on a filter |
| Catalogue `catalog.go`, `facets.go` | none of its own | edits of store then legs; listings page by page | no entry leads nowhere; nothing is counted twice |
| Blob stores `blob/fs`, `blob/gorm` | files or rows by hash | `Put`, `Get`, `Stat`, `Delete`, `List` | one contract, through crashes |
| Facade `amoxtli.go`, `options.go`, `profile.go` | the wiring | `New`, `Close`, `Backup`, `Restore` | what was asked for is what runs |
| LLM wrappers `llmx` | cache files, flights | cached embeddings and completions, retry, rate limit | one request per batch, results in order, billed once |
| Backup `backup`, snapshots | none | composite archive, restoration | an archive is whole and self-contained, or refused |
| Retrieval `retrieval` | budget, evidence, verdict | decompose, search, evaluate, reformulate; rerank; answer | ends within its budget, loses nothing, cites what it was shown |
| Images and converters `markdown/imagetext`, `vision`, `convert` | description cache | resolve, describe, insert | best-effort: the source survives |
| Commands `internal/cli` (sync, add, lock) | lock file | lock, walk, schedule, wait, delete | one process; the index is the tree |
| Parsing `markdown`, `sourcecode`, `model` | none | text to sections | sequential |
| `internal/cli` (configuration, output, MCP), `eval`, `telemetry`, `crypto`, `example` | none that is shared | wiring and output | sequential |

How they interact: `amoxtli.go` builds one runner, one manager, one pipeline and
one store. `IndexFile` copies the file to the staging directory and schedules a
task; a worker of a runner calls the handler registered for the type. The handlers
call the converter, the blob store, the document store and the pipeline, in this
order, and each of these commits by itself. `DeleteBySource`, `DeleteCollection` and the edits of the
catalogue act on store and index directly, beside the handlers. A search goes through
the pipeline to every leg at once, comes back through fusion and transformers to the manager,
which cuts pages, and to retrieval, which may search again. Several processes may share
the database: their persistent runners meet only in the rows of the task table; command
lines of one workspace meet in its lock file.

Hard behaviours: conditional updates instead of locks (claim, heartbeat, finish);
leases that run out under a live worker; rows that become claimable before the
memory that goes with them is written; check-then-delete sweeps beside writers;
compensation of a workflow interrupted at any step; legs of one index that fail
one by one; savepoints of several goroutines on one connection; a connection kept while
waiting for another; closing a channel others send on; flights led by a caller that gives up;
cursors and offsets over data that changes; two files per blob and a crash between them; a lock
file that is created, filled, judged and removed in separate calls. `PROJECT.json` lists each of
them as a hazard, at its line.

## 2. Modules

### Tasks and ingestion

`TaskLifecycle` is the abstract specification of a runner: `status` and `executors`
of each task. `Take` requires that nobody executes the task, `Requeue` that nobody
does any more, `End` that one does; nothing leaves `succeeded` or `failed` but
`Purge`. Both runners implement it (`LifecycleSpec`), and `Ingest` uses it as its runner, so what is
shown of the handlers holds on top of either of them.

`PersistentRunner` models `task/gorm/task_runner.go`. Every database access is one
step.

| Variable | Code |
|---|---|
| `row[t]` | the row of `Task`: `status`, `owner` (`LeaseOwner`), `error`, and `lease`, which is `LeaseUntil` minus the present time (-1: expired or null) |
| `local`, `cancelFn` | `r.local`, `r.cancelFuncs` |
| `call`, `home` | how far the `ScheduleTask` call of the task is, and on which runner |
| `cancel` | how far the `CancelTask` call is, and where |
| `pc`, `cur`, `cand`, `ctx`, `outcome` | a worker goroutine: its place in `work`/`claimNext`/`executeTask`, the claimed task, the candidates read, the task's context, what the handler returned |
| `age` | time since the worker last wrote its lease |
| `up`, `old`, `faults` | the process, the retention cutoff of the cleanup, the fault budget |

Actions: `ScheduleCount/Save/Reject/SaveFails/StoreLocal` (`ScheduleTask`);
`Poll`, `Claim`, `ClaimMisses`, `ClaimAnswerLost`, `ClaimFails`, `Rebuild`,
`RebuildFails` (`claimNext`); `Start`, `Return`, `Finish`, `FinishFails`, `Release`,
`Panic`, `Recover`, `RecoverFails` (`executeTask` and its deferred function);
`Heartbeat`; `CancelCheck/Mark/Fails/Local` (`CancelTask`); `Reclaim`, `Cleanup`
(`maintain`); `Shutdown`, `Exit`, `Crash`, `Restart`, `Tick`, `Ages` (process and
clock). The heartbeat goroutine and its worker interleave freely; that a live worker
reaches the database at least every `MaxGap` ticks is the only assumption on speed,
and it is a constant: `MaxGap <= LeaseDuration` is the intended case, `MaxGap >
LeaseDuration` the case of a stalled process or a skewed clock.

`MemoryRunner` models `task/memory/task_runner.go`. The task map, the channel and the
cancel functions have no common lock, so every access to one of them is a step;
`updateState` creates the entry it does not find, as in the code. The events of a handler
are drained by a goroutine of their own, so `Progress` may touch an entry after the handler panicked or
its task ended. `SendPanics` is the send on a closed channel. Both ready branches of the worker's
`select` are taken.

`IndexPipeline` models the writes of `index/pipeline/index.go` over its legs: a call runs on all
legs concurrently, each leg erases and then writes, vector legs hold a lock over both
and may stop early in the embeddings that come before. `Ingest` composes it with
`TaskLifecycle` and models the handlers (`ingest/index_file.go` with
`internal/workflow`, `cleanup.go`, `reindex.go`), the document store, the blobs, the
facade's deletions and `SetDocumentCollections`, which writes the store and then erases and writes the
legs (`MoveStarts`, `MoveReads`, `MoveErased`, `MoveIndexed`). `job[w]` is the handler a worker is in: the step, the result so
far, and what it has read and not yet acted upon (`todo`, `hashes`). A document is
identified by its task and the order of saving, so a re-indexed source is a new
document with new sections, as in `SaveDocuments`.

What `Ingest` abstracts: sections (a leg holds documents: the sections of a document
are written together), metadata, collections other than "is in none", the text of
files; the check and delete batches of the cleanup (500, 5000) are one batch, the
orphan batch and the page size are constants. A transaction of the store is one step.
Documents come in the order they were saved, though `QueryDocuments` has no `ORDER BY`.
`DeleteBySource` of bleve is a search followed by a batch, modelled as one write: ids
belong to one saved document, so a difference needs two runs on the same saved
document. `IndexFileSync` is the `IndexFile` handler in another goroutine and is not a
caller of its own. The sqlite calls look at their context only when they retry, so a
canceled call stops in the embeddings, or not at all.

### Services (`MCServices`)

| Module | Code | State and steps |
|---|---|---|
| `LlmCache` | `llmx/cache.go` | `files` by input, `flights` by batch, `place` of each caller. Look up, lead or join, ask, write file by file, answer, wait, copy; contexts end at any step; files are torn or foreign |
| `RetryLoop` | `llmx/client.go` | attempts and pauses of one call: limiter, `Retry-After`, doubled backoff with a ceiling, a context that ends while waiting |
| `ImageText` (over `RetryLoop`) | `markdown/imagetext`, `vision`, `convert` | a source is a sequence of tokens; some of its images lie beside the original. Convert, inline or resolve, describe concurrently within limits, insert by offset from the end |
| `Staging` | `ingest/manager.go`, `amoxtli.go` | directories with their age and owner, copies, what each upload's task is doing, the life of each instance. Sweep, copy, schedule, start, end, drain, close, crash |
| `Assembly` | `amoxtli.go`, `options.go`, `profile.go` | options given one by one, then `New`: clients, observers, transformers, evaluators, rerankers, runner and staging, or a refusal |

### A search (`MCSearch`)

| Module | Code | State and steps |
|---|---|---|
| `Filters` | `index/filter.go`, `internal/filternorm`, both `filter.go` of the SQL legs | a document's metadata in the store and its two copies, written one after the other; each condition with its Go meaning and its three-valued SQL meaning |
| `FilterExpr` | `index/filterexpr` | an expression grows by a character; its reading and its printing |
| `PipelineSearch` | `index/pipeline` | what each leg is, the variant of the query it waits for, computed once; the legs' returns, failures, panics; `Fuse`, the duplicate and the judge transformers |
| `SearchPaging` | `ingest/manager.go`, `amoxtli.go` | a reader's cursor and what it has been shown; fetch, judge, rerank, cut, ground; documents and tags change between any two steps |
| `Selecting` (used by the two around it) | `FilterRelevant` and its like | what there is of a set in a list, in the order of the list |
| `Retrieval` | `retrieval/orchestrator.go` and its stages | sub-queries searched a few at a time, fused, evaluated, reformulated; each stage answers, fails or is left out |
| `Reranking` | `retrieval/lexical_rerank.go`, `rerank.go` | one pool, its features and scores as operators, the two-pointer scan beside its definition, rankings a model may return |
| `Answering` | `retrieval/answer.go`, `answer.go` | numbering under three budgets; producer and reader of an unbuffered channel; citations |

### What is kept (`MCStores`)

| Module | Code | State and steps |
|---|---|---|
| `VecStore` | `index/sqlitevec` | `file` (what is committed), `view` and the `savepoints` of the writing connection, its lock, the pool's readers, the records of a backup. Writers, searchers and the keeper interleave statement by statement |
| `LegSearch` | `index/sqlitevec`, `index/bleve`, `index/postgres` | passages; KNN legs with their partitions, oversampling and folding; a pool of connections two legs of a search share, with transactions, fallbacks and failures |
| `BlobContract`, `BlobStores` | `blob/store.go`, `blob/fs`, `blob/gorm` | the contract; files, sidecars and temporaries, one file operation a step, crashes and failed writes |
| `Catalog` | `catalog.go`, `facets.go`, `ingest/gorm` | documents by id, entries of the legs by source; edits in two steps, listings a page a step |
| `Snapshots` | `backup`, the snapshot files | store, entries and blobs; the archive part by part; writers beside it; restorations that fail between parts |
| `WorkspaceLock` | `internal/cli/runtime/lock.go` | the path, who signed, and each process in the loop of `acquireLock` and after it: one that released the lock lives until it ends; kills |
| `TreeSync` | `internal/cli/sync.go`, `add.go`, `wait.go`, `source.go` | files with bodies and stamps, digests read, files walked, tasks of this command and of a killed one, deletions |

The three MC modules are sums: `part` names the component that runs, and the others do not
move. The components of one sum share no state, so each part is checked exactly as it would
be alone, under one configuration for the family. `MCPersistentRunner`, `MCMemoryRunner`
and `MCIngest` instantiate one module each.

Each of these modules states its properties one by one, and a conjunction of them
(`CacheKeepsFaith`, `SearchKeepsFaith`, `BlobsKeepFaith`, ...) is what the run checks. Definitions
named after a bug (`ClaimUnguarded`, `HeartbeatDeaf`, `PgFailsLeaking`, ...) stand
before the one they would replace. They are no part of `Next`: with one of them in place
of the original, the run named beside it in `PROJECT.json` finds its property violated. There
are several for each conjunction, so that each of its parts is seen to matter.

### Proofs

`PersistentRunnerProofs`, `MemoryRunnerProofs`, `IngestProofs` and `BlobStoresProofs` extend
the module they are named after; `VecStoreProofs` also extends `LegSearch`. `ServicesProofs` extends `Staging`, `LlmCache` and `Assembly`; `SearchProofs`,
`Answering`, `Retrieval` and `SearchPaging`; `WorkspaceProofs`, `WorkspaceLock` and `TreeSync`. Section 5 says what they prove.

## 3. Runs

| Run | Instance | Distinct states | Shows |
|---|---|---|---|
| `RunnerExclusive` | 2 tasks, 2 runners of 1 worker, queue of 1 that refuses, lease 1, `MaxGap` 1, 1 fault, factories on one runner only | 181,000 | exclusive execution, the proofs' invariant, refinement of `TaskLifecycle` |
| `RunnerLate` | 1 task, 2 runners, `MaxGap` 2 > lease 1, a cancellation, 1 fault; handlers that never return allowed | 82,000 | late workers do no harm but double execution |
| `RunnerLive` | 1 task, 2 runners, lease 0, a cancellation, cleanup, 2 faults | 174,000 | no task lost, no memory leaked |
| `MemoryPool` | 2 tasks, 2 workers, channel of 1 that refuses or blocks, stop, one cancellable, cleanup | 56,000 | refused never run, accepted end, `Run` returns and quietly, no handler runs that `CancelTask` could not reach, refinement |
| `IngestSerial` | 3 index tasks on 2 sources, cleanup, reindex, 1 worker, 2 legs, pages of 1, 1 fault (leg, parse, query, collection, report) | 225,000 | store and legs agree when nothing runs; every task ends |
| `IngestCleanup` | 2 index tasks on 2 sources, cleanup, reindex, 1 worker, 2 legs, 2 faults (save, crash, timeout, collection, cancel, report), an image in common, a `SetDocumentCollections` | 2,630,000 | the cleanup removes all garbage, and only garbage or what was moved meanwhile |
| `IngestSweep` | 2 index tasks on 2 sources, cleanup, 2 workers, 2 legs, a `DeleteBySource`, 1 fault (crash, report, leg, cancel) | 2,105,000 | the sweep never removes a stored document's sections; a succeeded task is searchable |
| `Services` | cache: 2 callers, 2 texts, a prompt, 2 inputs, 2 spoiled files or failed requests; images: 3 files with up to 4 occurrences of 3 images, 2 at a time, 1 retry; staging: 2 instances, 2 uploads, a crash, an hour; assembly: 5 options of 19, 4 profiles | 413,000 | each of the four components keeps its properties and ends |
| `Search` | filters of one or two conditions over 12 values, 2 writes; expressions of 5 characters; 3 legs, 4 kinds of request; 4 documents, pages of 1 or 2, widest window 3, an edit; 6 settings of retrieval, budget of 3; 3 pools under 5 queries; 3 streams | 173,000 | each of the seven steps of a search, and that each ends |
| `Stores` | vectors: 2 documents of 2 chunks, 2 writers, a searcher, a keeper, 3 uses; legs: 5 engines, 2 searches, 2 connections; blobs: 2 goroutines, 2 hashes, 3 calls, a crash or failure; catalogue: 3 documents in 2 collections, 2 edits; snapshots: 4 files, pages and batches of 2, an archive, 2 restorations; lock: 3 processes; sync: 3 files, 3 syncs, a kill | 1,978,000 | each of the seven components keeps its properties |
| `BackupOverlaps` | `VecStore` alone, the keeper overlapping the writers | violation | see below |
| `LockRaces` | `WorkspaceLock` alone, 2 processes | violation | see below |

The bounds are small on purpose and chosen so that each hazard occurs. Two workers, runners,
callers or goroutines suffice for every race on one row, source, batch, hash or savepoint. Two tasks make
candidate lists and a full queue. Pages of one and batches of one or two make every page boundary occur
with two or three documents. A lease of one tick separates "renewed", "last tick" and "expired"; `MaxGap`
on either side of it gives the timely and the late worker. `MaxFaults` and its kin (`MaxSpoils`, `MaxBroken`,
`MaxBreaks`, `MaxStops`, `MaxMishaps`, `MaxCrashes`, `MaxKills`) bound the faults in a behaviour: one lets it
strike anywhere, two let it strike the recovery from the first. `MaxUses`, `MaxCalls`, `MaxEdits`,
`MaxChanges`, `MaxSyncs` bound the calls, at the least number with which one can find what two others have
left, and `Movable`, of one source, gives one call of `SetDocumentCollections`. Three processes of the lock give one that crashed, one that holds and one that comes. Deadlock is
checked in the runs of `PersistentRunner`; in the others the work is finite and the system stops
when it is done (`CHECK_DEADLOCK FALSE`).

Some constants keep an instance to the case in which the code keeps its promise. What happens
otherwise is said in the next section:

| Constant | In the runs | Leaves out |
|---|---|---|
| `KeeperOverlaps` | `FALSE` (`TRUE` in `BackupOverlaps`) | a backup of the vector index beside its writers |
| `WritersOverlap` | `FALSE` | `Put` and `Delete` of one hash at once |
| `EditsOverlap` | `FALSE` | two edits of one document at once |
| `SameStamp` | `FALSE` | a file changed within a second to the same size |
| `Strangers` | `{}` | processes of another user, which cannot be signalled |
| `Movable` | `{}` in `IngestSerial`, `IngestSweep` | `SetDocumentCollections` beside indexing, `Reindex` or a sweep of another worker |

### Properties worth reading first

* `LifecycleSpec`: rows, leases, lost answers and processes look from outside like a task that one
  worker executes. `ExclusiveExecution` relates the program counters of all workers, and holds only because
  claim, heartbeat and reclaim agree on the lease. `OnlyHolderSucceeds` and `TerminalIsFinal` are what is
  left of it when a worker is late.
* `SettledAgree`: the compensations are complete. `SweepsOnlyGone`: the cleanup's check-then-delete is safe
  although it is not atomic, since sections get new ids each time and what was missing once never comes back.
  `DropsOrphansOrMoved` is what is left of "only orphans are dropped" beside `SetDocumentCollections`.
  `CleanupIsRight`: the cleanup leaves no garbage, and no document without its images, for one handler at a time.
* `CacheKeepsFaith`: whoever leads a flight and however it ends, a response is in the order of its
  inputs, one request a batch is in progress, and each token is reported once (`ReportedIsBilled`).
* `EnrichmentKeepsFaith`: `SourceSurvives` compares the result with the source: descriptions were
  inserted at offsets of a text that other insertions shift, each in the block of its image.
* `CopiesFollowTasks`: a staged copy is there until its task ends, through the sweep of other instances,
  and nothing stays behind a closed instance.
* `SearchKeepsFaith`: `FusionKeepsConsensus` says what all legs rank alike stays so, whatever weights and
  order of arrival; `VariantsStayApart` and `StagesPaidOnce`, that the legs share a query transformed once.
* `PagesKeepFaith`: `PagesPartition` relates all pages a reader was shown; `NothingTwice` holds also beside edits.
* `FiltersKeepFaith`: Go and both dialects of SQL select the same documents, with nulls, lists, dates
  and disjunctions, and equal fingerprints mean equal selections.
* `EvidenceKeepsFaith`: `EarlierQueriesLead` says concurrent sub-queries give the evidence of sequential ones;
  `VerdictIsCurrent`, that a verdict is about what is returned with it.
* `RerankKeepsFaith`: `WindowIsSmallest` compares the scan with the definition of a smallest window.
* `BlobsKeepFaith`: `KeepsContract` is the refinement of `BlobContract` by both stores, through crashes;
  `ListIsFaithful` is about a walk beside other calls.
* `VectorsKeepFaith`: `ReturnedIsCommitted` and `SearchSeesWhole` over nested savepoints.
* `LegsKeepFaith`: `LegFills` says a vector leg gives as many results as there are, under any filter and in any
  collections; over all of them, as many as the oversample reaches when a passage has a row for each of its
  collections (`Reach`). `ConnectionsReturn` and `OnlyFallbacksStarve` are about the pool.
* `WithinReach`: map, channel and cancel functions of the memory runner have no common lock, and yet a task that waits or
  is executed never loses what `CancelTask` needs to find it, however cleanup, late events and panics write beside.
* `ArchivesKeepFaith`: what is archived is whole and has its images, what is restored is what was archived,
  and a part is not taken for the whole.
* `SyncKeepsFaith`: what is skipped is current, a quiet sync makes the index the tree, and only what
  is gone is deleted.

### Where code and comments disagree

Two runs end in a counterexample to a sentence of the repository:

* `BackupOverlaps`: "rwLock allows concurrent Search operations while serializing Index/Delete"
  (`index/sqlitevec/index.go:37`). `GenerateSnapshot` and `RestoreSnapshot` use the writing connection
  without the lock. Savepoints of two goroutines nest, so a deletion that was answered while the backup's
  savepoint is open is not committed, and is rolled back with the backup.
* `LockRaces`: "Lock is an exclusive per-workspace lock file" (`internal/cli/runtime/lock.go:14`). A lock file
  that has no pid yet is taken for stale; and of two processes that judge one stale file, the slower
  removes the lock of the faster.

Four more definitions state a sentence the code does not keep. TLC ends in a counterexample when the one named is added to the
configuration named with it; a weaker property, which holds, is what that run checks instead:

* `DropsOnlyOrphans` (`IngestCleanup`; instead `DropsOrphansOrMoved`): "CleanupIndex schedules a cleanup of
  orphaned documents" (`amoxtli.go:623`). The identifiers are listed, and deleted later without another look: a document that `SetDocumentCollections` has put in a
  collection in between is deleted (`ingest/cleanup.go:319`, 301).
* `CanceledStaysCanceled` (`MemoryPool`; instead `WithinReach` and `RunsEnd`): "CancelTask cancels a
  scheduled or running task" (`task/runner.go:75`). `executeTask` of the memory runner does not look at what `CancelTask` wrote on a task in the channel, and marks it running and then
  succeeded if its handler does not look at its context (`task/memory/task_runner.go:192`).
* `FallbacksGoOn` (`Stores`; instead `OnlyFallbacksStarve`): "falls back to a plain query rather than failing
  the search" (`index/postgres/index.go:773-774`).
  The fallback of a vector leg keeps the connection of its failed transaction while it waits for another (793): as
  many of them as connections wait for each other until their contexts end.
* `OversampleAbsorbs` (`Stores`; instead `LegFills`): "oversampled to absorb the duplicate rows of multi-collection chunks"
  (`index/sqlitevec/index.go:801-802`). The factor is 4 (847), so that five passages in five collections each come back short; in
  the instance it is 2, and a passage is in four.

The models also have these. Each is at its hazard in `PROJECT.json`; the properties are stated for what holds:

* Tasks. A worker may claim a row before the scheduling process keeps its task in memory and fail it for
  want of a factory (`task/gorm/task_runner.go:43-45`, 160-164); concurrent callers exceed the bound of the
  queue; `cleanupExpired` drops tasks that still wait.
* Ingestion. A staged file is removed before the outcome is written, so a resumed run may fail after the
  document was indexed (`docs/architecture.md:436-438`); the live set of the blob collection is read before
  blobs are deleted (`ingest/cleanup.go:139-141`); two runs that index one source may leave the document stored
  last out of a leg; a document deleted between two pages of `Reindex` makes it skip another; a leg that
  fails under `Reindex` leaves the document in the others; a context that is done between save and index
  leaves the document stored and not indexed; a failed re-index removes the previous version; the loop over
  orphaned documents does not end if deleting keeps failing.
* Staging. An instance that was idle for the whole age with a task pending loses its copies to the sweep
  (`ingest/manager.go:917-921`); the directories of `IndexFileSync` are never swept.
* Cache. Waiters copy the leader's vectors after it may have altered them (`llmx/cache.go:349-355`).
* Images. Media that pandoc extracted are skipped by the resolution and never described
  (`markdown/imagetext/resolve.go:141-143` against `docs/images.md:84-89`).
* Assembly. `WithQueryTransformers` is given twice and the second assignment replaces the first: with
  translation, HyDE never runs (`amoxtli.go:114` and 124, `index/pipeline/options.go:129`).
* Pages. Where a wider window changes the order, results may be skipped though nothing changed
  (`docs/architecture.md:488`). A result whose document is deleted before its metadata is read has none, and a filter on the
  absence of a key selects it (`ingest/manager.go:515-517`, `index/filter.go`). `Fitting` says what a filter selects so.
* Filters. The evaluators disagree on NaN and on integers above 2^53. Exact matches of `sqlitevec` score +Inf.
* Answers. A reader that goes away without canceling leaves the goroutine of the stream blocked.
* Blobs. A `Put` beside the `Delete` of one hash may leave content without a sidecar, which no later `Put`
  mends; a crash leaves its temporary file for ever. `Get` reads the content before the sidecar: beside a
  `Delete` and a `Put` with another media type it answers content with a type the blob does not have yet
  (`blob/fs/store.go:113-122`).
* Catalogue. Two edits of one document may leave store and legs different until the next indexing.
* Snapshots. A document re-indexed beside a backup moves its pages; an archive cut between two parts
  restores without an error; Postgres' snapshot leaves out the metadata (`index/postgres/snapshot.go:22-100`).
* Lock. A process that has released the lock lives on until it ends, so one that read its pid before is refused
  though nobody holds the workspace (`internal/cli/runtime/lock.go:62`, 90-99).
* Sync. A change within one second to the same size keeps the ETag and is skipped for ever
  (`internal/cli/sync.go:45`).

## 4. Fairness

Fairness is weak, per goroutine, and only on what the scheduler or a timer guarantees:
calls in progress return, workers poll, the heartbeat and maintenance timers fire, a runner that went
down is started again (`Restart`; otherwise a task may wait for ever, and the code claims nothing
else), time passes. Faults, cancellations, shutdowns and schedules have none. That handlers
return is an assumption of its own (`HandlersReturn`): `RunnerLate` leaves it out
(`StubbornSpec`), since being told to stop must not depend on the handler.

`MemoryRunner` has weak fairness for each call to `ScheduleTask` (it sends, is refused or panics;
the disjunction, as a full channel does not let it choose), for each `CancelTask`, each worker's steps and
`Run`; and one strong fairness: a worker whose context is done and whose channel is not empty picks at
random between two ready branches of `select`, and does not pick the same one for ever. `Ingest` assumes
the runner resumes what nobody runs, which is `NoTaskLost`.

`MCServices` has weak fairness for each caller of the cache, each being a goroutine, and for the goroutines
of a document that is described or an instance that closes: neither waits for a caller outside.
`MCSearch` has one weak fairness on the disjunction of what goes on by itself in a search, its pages,
its retrieval or its stream. One disjunction serves several parts because a behaviour stays in one of them; within a part
it is the weaker assumption: some step is taken as long as one is enabled, none is promised its turn.
Editors, readers that turn a page, cancellations and failures have none. `Stores` checks safety and refinements only.

## 5. Proofs

Each theorem holds for every value of the constants its module's `ASSUME` admits (TLC evaluates these on every
run); a further hypothesis is in the statement. Each rests on an inductive invariant, proved action by action.

### Persistent runner

`PersistentRunnerProofs`, for any finite set of tasks, any runners, pools and durations, any number of faults:

* `TypeCorrect`: `Spec => []TypeOK`.
* `TerminalFinal`: `Spec => TerminalIsFinal`, without any assumption on lateness. Next to
  `TypeOK` it needs `FreshRows` only: `ScheduleTask` writes a row unconditionally, and would overwrite
  an ended one if the row could exist before its call saves it.
* `CancelReachesItsTask`: `Spec => []CancelFnCurrent`, and `HolderSucceeds`: `Spec => OnlyHolderSucceeds`, both
  however late a worker is. They need the types only: what a worker does to `cancelFn` and to the
  row is conditioned on its own state.
* `LeasesKept`: `MaxGap <= LeaseDuration => (Spec => []IInv)`.
* `Exclusive`: `MaxGap <= LeaseDuration => (Spec => []ExclusiveExecution)`.
* `RunnerImplementsLifecycle`: `MaxGap <= LeaseDuration => (Spec => LifecycleSpec)`: each step is a step of
  `TaskLifecycle` or a stutter. `Claim`, its lost answer and the start of the handler are `Take` and stutters;
  a worker that ends after its lease was taken would be a step the lifecycle does not have, which `IInv` rules out.

`ExclusiveExecution` is not inductive: a reclaimed row may be claimed while its first
worker still has it, unless that worker's lease is known to be running. The inductive invariant is

    IInv == TypeOK /\ FreshRows /\ LostOnceStarted /\ LeaseCovers /\ ExclusiveExecution

`LeaseCovers` says of each worker that has a task: the row is running under its runner's lease with
`lease + age >= LeaseDuration`, or the task has ended under it. The clock keeps the sum, a
heartbeat and a claim restore it, and `age <= MaxGap <= LeaseDuration` gives `lease >= 0`, so `Reclaim`
does not touch the row; hence a row that is pending has no executor, and `Claim` adds
the first one. `LostOnceStarted` rules out that a heartbeat gives up a task before it was started.

### In-memory runner

`MemoryRunnerProofs`, for any tasks, workers and capacity of the channel:

* `TypeCorrect`: `Spec => []TypeOK`, with `Held` (a worker has a task exactly from `Take` until it waits again).
* `Refused`: `Spec => []RefusedNeverRuns`. The inductive invariant adds `SentOnly`: the call of whatever is in
  the channel or in the hands of a worker is at "sent", which excludes a refused one. The lemmas
  `SentQueue` and `ReceivedQueue` say what a send and a receive do to the channel.
* `StaysWithinReach`: `Spec => []WithinReach`, for the tasks that wait in the channel or are executed. It rests on the
  invariant of `Refused`, on `Once` (a task is in one place of the channel or in one hand), and on `ReachInv`,
  which follows entry and cancel function from the call to `ScheduleTask` to the end of the handler.
* `Stopped`: `Spec => []StoppedIsQuiet`, from `AllGone`: `Run` returns when every worker has left, and a
  worker that left takes no further step.
* `RunnerImplementsLifecycle`: `Spec => LifecycleSpec`, for the tasks nobody cancels (those of
  which the lifecycle holds: section 3, "Where code and comments disagree"). The invariant is
  `KeptInv == RefusedInv /\ Once /\ CallPhase /\ QueuePhase /\ HandPhase`: a task is in one place of the channel or in
  one hand, and its entry has the status of that place, although the entry and the channel are
  written in separate steps. The run has a handler for both tasks; the theorem also covers tasks without one.

### Handlers, store and legs

`IngestProofs`, for any tasks, sources, workers, legs, images, batches and page sizes:

* `Typed`: `Spec => []TypeOK`.
* `SweptStaysGone`: `Spec => SweepsOnlyGone`, and `DroppedWasInNoCollection`: `Spec => DropsOrphansOrMoved`, with
  no further hypothesis. A saved identity is new (`SeenIsSaved`), so a document that was missing
  stays missing: `SweepInv` and `DropInv` say of what a worker has read that it still is gone, or still orphaned
  unless `SetDocumentCollections` was called for it.
* `IndexedStaysSearchable`: `OnlyIndexed => (Spec => []SucceededIsSearchable)`. `OnlyIndexed`: no collection is
  deleted and no task is a `Reindex`; documents of other sources may be moved (`NoOrphans`: only they become orphans). A cleanup deletes a document of no collection, and a `Reindex` erases
  from the legs first, so that with either a document may be gone or not yet back. `ExecInv` (one worker for
  a task, and none once it succeeded) and `Served` (a worker that got so far has put the document there) are the invariant.
* `CleanupKeepsItsWord`: `CleansAlone => (Spec => []CleanupIsRight)`. `CleansAlone`: one worker, no
  `DeleteBySource` or `SetDocumentCollections` beside it, and no query or leg fails under the cleanup. Beside another handler the live set
  read before the deletion of blobs is stale (section 3), and a sweep that fails leaves its orphans.
* `QuietIndexesAgree`: `AgreesAlone => (Spec => []SettledAgree)`. `AgreesAlone`: one worker, no `DeleteBySource` or
  `SetDocumentCollections`, at most one fault, and this one is no crash, cancellation, timeout or failed write of the store. A handler that is
  cut short leaves store and legs apart until it is resumed; a second fault may strike the compensation;
  a failed save deletes the previous document from the store and not from the legs.

The invariant of the last is, with `BaseInv` (types, and which step goes with which task and call), `ExecInv`, `SweepInv` and
`DropInv`: `GoesOn` (nothing interrupts a handler), `Ordered` (documents are numbered in the order they are saved) and
`AgreeInv`, which says what each leg holds at each step of each handler: all but one source's documents
while it is indexed or unindexed (`AgreesIndexing`); the documents of the pages done, of this one done or to do,
in either phase (`AgreesReindexing`); and all that is stored, and maybe what was dropped (`AgreesCleaning`).
That pages are complete, for any page size, needs that `Rank` numbers the documents one by one.

These hypotheses are the configurations of the three runs (`IngestSweep`, `IngestCleanup`, `IngestSerial`) with the
bounds taken away: any number of tasks, sources, legs, documents and page sizes.
`IngestSerial` has the fault "collection" and TLC shows it harmless, as the theorem does.

### Staging

`ServicesProofs`: `CopiesKept`, `StagingSpec => CopiesFollowTasks`, for any number of instances that share the
directory, of uploads, crashes and hours. `StagingInv` has ten parts, among them: a copy is where its
call left it (`StagedWhere`); a directory goes under a living instance only when it is stale
(`SweptWhenStale`); a task that is not persistent is run by the instance that was called (`OwnRunner`); a drained
instance runs nothing (`DrainedIsIdle`). Only "none" must not be the name of an instance.

### Cache

`ServicesProofs`: `CacheKept`, `CacheSpec => CacheKeepsFaith`, for any callers, texts, prompts and size of a batch. That
texts and prompts are apart is an assumption the code justifies: their files are in two
directories. The invariant is `CacheTyped /\ AllLooked /\ Led /\ FlightsRight /\ Billing /\ Unanswered`.
`Looked` relates the slots of a response to the inputs still missing, position by position; `FlightsRight` says the flights
are those of the callers between joining and answering, one for each batch; `Unanswered`, that no file
is there of a completion that is at the provider, since only its own flight could have written it.

### Assembly

`ServicesProofs`: `Assembled`, `AssemblySpec => []AssembledAsAsked`, for any options in any order and any profiles. What
`New` has built is a function of the options (`BuiltFromOptions`) and what a request runs is a part of it
(`RanAsAllowed`); the lemma `OpenedAs` unfolds the one, and the promises are facts about it.

### Answers

`SearchProofs`: `AnswersSourced`, `AnswerSpec => []AnswerKeepsFaith`, for any evidence, lengths, budgets and streams. The
invariant `PromptInv` says of each source what it is numbered, cut to and taken from (`NumberedSoFar`), that
the budgets hold, and that each section passed over had no words to give (`NonePassedOver`), so that numbering ends because
the sections do or a budget does. `StreamInv`: an error is the last thing received, sent or held. `CitationsRight` says what the
recursive `Citations` computes for an answer of any length.

### Iterative search

`SearchProofs`: `EvidenceKept`, `RetrievalSpec => []EvidenceKeepsFaith`, for any settings, words of the model, number of
sub-queries, concurrency and rounds, and any corpus of which `HitsOf` holds: a search has one result for each
document, with its sections, each once. That is what the pipeline returns (`SectionsOnce` of `PipelineSearch`), and a query searched
without a decomposer relies on it, as nothing fuses its results. The invariant is

    RetrievalInv == RetrievalBase /\ EarlierQueriesLead /\ VerdictKept /\ DemotedKept /\ CallsCounted

`RetrievalBase` has the types, that a search that is done has left its results at its own place (`Split`) and that the query
itself is searched first (`AskedFirst`). Then `FoundRight` follows: whatever the order in which the searches end, fusion takes each section
from the first query that has it. `VerdictKept` holds in all phases but those in which the evidence is newer than the verdict,
and `DemotedKept` carries over rounds what the first one found. The lemmas `AmongRight`, `Flattened`, `FuseRight`,
`FilterRight` and `DemoteRight` say what the operators on lists of results return and keep.

### Pages

`SearchProofs`: `PagesKept`, `PagingSpec => []PagesKeepFaith`, for any rankings, readers, filters, edits, sizes of windows and any
preference of the reranker. The runs have few windows; the theorem holds for all, and for pages deeper than the first pool. Its invariant is

    PagingInv == PagingTyped /\ CursorKept /\ SelectedKept /\ RankedKept /\ WholeKept /\ FullBeforeMore /\ GroundingKeepsResults

A page alone says nothing of the others, as a cursor is all that is left of them. `WholeKept` relates them: as
long as the corpus and the order do not change, what was shown is a prefix of `Whole` (what the widest window
holds, filtered and reranked) as long as the cursor's offset says, and the list a page is cut from is a prefix of it
that reaches beyond the page, or all of it. `WideEnough` is why: a window that grows stops only when it suffices or can
grow no more. `RankedKept` is for edits: what is shown has rising places in the index's order, so that nothing comes twice whatever was added,
removed or retagged. `SelectedKept` follows the verdicts kept from one window to the next. The lemmas `AmongSame`, `AmongPrefix`
and `PrefixPlaces` say what a filter makes of a longer list.

### Blob stores

`BlobStoresProofs`: `BlobsKept`, `~WritersOverlap => (StoreSpec => BlobsKeepFaith)`, for any finite set of hashes, any media
types, goroutines, calls, batches of `List`, failures and crashes. It has the refinement of `BlobContract` by both
stores, and that answers were true at a moment of their call. Its invariant is

    BlobInv == Typed /\ AllPlaced /\ Apart /\ FilesAgree /\ AnswersInv /\ ListInv

`Apart`: two calls that write one hash do the same to it, which `WritersOverlap` = `FALSE` gives. `FilesAgree`: whatever
content there is has a sidecar, and a `Put` or `Delete` between its files knows what it has written. `ListInv`
follows the walk: the hashes present all the time are either listed or still before it, in ascending order.

### Vector index

`VecStoreProofs`: `VectorsKept`, `~KeeperOverlaps => (VecSpec => VectorsKeepFaith)`, for any finite set of documents, any
versions, chunks, indexers, searchers, size of the pool, calls, failures and crashes; a goroutine has one role. Its invariant is

    VecInv == SafeInv /\ AllSeeing /\ Pooled /\ Seen /\ Streamed /\ AckInv

`SafeInv` says that one goroutine at most is at work on the tables (`Locked`, `KeeperAlone`) and that there is one savepoint,
which began with what is committed, exactly while it is inside (`Single`). So the
savepoints of the code never nest, a release always commits and a rollback always returns to the file. `AllSeeing` says what the
connection sees inside: the file but for the source that is written, or what a restoration has put
back so far. `AckInv` allows the file to differ from what was acknowledged only where the call that goes on
has committed a part: a dropped source, a restoration after its first batch. `Streamed` says a backup has recorded
the documents that are not to come, each once, and `Pooled` counts the readers. The hypothesis
is what the code does not ensure, as neither `GenerateSnapshot` nor `RestoreSnapshot` takes the lock: `BackupOverlaps` shows
the promise broken without it.

### Connections of Postgres

`VecStoreProofs`: `PoolKept`, `LegSpec => [](ConnectionsReturn /\ OnlyFallbacksStarve)`, for any searches, wishes and size
of the pool: two conjuncts of `LegsKeepFaith`, with no hypothesis. `Lent` has a member for each connection that is out, with its
search and leg, and the invariant `PoolInv` counts it. A step moves one leg (`PoolMoves`), which takes from the pool what its new step holds
and gives back what its old one held; `PgFails` does so from any step. When the pool is empty and
everyone who holds a connection only waits for a second, `Lent` maps one to one into `FallingBack`: the
fallbacks that wait are as many as the connections. Nothing in the code bounds them, and the run `Stores` reaches that state; the theorem says that it is the only way to exhaust the pool for good.

### Workspace lock

`WorkspaceProofs`: `LockKept`, `Strangers = {} => (LockSpec => LockKeepsFaith)`, for any
processes. As long as no two processes were in `acquireLock` together, at most one holds the lock; the file names
the holder, or one that was killed; and a process is refused only by one that held the lock when its file was read and
still lives, and has the lock at its second attempt. The inductive invariant is

    LockInv == LockTypeOK /\ SignedHeld /\ AttemptLeft /\ (~overlapped => Apart)

`Apart` says that the file of who writes or holds is the one at the path (`OwnFile`), that nobody holds
when a process has created a file or takes one for stale (`NoHolder`), that the pid a process has read is of one that
acquires no more (`SawPast`), and that the second attempt finds no file
(`TwoAttempts`). All of it is lost at the first overlap, which is what `LockRaces` shows; `SignedHeld` and
`AttemptLeft` are not. `Strangers = {}` is needed as a process that may not be signalled counts as dead.

### Synchronization

`WorkspaceProofs`, for any files, ignore rules, patterns, pages of digests, tasks, changes and kills:

* `GoneDeleted`: `TreeSpec => []TreeTypeOK /\ OnlyGoneDeleted`, with no further hypothesis: whatever happens beside it, a
  sync deletes the document of no file but one that was missing while it ran.
* `SyncKept`: `~SameStamp => (TreeSpec => SyncKeepsFaith)`. The hypothesis is on the files and not on the code: a digest is the
  second of the last change and the size, and a file written twice in one second to one size has the
  digest of its former content.

The invariant is `SyncInv == SafeInv /\ QuietInv /\ kills \in Nat`. `SafeInv` has the types; that copies, documents and tasks carry stamps of
their past, and with the stamp of the file on disk its body (`Current`: a copy is made after its attributes were read, so it may be
newer than its stamp and never older); and that what a command took for gone was missing meanwhile (`GoneAbsent`).
`QuietInv` says what a sync that is alone knows at each step: which documents are on the pages read (`Listed`, `Known`),
which files the walk met and found changed (`Walked`, `Found`), which sources are gone (`StraysFound`), and what its tasks have done since.

### Only model-checked

Liveness (`NoTaskLost`, `LocalIsDropped`, `LostTaskIsStopped`, `RunsEnd`, `TasksEnd`, `ServicesEnd`, `SearchesEnd`):
fairness and `ENABLED` are beyond the prover. `Filters`, `FilterExpr`, `PipelineSearch`, `Reranking`, `RetryLoop`,
`ImageText`, `Catalog` and `Snapshots`, and of `LegSearch` what its legs answer (`LegFills`, `FusionIsWhole`), which sorts sets.

Induction over data is used where it can be stated with a set: `NatSetInduction` says a set of numbers with 0 and the next of each has
all of them, and with it the proofs follow `NamedIn`, `Citations`, `Among` and `FlattenSeq`, which are functions on the
lengths of a list. The operators of `Filters`, `FilterExpr`, `Reranking`, `LegSearch` and `ImageText` are declared `RECURSIVE` or
pass operators to folds and sorts, which the prover does not unfold.

## 6. Not modelled

* Parsing of Markdown and source code into sections, languages and chunks; tokenisation, analyzers, embeddings,
  quantisation arithmetic: sequential functions of a text. The models have their results as constants.
* Prompts and the parsing of replies: a reply is any of a small set, among them the useless ones.
* The configuration file, terminal output, the tools of the MCP server (each calls one operation of the facade),
  evaluation, telemetry, encryption of archives, examples.
* Statistics and the reads of sections in `ingest/gorm`; `ListTasks` and `GetTask` of the runners; progress
  and messages, except that they touch an entry.
* The writes of Postgres, one transaction each, are a leg of `IndexPipeline` whose erasure and write do not separate.
* Migrations but the first of `sqlitevec`; a schema of a later version.
* The retry and rate-limit wrappers of `convert` repeat `RetryLoop`.
* Phrase matches of the lexical reranker; URLs and standard input of `add`.

## 7. What is left

Theorems: `CatalogKeepsFaith` of `Catalog` and `ArchivesKeepFaith` of `Snapshots`. Models: the composition of `Staging` with the runners, so that a lost
outcome and a removed copy meet in one run; the statistics of the store.
