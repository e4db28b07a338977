----------------------------- MODULE IngestProofs -----------------------------
(***************************************************************************)
(* What the handlers keep of the three stores they write one after the     *)
(* other, for any number of tasks, workers, legs, documents and faults.    *)
(***************************************************************************)
EXTENDS Ingest, FiniteSetTheorems, TLAPS

(* Which steps touch what: every other step leaves it as it is. *)

\* The steps of the two calls that are made for a source, and those of them that
\* start or leave a call of the pipeline.
RequestStep(s) == DeletionStarts(s) \/ DeletionStep(s) \/ MoveStarts(s) \/ MoveStep(s)
Requests(s)    == DeletionStarts(s) \/ DeletionErased(s) \/ MoveStep(s)

\* The steps that change the document store or the blob store.
LEMMA StoreSteps ==
    ASSUME Next, ~UNCHANGED <<storeVars, blobs>>
    PROVE  \/ \E w \in Workers : \/ Parse(w) \/ Save(w) \/ Unsave(w)
                                 \/ CleanupDropsOrphans(w) \/ CleanupCollects(w)
           \/ \E s \in Sources : DeletionEnds(s) \/ MoveStarts(s)
           \/ DeleteCollection
<1>1. ASSUME NEW w \in Workers, IndexFileStep(w)
      PROVE  UNCHANGED <<storeVars, blobs>> \/ Parse(w) \/ Save(w) \/ Unsave(w)
  BY <1>1 DEF IndexFileStep, WorkflowStops, OpenStaged, SaveFails, IndexStarts, IndexReturns, Unindexed,
              RemoveStaged
<1>2. ASSUME NEW w \in Workers, ReindexTaskStep(w) \/ Report(w) \/ ContextDone(w)
      PROVE  UNCHANGED <<storeVars, blobs>>
  BY <1>2 DEF ReindexTaskStep, ReindexStops, ReindexCounts, ReindexQueries, ReindexNext, ReindexReturns,
              Report, ContextDone
<1>3. ASSUME NEW w \in Workers, CleanupTaskStep(w)
      PROVE  UNCHANGED <<storeVars, blobs>> \/ CleanupDropsOrphans(w) \/ CleanupCollects(w)
  BY <1>3 DEF CleanupTaskStep, CleanupFails, CleanupListsOrphans, CleanupListsSections, CleanupChecksSections,
              CleanupSweeps, CleanupSwept, CleanupReadsReferences, CleanupListsBlobs
<1>4. ASSUME NEW t \in Tasks, Submit(t) \/ Resume(t) \/ Cancel(t) \/ \E w \in Workers : Begin(w, t)
      PROVE  UNCHANGED <<storeVars, blobs>>
  BY <1>4 DEF Submit, Resume, Cancel, Begin
<1>5. ASSUME NEW s \in Sources, Requests(s)
      PROVE  UNCHANGED <<storeVars, blobs>>
  BY <1>5 DEF Requests, DeletionStarts, DeletionErased, MoveStep, MoveReads, MoveErased, MoveIndexed
<1>6. (Crash \/ \E c \in Callers : PipelineStep(c)) => UNCHANGED <<storeVars, blobs>>
  BY DEF Crash, PipelineStep
<1> QED
  BY <1>1, <1>2, <1>3, <1>4, <1>5, <1>6 DEF Next, HandlerStep, DeletionStep, Requests

\* The steps that change what a leg holds or which call runs.
LEMMA PipelineSteps ==
    ASSUME Next, ~UNCHANGED <<legs, call>>
    PROVE  \/ \E w \in Workers : \/ IndexStarts(w) \/ IndexReturns(w) \/ Unindexed(w)
                                 \/ ReindexNext(w) \/ ReindexReturns(w) \/ CleanupSweeps(w) \/ CleanupSwept(w)
           \/ \E s \in Sources : Requests(s)
           \/ \E c \in Callers : PipelineStep(c)
           \/ Crash
<1>1. ASSUME NEW w \in Workers, IndexFileStep(w)
      PROVE  UNCHANGED <<legs, call>> \/ IndexStarts(w) \/ IndexReturns(w) \/ Unindexed(w)
  BY <1>1 DEF IndexFileStep, WorkflowStops, OpenStaged, Parse, Save, SaveFails, Unsave, RemoveStaged
<1>2. ASSUME NEW w \in Workers, ReindexTaskStep(w) \/ Report(w) \/ ContextDone(w)
      PROVE  UNCHANGED <<legs, call>> \/ ReindexNext(w) \/ ReindexReturns(w)
  BY <1>2 DEF ReindexTaskStep, ReindexStops, ReindexCounts, ReindexQueries, Report, ContextDone
<1>3. ASSUME NEW w \in Workers, CleanupTaskStep(w)
      PROVE  UNCHANGED <<legs, call>> \/ CleanupSweeps(w) \/ CleanupSwept(w)
  BY <1>3 DEF CleanupTaskStep, CleanupFails, CleanupListsOrphans, CleanupDropsOrphans, CleanupListsSections,
              CleanupChecksSections, CleanupReadsReferences, CleanupListsBlobs, CleanupCollects
<1>4. ASSUME NEW t \in Tasks, Submit(t) \/ Resume(t) \/ Cancel(t) \/ \E w \in Workers : Begin(w, t)
      PROVE  UNCHANGED <<legs, call>>
  BY <1>4 DEF Submit, Resume, Cancel, Begin
<1>5. ((\E s \in Sources : DeletionEnds(s) \/ MoveStarts(s)) \/ DeleteCollection) => UNCHANGED <<legs, call>>
  BY DEF DeletionEnds, MoveStarts, DeleteCollection
<1> QED
  BY <1>1, <1>2, <1>3, <1>4, <1>5 DEF Next, HandlerStep, DeletionStep, Requests

\* The steps that change the tasks.
LEMMA TaskSteps ==
    ASSUME Next, ~UNCHANGED runnerVars
    PROVE  \/ \E t \in Tasks : \/ Submit(t) \/ Resume(t) \/ Cancel(t)
                               \/ \E w \in Workers : Begin(w, t)
           \/ \E w \in Workers : Report(w)
           \/ Crash
<1>1. ASSUME NEW w \in Workers, IndexFileStep(w)
      PROVE  UNCHANGED runnerVars
  BY <1>1 DEF IndexFileStep, WorkflowStops, OpenStaged, Parse, Save, SaveFails, IndexStarts, IndexReturns,
              Unindexed, Unsave, RemoveStaged
<1>2. ASSUME NEW w \in Workers, ReindexTaskStep(w) \/ ContextDone(w)
      PROVE  UNCHANGED runnerVars
  BY <1>2 DEF ReindexTaskStep, ReindexStops, ReindexCounts, ReindexQueries, ReindexNext, ReindexReturns,
              ContextDone
<1>3. ASSUME NEW w \in Workers, CleanupTaskStep(w)
      PROVE  UNCHANGED runnerVars
  BY <1>3 DEF CleanupTaskStep, CleanupFails, CleanupListsOrphans, CleanupDropsOrphans, CleanupListsSections,
              CleanupChecksSections, CleanupSweeps, CleanupSwept, CleanupReadsReferences, CleanupListsBlobs,
              CleanupCollects
<1>4. ASSUME NEW s \in Sources, RequestStep(s)
      PROVE  UNCHANGED runnerVars
  BY <1>4 DEF RequestStep, DeletionStarts, DeletionStep, DeletionErased, DeletionEnds,
              MoveStarts, MoveStep, MoveReads, MoveErased, MoveIndexed
<1>5. ((\E c \in Callers : PipelineStep(c)) \/ DeleteCollection) => UNCHANGED runnerVars
  BY DEF PipelineStep, DeleteCollection
<1> QED
  BY <1>1, <1>2, <1>3, <1>4, <1>5 DEF Next, HandlerStep, RequestStep
-----------------------------------------------------------------------------
(* How a step moves the job of its worker. *)

Step == {"idle", "report"} \union IndexStep \union ReindexStep \union CleanupStep

JobTyped == job \in [Workers -> Job]

\* The worker is at a step with a result, documents and hashes, of the same task.
Moves(w, step, result, todo, hashes) ==
    /\ JobTyped'
    /\ \A u \in Workers \ {w} : job'[u] = job[u]
    /\ job'[w].task = job[w].task
    /\ job'[w].step = step
    /\ job'[w].result = result
    /\ job'[w].todo = todo
    /\ job'[w].hashes = hashes

\* The fields of a job, one by one.
LEMMA JobFields ==
    ASSUME NEW j \in Job
    PROVE  /\ j.task \in Tasks \union {None} /\ j.step \in Step /\ j.result \in {"ok", "error", "missing"}
           /\ j.phase \in {"erase", "index"} /\ j.page \in Nat /\ j.more \in BOOLEAN /\ j.found \in Nat
           /\ j.todo \in SUBSET Documents /\ j.hashes \in SUBSET Hashes
  BY DEF Job, Step

\* The steps a worker may be at.
LEMMA StepNames ==
    /\ {"idle", "report"} \subseteq Step
    /\ {"open", "parse", "save", "index", "unindex", "unsave", "remove"} \subseteq Step
    /\ {"count", "page", "next", "each"} \subseteq Step
    /\ {"orphans", "drop", "list", "check", "sweep", "refs", "blobs", "collect"} \subseteq Step
  BY DEF Step, IndexStep, ReindexStep, CleanupStep

\* A worker that gets another record for its job: the other workers keep theirs.
LEMMA JobReplaced ==
    ASSUME JobTyped, NEW w \in Workers, NEW j \in Job, j.task = job[w].task, job' = [job EXCEPT ![w] = j]
    PROVE  Moves(w, j.step, j.result, j.todo, j.hashes)
<1>1. job \in [Workers -> Job]
  BY DEF JobTyped
<1>2. job' \in [Workers -> Job] /\ job'[w] = j /\ \A u \in Workers \ {w} : job'[u] = job[u]
  BY <1>1
<1> QED
  BY <1>2 DEF Moves, JobTyped

\* A worker goes to a step and keeps the rest of its job.
LEMMA GoMoves ==
    ASSUME JobTyped, NEW w \in Workers, NEW s \in Step, Go(w, s)
    PROVE  Moves(w, s, job[w].result, job[w].todo, job[w].hashes)
  BY DEF Go, Moves, JobTyped, Job, Step

\* A worker ends a step with a result and keeps what it holds.
LEMMA FailsMoves ==
    ASSUME JobTyped, NEW w \in Workers, NEW s \in Step, NEW r \in {"ok", "error", "missing"}, Fails(w, r, s)
    PROVE  Moves(w, s, r, job[w].todo, job[w].hashes)
<1> DEFINE j == [job[w] EXCEPT !.result = r, !.step = s]
<1>1. job[w] \in Job
  BY DEF JobTyped
<1>2. j \in Job
  BY <1>1, StepNames DEF Job, Step
<1>3. /\ j.task = job[w].task /\ j.step = s /\ j.result = r
      /\ j.todo = job[w].todo /\ j.hashes = job[w].hashes
  BY <1>1 DEF Job
<1>4. job' = [job EXCEPT ![w] = j]
  BY <1>1 DEF Fails, Go
<1> HIDE DEF j
<1> QED
  BY <1>2, <1>3, <1>4, JobReplaced

\* A worker goes to a step with other documents.
LEMMA TodoMoves ==
    ASSUME JobTyped, NEW w \in Workers, NEW s \in Step, NEW D, D \subseteq Documents,
           job' = [job EXCEPT ![w] = [job[w] EXCEPT !.step = s, !.todo = D]]
    PROVE  Moves(w, s, job[w].result, D, job[w].hashes)
<1> DEFINE j == [job[w] EXCEPT !.step = s, !.todo = D]
<1>1. job[w] \in Job
  BY DEF JobTyped
<1>2. j \in Job
  BY <1>1, StepNames DEF Job, Step
<1>3. /\ j.task = job[w].task /\ j.step = s /\ j.result = job[w].result
      /\ j.todo = D /\ j.hashes = job[w].hashes
  BY <1>1 DEF Job
<1>4. job' = [job EXCEPT ![w] = j]
  OBVIOUS
<1> HIDE DEF j
<1> QED
  BY <1>2, <1>3, <1>4, JobReplaced

\* A worker goes to a step with other hashes.
LEMMA HashesMoves ==
    ASSUME JobTyped, NEW w \in Workers, NEW s \in Step, NEW H, H \subseteq Hashes,
           job' = [job EXCEPT ![w] = [job[w] EXCEPT !.step = s, !.hashes = H]]
    PROVE  Moves(w, s, job[w].result, job[w].todo, H)
<1> DEFINE j == [job[w] EXCEPT !.step = s, !.hashes = H]
<1>1. job[w] \in Job
  BY DEF JobTyped
<1>2. j \in Job
  BY <1>1, StepNames DEF Job, Step
<1>3. /\ j.task = job[w].task /\ j.step = s /\ j.result = job[w].result
      /\ j.todo = job[w].todo /\ j.hashes = H
  BY <1>1 DEF Job
<1>4. job' = [job EXCEPT ![w] = j]
  OBVIOUS
<1> HIDE DEF j
<1> QED
  BY <1>2, <1>3, <1>4, JobReplaced

\* A cleanup goes on with the batch of orphans it has counted.
LEMMA FoundMoves ==
    ASSUME JobTyped, NEW w \in Workers, NEW s \in Step, NEW D, D \subseteq Documents,
           NEW m \in BOOLEAN, NEW n \in Nat,
           job' = [job EXCEPT ![w] = [job[w] EXCEPT !.found = n, !.todo = D, !.more = m, !.step = s]]
    PROVE  Moves(w, s, job[w].result, D, job[w].hashes)
<1> DEFINE j == [job[w] EXCEPT !.found = n, !.todo = D, !.more = m, !.step = s]
<1>1. job[w] \in Job
  BY DEF JobTyped
<1>2. j \in Job
  BY <1>1, StepNames DEF Job, Step
<1>3. /\ j.task = job[w].task /\ j.step = s /\ j.result = job[w].result
      /\ j.todo = D /\ j.hashes = job[w].hashes
  BY <1>1 DEF Job
<1>4. job' = [job EXCEPT ![w] = j]
  OBVIOUS
<1> HIDE DEF j
<1> QED
  BY <1>2, <1>3, <1>4, JobReplaced

\* A cleanup goes on once its batch of orphans is dropped.
LEMMA DropMoves ==
    ASSUME JobTyped, NEW w \in Workers, NEW s \in Step,
           job' = [job EXCEPT ![w] = [job[w] EXCEPT !.step = s, !.todo = {}, !.found = 0]]
    PROVE  Moves(w, s, job[w].result, {}, job[w].hashes)
<1> DEFINE j == [job[w] EXCEPT !.step = s, !.todo = {}, !.found = 0]
<1>1. job[w] \in Job
  BY DEF JobTyped
<1>2. j \in Job
  BY <1>1, StepNames DEF Job, Step
<1>3. /\ j.task = job[w].task /\ j.step = s /\ j.result = job[w].result
      /\ j.todo = {} /\ j.hashes = job[w].hashes
  BY <1>1 DEF Job
<1>4. job' = [job EXCEPT ![w] = j]
  OBVIOUS
<1> HIDE DEF j
<1> QED
  BY <1>2, <1>3, <1>4, JobReplaced

\* Reindex turns to another page.
LEMMA PageMoves ==
    ASSUME JobTyped, NEW w \in Workers, NEW n \in Nat,
           job' = [job EXCEPT ![w] = [job[w] EXCEPT !.step = "page", !.page = n]]
    PROVE  Moves(w, "page", job[w].result, job[w].todo, job[w].hashes)
<1> DEFINE j == [job[w] EXCEPT !.step = "page", !.page = n]
<1>1. job[w] \in Job
  BY DEF JobTyped
<1>2. j \in Job
  BY <1>1, StepNames DEF Job, Step
<1>3. /\ j.task = job[w].task /\ j.step = "page" /\ j.result = job[w].result
      /\ j.todo = job[w].todo /\ j.hashes = job[w].hashes
  BY <1>1 DEF Job
<1>4. job' = [job EXCEPT ![w] = j]
  OBVIOUS
<1> HIDE DEF j
<1> QED
  BY <1>2, <1>3, <1>4, JobReplaced

\* Reindex turns from erasing to indexing.
LEMMA PhaseMoves ==
    ASSUME JobTyped, NEW w \in Workers, NEW n \in Nat,
           job' = [job EXCEPT ![w] = [job[w] EXCEPT !.step = "page", !.phase = "index", !.page = n]]
    PROVE  Moves(w, "page", job[w].result, job[w].todo, job[w].hashes)
<1> DEFINE j == [job[w] EXCEPT !.step = "page", !.phase = "index", !.page = n]
<1>1. job[w] \in Job
  BY DEF JobTyped
<1>2. j \in Job
  BY <1>1, StepNames DEF Job, Step
<1>3. /\ j.task = job[w].task /\ j.step = "page" /\ j.result = job[w].result
      /\ j.todo = job[w].todo /\ j.hashes = job[w].hashes
  BY <1>1 DEF Job
<1>4. job' = [job EXCEPT ![w] = j]
  OBVIOUS
<1> HIDE DEF j
<1> QED
  BY <1>2, <1>3, <1>4, JobReplaced

\* Reindex goes on with the documents of a page.
LEMMA BatchMoves ==
    ASSUME JobTyped, NEW w \in Workers, NEW D, D \subseteq Documents, NEW m \in BOOLEAN,
           job' = [job EXCEPT ![w] = [job[w] EXCEPT !.step = "next", !.todo = D, !.more = m]]
    PROVE  Moves(w, "next", job[w].result, D, job[w].hashes)
<1> DEFINE j == [job[w] EXCEPT !.step = "next", !.todo = D, !.more = m]
<1>1. job[w] \in Job
  BY DEF JobTyped
<1>2. j \in Job
  BY <1>1, StepNames DEF Job, Step
<1>3. /\ j.task = job[w].task /\ j.step = "next" /\ j.result = job[w].result
      /\ j.todo = D /\ j.hashes = job[w].hashes
  BY <1>1 DEF Job
<1>4. job' = [job EXCEPT ![w] = j]
  OBVIOUS
<1> HIDE DEF j
<1> QED
  BY <1>2, <1>3, <1>4, JobReplaced

\* A worker whose job does not change stays at its step.
LEMMA StaysMoves ==
    ASSUME JobTyped, NEW w \in Workers, UNCHANGED job
    PROVE  Moves(w, job[w].step, job[w].result, job[w].todo, job[w].hashes)
  BY DEF Moves, JobTyped

\* IndexFile.
LEMMA IndexMoves ==
    ASSUME JobTyped, saves \in Nat, NEW w \in Workers, job[w].task \in Tasks
    PROVE  LET j == job[w]
               Goes(step) == Moves(w, step, j.result, j.todo, j.hashes)
               Errs(step) == Moves(w, step, "error", j.todo, j.hashes)
           IN  /\ WorkflowStops(w) => Errs("remove")
               /\ OpenStaged(w) => Goes("parse") \/ Moves(w, "remove", "missing", j.todo, j.hashes)
               /\ Parse(w) => Goes("save") \/ Errs("remove")
               /\ Save(w) => Moves(w, "index", j.result, {<<j.task, saves + 1>>}, j.hashes)
               /\ SaveFails(w) => Errs("unsave")
               /\ IndexStarts(w) => Goes("index")
               /\ IndexReturns(w) => IF Succeeds(w) THEN Goes("remove") ELSE Errs("unindex")
               /\ Unindexed(w) => Goes("unsave")
               /\ Unsave(w) => Goes("remove")
               /\ RemoveStaged(w) => Goes("report")
<1> DEFINE d == <<job[w].task, saves + 1>>
<1> USE StepNames
<1>1. WorkflowStops(w) => Moves(w, "remove", "error", job[w].todo, job[w].hashes)
  BY FailsMoves DEF WorkflowStops
<1>2. OpenStaged(w) => \/ Moves(w, "parse", job[w].result, job[w].todo, job[w].hashes)
                       \/ Moves(w, "remove", "missing", job[w].todo, job[w].hashes)
  BY FailsMoves, GoMoves DEF OpenStaged
<1>3. Parse(w) => \/ Moves(w, "save", job[w].result, job[w].todo, job[w].hashes)
                  \/ Moves(w, "remove", "error", job[w].todo, job[w].hashes)
  BY FailsMoves, GoMoves DEF Parse
<1>4. ASSUME Save(w)
      PROVE  Moves(w, "index", job[w].result, {d}, job[w].hashes)
  <2>1. {d} \subseteq Documents
    BY <1>4, IngestAssumption DEF Documents, Save
  <2>2. job' = [job EXCEPT ![w] = [job[w] EXCEPT !.step = "index", !.todo = {d}]]
    BY <1>4 DEF Save
  <2> QED
    BY <2>1, <2>2, TodoMoves
<1>5. SaveFails(w) => Moves(w, "unsave", "error", job[w].todo, job[w].hashes)
  BY FailsMoves DEF SaveFails
<1>6. IndexStarts(w) => Moves(w, "index", job[w].result, job[w].todo, job[w].hashes)
  BY StaysMoves DEF IndexStarts, At
<1>7. IndexReturns(w) => IF Succeeds(w) THEN Moves(w, "remove", job[w].result, job[w].todo, job[w].hashes)
                         ELSE Moves(w, "unindex", "error", job[w].todo, job[w].hashes)
  BY FailsMoves, GoMoves DEF IndexReturns
<1>8. Unindexed(w) => Moves(w, "unsave", job[w].result, job[w].todo, job[w].hashes)
  BY GoMoves DEF Unindexed
<1>9. Unsave(w) => Moves(w, "remove", job[w].result, job[w].todo, job[w].hashes)
  BY GoMoves DEF Unsave
<1>10. RemoveStaged(w) => Moves(w, "report", job[w].result, job[w].todo, job[w].hashes)
  BY GoMoves DEF RemoveStaged
<1> QED
  BY <1>1, <1>2, <1>3, <1>4, <1>5, <1>6, <1>7, <1>8, <1>9, <1>10

\* Reindex.
LEMMA ReindexMoves ==
    ASSUME JobTyped, docs \subseteq Documents, NEW w \in Workers
    PROVE  LET j == job[w]
               Goes(step) == Moves(w, step, j.result, j.todo, j.hashes)
               With(step, D) == Moves(w, step, j.result, D, j.hashes)
           IN  /\ ReindexStops(w) => Moves(w, "report", "error", j.todo, j.hashes)
               /\ ReindexCounts(w) => Goes("report") \/ Goes("page")
               /\ ReindexQueries(w) => \/ Goes("report") \/ Goes("page")
                                       \/ With("next", Page(j.page))
               /\ ReindexNext(w) => \E d \in j.todo : With("each", j.todo \ {d})
               /\ ReindexReturns(w) => Goes("next") \/ Goes("page") \/ Goes("report")
<1> USE StepNames
<1> DEFINE Goes(step) == Moves(w, step, job[w].result, job[w].todo, job[w].hashes)
<1>0. job[w] \in Job /\ job[w].page \in Nat /\ job[w].todo \subseteq Documents
  BY JobFields DEF JobTyped
<1>1. ReindexStops(w) => Moves(w, "report", "error", job[w].todo, job[w].hashes)
  BY FailsMoves DEF ReindexStops
<1>2. ReindexCounts(w) => Goes("report") \/ Goes("page")
  BY GoMoves DEF ReindexCounts
<1>3. PhaseOver(w) => Goes("report") \/ Goes("page")
  <2>1. PhaseOver(w) =>
           \/ Go(w, "report")
           \/ job' = [job EXCEPT ![w] = [job[w] EXCEPT !.step = "page", !.phase = "index", !.page = 0]]
    BY <1>0 DEF PhaseOver, Go
  <2> QED
    BY <2>1, GoMoves, PhaseMoves
<1>4. ASSUME ReindexQueries(w)
      PROVE  Goes("report") \/ Goes("page") \/ Moves(w, "next", job[w].result, Page(job[w].page), job[w].hashes)
  <2> DEFINE batch == Page(job[w].page)
             full == Cardinality(batch) = PageSize
  <2>1. \/ PhaseOver(w)
        \/ job' = [job EXCEPT ![w] = [job[w] EXCEPT !.step = "next", !.todo = batch, !.more = full]]
    BY <1>4 DEF ReindexQueries
  <2>2. batch \subseteq Documents /\ full \in BOOLEAN
    BY DEF Page
  <2> HIDE DEF batch, full
  <2>3. PhaseOver(w) \/ Moves(w, "next", job[w].result, batch, job[w].hashes)
    BY <2>1, <2>2, BatchMoves
  <2> QED
    BY <1>3, <2>3 DEF batch
<1>5. ASSUME ReindexNext(w)
      PROVE  \E d \in job[w].todo : Moves(w, "each", job[w].result, job[w].todo \ {d}, job[w].hashes)
  <2>1. PICK d \in job[w].todo :
           job' = [job EXCEPT ![w] = [job[w] EXCEPT !.step = "each", !.todo = job[w].todo \ {d}]]
    BY <1>5 DEF ReindexNext, CallErase, CallIndex
  <2>2. (job[w].todo \ {d}) \subseteq Documents
    BY <1>0
  <2> QED
    BY <2>1, <2>2, TodoMoves
<1>6. ASSUME ReindexReturns(w)
      PROVE  Goes("next") \/ Goes("page") \/ Goes("report")
  <2>1. \/ Go(w, "next") \/ PhaseOver(w)
        \/ job' = [job EXCEPT ![w] = [job[w] EXCEPT !.step = "page", !.page = job[w].page + 1]]
    BY <1>6 DEF ReindexReturns
  <2>2. job[w].page + 1 \in Nat
    BY <1>0
  <2> QED
    BY <1>3, <2>1, <2>2, GoMoves, PageMoves
<1> QED
  BY <1>1, <1>2, <1>4, <1>5, <1>6
\* CleanupIndex.
LEMMA CleanupMoves ==
    ASSUME JobTyped, IsFiniteSet(orphans), orphans \subseteq Documents, blobs \subseteq Hashes,
           Referenced \subseteq Hashes, \A l \in Legs : legs[l] \subseteq Documents,
           NEW w \in Workers
    PROVE  LET j == job[w]
               Goes(step) == Moves(w, step, j.result, j.todo, j.hashes)
               With(step, D) == Moves(w, step, j.result, D, j.hashes)
               Keeping(step, H) == Moves(w, step, j.result, j.todo, H)
           IN  /\ CleanupFails(w) => Moves(w, "report", "error", j.todo, j.hashes)
               /\ CleanupListsOrphans(w) =>
                    \E found \in SUBSET orphans, step \in {"drop", "list", "orphans"} :
                       With(step, j.todo \union found)
               /\ CleanupDropsOrphans(w) => With("orphans", {}) \/ With("list", {})
               /\ CleanupListsSections(w) => With("check", UNION {legs[l] : l \in Legs})
               /\ CleanupChecksSections(w) => With("sweep", Missing(j.todo)) \/ With("sweep", {})
               /\ CleanupSweeps(w) => IF j.todo = {} THEN Goes("refs") ELSE Goes("sweep")
               /\ CleanupSwept(w) => Goes("refs")
               /\ CleanupReadsReferences(w) => Keeping("blobs", Referenced)
               /\ CleanupListsBlobs(w) => Keeping("collect", blobs \ j.hashes)
               /\ CleanupCollects(w) => Goes("report")
<1> USE StepNames
<1>0. /\ job[w] \in Job
      /\ job[w].found \in Nat /\ job[w].more \in BOOLEAN
      /\ job[w].todo \in SUBSET Documents /\ job[w].hashes \in SUBSET Hashes
  BY JobFields DEF JobTyped
<1>1. CleanupFails(w) => Moves(w, "report", "error", job[w].todo, job[w].hashes)
  BY FailsMoves DEF CleanupFails
<1>2. ASSUME CleanupListsOrphans(w)
      PROVE  \E found \in SUBSET orphans, s \in {"drop", "list", "orphans"} :
                Moves(w, s, job[w].result, job[w].todo \union found, job[w].hashes)
  <2>1. PICK found \in SUBSET orphans, m \in BOOLEAN, s \in {"drop", "list", "orphans"} :
            job' = [job EXCEPT ![w] = [job[w] EXCEPT
                       !.found = job[w].found + Cardinality(found),
                       !.todo = job[w].todo \union found, !.more = m, !.step = s]]
    <3>1. PICK found \in SUBSET orphans :
             LET n == job[w].found + Cardinality(found)
                 enough == n >= OrphanBatch
                 over == found = {}
             IN  job' = [job EXCEPT ![w] = [job[w] EXCEPT
                       !.found = n, !.todo = job[w].todo \union found, !.more = ~over,
                       !.step = IF enough \/ (over /\ n > 0) THEN "drop"
                                ELSE IF over THEN "list" ELSE "orphans"]]
      BY <1>2, Zenon DEF CleanupListsOrphans
    <3> DEFINE n == job[w].found + Cardinality(found)
               m == ~(found = {})
               s == IF n >= OrphanBatch \/ (found = {} /\ n > 0) THEN "drop"
                    ELSE IF found = {} THEN "list" ELSE "orphans"
    <3>2. m \in BOOLEAN /\ s \in {"drop", "list", "orphans"}
      OBVIOUS
    <3>3. job' = [job EXCEPT ![w] = [job[w] EXCEPT
                    !.found = job[w].found + Cardinality(found),
                    !.todo = job[w].todo \union found, !.more = m, !.step = s]]
      BY <3>1, Zenon
    <3> HIDE DEF m, s
    <3> QED
      BY <3>2, <3>3, Zenon
  <2>2. job[w].found + Cardinality(found) \in Nat
    BY <1>0, FS_Subset, FS_CardinalityType
  <2>3. (job[w].todo \union found) \subseteq Documents
    BY <1>0
  <2> QED
    BY <2>1, <2>2, <2>3, FoundMoves
<1>3. ASSUME CleanupDropsOrphans(w)
      PROVE  \/ Moves(w, "orphans", job[w].result, {}, job[w].hashes)
             \/ Moves(w, "list", job[w].result, {}, job[w].hashes)
  <2>1. PICK s \in {"orphans", "list"} :
           job' = [job EXCEPT ![w] = [job[w] EXCEPT !.step = s, !.todo = {}, !.found = 0]]
    BY <1>3 DEF CleanupDropsOrphans
  <2> QED
    BY <2>1, DropMoves
<1>5. CleanupListsSections(w) =>
         Moves(w, "check", job[w].result, UNION {legs[l] : l \in Legs}, job[w].hashes)
  <2>1. (UNION {legs[l] : l \in Legs}) \subseteq Documents
    OBVIOUS
  <2> QED
    BY <2>1, TodoMoves DEF CleanupListsSections
<1>6. CleanupChecksSections(w) =>
         \/ Moves(w, "sweep", job[w].result, Missing(job[w].todo), job[w].hashes)
         \/ Moves(w, "sweep", job[w].result, {}, job[w].hashes)
  <2>1. Missing(job[w].todo) \subseteq Documents
    BY <1>0 DEF Missing
  <2> QED
    BY <2>1, TodoMoves DEF CleanupChecksSections
<1>7. CleanupSweeps(w) => IF job[w].todo = {}
                          THEN Moves(w, "refs", job[w].result, job[w].todo, job[w].hashes)
                          ELSE Moves(w, "sweep", job[w].result, job[w].todo, job[w].hashes)
  BY GoMoves, StaysMoves DEF CleanupSweeps, At
<1>8. CleanupSwept(w) => Moves(w, "refs", job[w].result, job[w].todo, job[w].hashes)
  BY GoMoves DEF CleanupSwept
<1>10. CleanupReadsReferences(w) => Moves(w, "blobs", job[w].result, job[w].todo, Referenced)
  BY HashesMoves DEF CleanupReadsReferences
<1>11. CleanupListsBlobs(w) => Moves(w, "collect", job[w].result, job[w].todo, blobs \ job[w].hashes)
  BY HashesMoves DEF CleanupListsBlobs
<1>12. CleanupCollects(w) => Moves(w, "report", job[w].result, job[w].todo, job[w].hashes)
  BY GoMoves DEF CleanupCollects
<1> QED
  BY <1>1, <1>2, <1>3, <1>5, <1>6, <1>7, <1>8, <1>10, <1>11, <1>12
-----------------------------------------------------------------------------
(* Types. *)

StoreTyped ==
    /\ docs \subseteq Documents /\ IsFiniteSet(docs)
    /\ \A d, e \in docs : SourceOf(d) = SourceOf(e) => d = e
    /\ orphans \subseteq docs
    /\ saves \in 0 .. MaxSaves
    /\ blobs \subseteq Hashes

LegsTyped == legs \in [Legs -> SUBSET Documents]
CallTyped ==
    /\ call \in [Callers -> Call]
    /\ \A c \in Callers : call[c].op = "none" => call[c].docs = {} /\ \A l \in Legs : call[c].leg[l] = "done"

TasksTyped ==
    /\ status \in [Tasks -> {"absent", "pending", "running", "succeeded", "failed"}]
    /\ executors \in [Tasks -> SUBSET Workers]
    /\ staged \subseteq Tasks
    /\ canceled \subseteq Workers
    /\ faults \in 0 .. MaxFaults

RequestTyped ==
    /\ request \in [Sources -> {"none", "done", "failed"} \union InProgress]
    /\ moved \in [Sources -> SUBSET Documents]

\* A worker is in the handler of its task's type, or about to report.
JobsOfKind ==
    \A w \in Workers :
        /\ job[w].step = "idle" <=> job[w].task = None
        /\ job[w].step \in IndexStep => KindOf[job[w].task] = "index"
        /\ job[w].step \in ReindexStep => KindOf[job[w].task] = "reindex"
        /\ job[w].step \in CleanupStep => KindOf[job[w].task] = "cleanup"

\* Every document seen anywhere has been saved: a new one is new.
SeenIsSaved ==
    /\ \A d \in docs : d[2] <= saves
    /\ \A l \in Legs : \A d \in legs[l] : d[2] <= saves
    /\ \A w \in Workers : \A d \in job[w].todo : d[2] <= saves
    /\ \A c \in Callers : \A d \in call[c].docs : d[2] <= saves
    /\ \A s \in Sources : \A d \in moved[s] : d[2] <= saves

\* A worker's call is the one its job waits for.
CallOfJob(w) ==
    LET j == job[w]
        c == call[w]
    IN  /\ j.step = "index" => /\ \E n \in 1 .. MaxSaves : j.todo = {<<j.task, n>>}
                               /\ c.op \in {"none", "index"}
                               /\ c.op = "index" => c.src = Target[j.task] /\ c.docs = j.todo
        /\ j.step = "unindex" => c.op = "erase" /\ c.src = Target[j.task]
        /\ j.step = "each" => c.op \in {"index", "erase"}
        /\ j.step = "sweep" => c.op \in {"none", "sweep"} /\ (c.op = "sweep" => c.docs = j.todo)
        /\ j.step \notin {"index", "unindex", "each", "sweep"} => c.op = "none"

\* DeleteBySource and SetDocumentCollections erase their source, of the ones they
\* are called for, and the second indexes the document it was called for.
CallOfRequest(s) ==
    /\ call[s].op \in {"none", "erase", "index"}
    /\ call[s].op = "erase" <=> request[s] \in {"erase", "clear"}
    /\ call[s].op = "index" <=> request[s] = "reindex"
    /\ call[s].op # "none" => call[s].src = s /\ call[s].docs \subseteq moved[s]
    /\ request[s] # "none" => s \in Deletable \union Movable
    /\ request[s] \in {"erase", "delete"} => s \in Deletable
    /\ request[s] \in {"read", "clear", "reindex"} \/ moved[s] # {} => s \in Movable
    /\ request[s] = "none" => moved[s] = {}
    /\ \A d \in moved[s] : SourceOf(d) = s

CallsOfJobs ==
    /\ \A w \in Workers : CallOfJob(w)
    /\ \A s \in Sources : CallOfRequest(s)

BaseInv ==
    /\ StoreTyped /\ LegsTyped /\ CallTyped /\ TasksTyped /\ RequestTyped
    /\ JobTyped /\ JobsOfKind /\ SeenIsSaved /\ CallsOfJobs

\* The steps of the handlers are apart.
LEMMA StepsApart ==
    /\ IndexStep \intersect ReindexStep = {} /\ IndexStep \intersect CleanupStep = {}
    /\ ReindexStep \intersect CleanupStep = {}
    /\ \A s \in IndexStep \union ReindexStep \union CleanupStep : s \notin {"idle", "report"}
  BY DEF IndexStep, ReindexStep, CleanupStep

\* What one step does to the store: it may add a document, which is new, and
\* only SetDocumentCollections puts one that stays, and was in no collection,
\* into one.
StoreGoesOn ==
    /\ saves' \in {saves, saves + 1}
    /\ \A d \in docs' : d \in docs \/ (saves' = saves + 1 /\ d[2] = saves')
    /\ orphans \intersect docs' \subseteq orphans' \union Moved'

\* DeleteDocuments keeps the store well formed.
LEMMA Deletes ==
    ASSUME StoreTyped, NEW D, DeleteDocuments(D), blobs' \subseteq Hashes
    PROVE  StoreTyped' /\ StoreGoesOn
<1>1. docs' = docs \ D /\ orphans' = orphans \ D /\ saves' = saves
  BY DEF DeleteDocuments
<1>2. IsFiniteSet(docs')
  BY <1>1, FS_Subset DEF StoreTyped
<1> QED
  BY <1>1, <1>2 DEF StoreTyped, StoreGoesOn

\* SaveDocument keeps one document of a source, and the one it writes is new.
LEMMA Saves ==
    ASSUME StoreTyped, SeenIsSaved, NEW t \in Tasks, saves < MaxSaves, SaveDocument(<<t, saves + 1>>), UNCHANGED blobs
    PROVE  StoreTyped' /\ StoreGoesOn
<1> DEFINE d == <<t, saves + 1>>
<1>1. d \in Documents /\ saves + 1 \in 0 .. MaxSaves /\ d[2] = saves + 1
  BY IngestAssumption DEF StoreTyped, Documents
<1>2. /\ docs' = (docs \ Stored(SourceOf(d))) \union {d}
      /\ orphans' = orphans \ Stored(SourceOf(d)) /\ saves' = saves + 1
  BY DEF SaveDocument
<1> HIDE DEF d
<1>3. IsFiniteSet(docs')
  BY <1>2, FS_Subset, FS_AddElement DEF StoreTyped
<1>4. \A e \in docs : e \notin Stored(SourceOf(d)) => SourceOf(e) # SourceOf(d)
  BY DEF Stored
<1>5. \A e, f \in docs' : SourceOf(e) = SourceOf(f) => e = f
  BY <1>2, <1>4, Zenon DEF StoreTyped
<1>6. docs' \subseteq Documents /\ orphans' \subseteq docs'
  BY <1>1, <1>2 DEF StoreTyped
<1>7. StoreTyped'
  BY <1>1, <1>2, <1>3, <1>5, <1>6 DEF StoreTyped
<1>8. d \notin docs
  BY <1>1 DEF SeenIsSaved, StoreTyped
<1>9. StoreGoesOn
  BY <1>1, <1>2, <1>8 DEF StoreGoesOn, StoreTyped
<1> QED
  BY <1>7, <1>9

\* Every step keeps the store well formed and its documents new.
LEMMA StoreNext ==
    ASSUME StoreTyped, SeenIsSaved, JobTyped, JobsOfKind, RequestTyped, Next
    PROVE  StoreTyped' /\ StoreGoesOn
<1>1. CASE UNCHANGED <<storeVars, blobs>>
  BY <1>1 DEF storeVars, StoreTyped, StoreGoesOn, SourceOf
<1>2. ASSUME NEW w \in Workers, Parse(w)
      PROVE  StoreTyped' /\ StoreGoesOn
  <2>1. job[w].task \in Tasks
    BY <1>2, JobFields, StepsApart DEF JobTyped, JobsOfKind, Parse, At, IndexStep
  <2>2. blobs' \subseteq Hashes
    BY <1>2, <2>1, IngestAssumption DEF Parse, StoreTyped
  <2> QED
    BY <1>2, <2>2 DEF Parse, storeVars, StoreTyped, StoreGoesOn, SourceOf
<1>3. ASSUME NEW w \in Workers, Save(w)
      PROVE  StoreTyped' /\ StoreGoesOn
  <2>1. job[w].task \in Tasks
    BY <1>3, JobFields, StepsApart DEF JobTyped, JobsOfKind, Save, At, IndexStep
  <2> QED
    BY <1>3, <2>1, Saves DEF Save
<1>4. ASSUME NEW w \in Workers, Unsave(w) \/ CleanupDropsOrphans(w)
      PROVE  StoreTyped' /\ StoreGoesOn
  <2>1. blobs' \subseteq Hashes
    BY <1>4 DEF Unsave, CleanupDropsOrphans, StoreTyped
  <2>2. CASE \E D : DeleteDocuments(D)
    BY <2>1, <2>2, Deletes
  <2>3. CASE UNCHANGED storeVars
    BY <2>1, <2>3 DEF storeVars, StoreTyped, StoreGoesOn, SourceOf
  <2> QED
    BY <1>4, <2>2, <2>3 DEF Unsave, CleanupDropsOrphans, DeleteBySource
<1>5. ASSUME NEW w \in Workers, CleanupCollects(w)
      PROVE  StoreTyped' /\ StoreGoesOn
  BY <1>5 DEF CleanupCollects, storeVars, StoreTyped, StoreGoesOn, SourceOf
<1>6. ASSUME NEW s \in Sources, DeletionEnds(s)
      PROVE  StoreTyped' /\ StoreGoesOn
  BY <1>6, Deletes DEF DeletionEnds, DeleteBySource, StoreTyped
<1>7. CASE DeleteCollection
  BY <1>7 DEF DeleteCollection, StoreTyped, StoreGoesOn, SourceOf
<1>8. ASSUME NEW s \in Sources, MoveStarts(s)
      PROVE  StoreTyped' /\ StoreGoesOn
  <2>1. PICK d \in docs : moved' = [moved EXCEPT ![s] = {d}] /\ orphans' \in {orphans \union {d}, orphans \ {d}}
    BY <1>8 DEF MoveStarts, Stored
  <2>2. d \in Moved'
    BY <2>1 DEF RequestTyped, Moved
  <2> QED
    BY <1>8, <2>1, <2>2 DEF MoveStarts, StoreTyped, StoreGoesOn, SourceOf
<1> QED
  BY <1>1, <1>2, <1>3, <1>4, <1>5, <1>6, <1>7, <1>8, StoreSteps

\* The steps that spend a fault spend one, and no more than there may be.
LEMMA FaultsNext ==
    ASSUME TasksTyped, Next
    PROVE  faults' \in 0 .. MaxFaults /\ faults <= faults'
<1> USE IngestAssumption DEF TasksTyped
<1>1. ASSUME NEW k, Fault(k)
      PROVE  faults' \in 0 .. MaxFaults /\ faults <= faults'
  BY <1>1 DEF Fault
<1>2. faults \in 0 .. MaxFaults /\ faults <= faults
  OBVIOUS
<1> SUFFICES faults' = faults \/ \E k : Fault(k)
  BY <1>1, <1>2
<1>3. ASSUME NEW w \in Workers, IndexFileStep(w)
      PROVE  faults' = faults \/ \E k : Fault(k)
  BY <1>3 DEF IndexFileStep, WorkflowStops, OpenStaged, Parse, Save, SaveFails, IndexStarts, IndexReturns,
              Unindexed, Unsave, RemoveStaged, Breaks
<1>4. ASSUME NEW w \in Workers, ReindexTaskStep(w) \/ ContextDone(w) \/ Report(w)
      PROVE  faults' = faults \/ \E k : Fault(k)
  BY <1>4 DEF ReindexTaskStep, ReindexStops, ReindexCounts, ReindexQueries, ReindexNext, ReindexReturns,
              ContextDone, Report
<1>5. ASSUME NEW w \in Workers, CleanupTaskStep(w)
      PROVE  faults' = faults \/ \E k : Fault(k)
  BY <1>5 DEF CleanupTaskStep, CleanupFails, CleanupListsOrphans, CleanupDropsOrphans, CleanupListsSections,
              CleanupChecksSections, CleanupSweeps, CleanupSwept, CleanupReadsReferences, CleanupListsBlobs,
              CleanupCollects, Breaks
<1>6. ASSUME NEW t \in Tasks, Submit(t) \/ Resume(t) \/ Cancel(t) \/ \E w \in Workers : Begin(w, t)
      PROVE  faults' = faults \/ \E k : Fault(k)
  BY <1>6 DEF Submit, Resume, Cancel, Begin
<1>7. ASSUME NEW s \in Sources, RequestStep(s)
      PROVE  faults' = faults \/ \E k : Fault(k)
  BY <1>7 DEF RequestStep, DeletionStarts, DeletionStep, DeletionErased, DeletionEnds,
              MoveStarts, MoveStep, MoveReads, MoveErased, MoveIndexed
<1>8. ASSUME NEW c \in Callers, PipelineStep(c)
      PROVE  faults' = faults \/ \E k : Fault(k)
  BY <1>8 DEF PipelineStep, LegErases, LegWrites, LegFails, LegStops
<1>9. Crash \/ DeleteCollection => \E k : Fault(k)
  BY DEF Crash, DeleteCollection
<1> QED
  BY <1>3, <1>4, <1>5, <1>6, <1>7, <1>8, <1>9 DEF Next, HandlerStep, RequestStep

\* Tasks, staged files and contexts.
LEMMA TasksNext ==
    ASSUME TasksTyped, Next
    PROVE  TasksTyped'
<1>1. faults' \in 0 .. MaxFaults
  BY FaultsNext
<1>2. /\ status' \in [Tasks -> {"absent", "pending", "running", "succeeded", "failed"}]
      /\ executors' \in [Tasks -> SUBSET Workers]
  <2> USE DEF TasksTyped
  <2>1. CASE UNCHANGED runnerVars
    BY <2>1 DEF runnerVars
  <2>2. ASSUME NEW t \in Tasks, Submit(t) \/ Resume(t) \/ Cancel(t) \/ \E w \in Workers : Begin(w, t)
        PROVE  <1>2!1 /\ <1>2!2
    BY <2>2 DEF Submit, Resume, Cancel, Begin, Runner!Submit, Runner!Requeue, Runner!Abort, Runner!Take
  <2>3. ASSUME NEW w \in Workers, Report(w)
        PROVE  <1>2!1 /\ <1>2!2
    BY <2>3 DEF Report, Runner!End, Runner!Leave
  <2>4. CASE Crash
    BY <2>4 DEF Crash, Runner!Leave
  <2> QED
    BY <2>1, <2>2, <2>3, <2>4, TaskSteps
<1>3. staged' \subseteq Tasks /\ canceled' \subseteq Workers
  <2> USE DEF TasksTyped
  <2>1. ASSUME NEW w \in Workers, IndexFileStep(w)
        PROVE  <1>3!1 /\ <1>3!2
    BY <2>1 DEF IndexFileStep, WorkflowStops, OpenStaged, Parse, Save, SaveFails, IndexStarts, IndexReturns,
                Unindexed, Unsave, RemoveStaged
  <2>2. ASSUME NEW w \in Workers, ReindexTaskStep(w) \/ ContextDone(w) \/ Report(w)
        PROVE  <1>3!1 /\ <1>3!2
    BY <2>2 DEF ReindexTaskStep, ReindexStops, ReindexCounts, ReindexQueries, ReindexNext, ReindexReturns,
                ContextDone, Report
  <2>3. ASSUME NEW w \in Workers, CleanupTaskStep(w)
        PROVE  <1>3!1 /\ <1>3!2
    BY <2>3 DEF CleanupTaskStep, CleanupFails, CleanupListsOrphans, CleanupDropsOrphans,
                CleanupListsSections, CleanupChecksSections, CleanupSweeps, CleanupSwept,
                CleanupReadsReferences, CleanupListsBlobs, CleanupCollects
  <2>4. ASSUME NEW t \in Tasks, Submit(t) \/ Resume(t) \/ Cancel(t) \/ \E w \in Workers : Begin(w, t)
        PROVE  <1>3!1 /\ <1>3!2
    BY <2>4 DEF Submit, Resume, Cancel, Begin
  <2>5. ASSUME NEW s \in Sources, RequestStep(s)
        PROVE  <1>3!1 /\ <1>3!2
    BY <2>5 DEF RequestStep, DeletionStarts, DeletionStep, DeletionErased, DeletionEnds,
              MoveStarts, MoveStep, MoveReads, MoveErased, MoveIndexed
  <2>6. (\E c \in Callers : PipelineStep(c)) \/ Crash \/ DeleteCollection => <1>3!1 /\ <1>3!2
    BY DEF PipelineStep, Crash, DeleteCollection
  <2> QED
    BY <2>1, <2>2, <2>3, <2>4, <2>5, <2>6 DEF Next, HandlerStep, RequestStep
<1> QED
  BY <1>1, <1>2, <1>3 DEF TasksTyped

(* The calls of the pipeline. *)

\* A caller starts a call, or leaves one; the other calls go on.
Calls(c, op, src, D, step) ==
    /\ CallTyped'
    /\ \A b \in Callers \ {c} : call'[b] = call[b]
    /\ call'[c].op = op /\ call'[c].src = src /\ call'[c].docs = D
    /\ \A l \in Legs : call'[c].leg[l] = step

\* The fields of a call, one by one.
LEMMA CallFields ==
    ASSUME NEW r \in Call
    PROVE  /\ r.op \in {"none", "index", "erase", "sweep"} /\ r.src \in Sources \union {None}
           /\ r.docs \in SUBSET Documents /\ r.leg \in [Legs -> LegStep]
  BY DEF Call

\* A call starts with every leg to do.
LEMMA CallStarts ==
    ASSUME CallTyped, NEW c \in Callers
    PROVE  /\ \A d \in Documents : CallIndex(c, d) => Calls(c, "index", SourceOf(d), {d}, "todo")
           /\ \A s \in Sources : CallErase(c, s) => Calls(c, "erase", s, {}, "todo")
           /\ \A D \in SUBSET Documents : CallSweep(c, D) => Calls(c, "sweep", None, D, "todo")
<1>1. ASSUME NEW op \in {"index", "erase", "sweep"}, NEW src \in Sources \union {None},
             NEW D \in SUBSET Documents, call' = [call EXCEPT ![c] = Calling(op, src, D)]
      PROVE  Calls(c, op, src, D, "todo")
  <2>1. [l \in Legs |-> "todo"] \in [Legs -> LegStep]
    BY DEF LegStep
  <2>2. Calling(op, src, D) \in Call
    BY <2>1 DEF Calling, Call
  <2>3. /\ Calling(op, src, D).op = op /\ Calling(op, src, D).src = src /\ Calling(op, src, D).docs = D
        /\ \A l \in Legs : Calling(op, src, D).leg[l] = "todo"
    BY DEF Calling
  <2> QED
    BY <1>1, <2>2, <2>3 DEF Calls, CallTyped
<1>2. \A d \in Documents : SourceOf(d) \in Sources
  BY IngestAssumption DEF SourceOf, Documents
<1> QED
  BY <1>1, <1>2 DEF CallIndex, CallErase, CallSweep

\* A call that has returned is no call.
LEMMA CallEnds ==
    ASSUME CallTyped, NEW c \in Callers, EndCall(c)
    PROVE  Calls(c, "none", None, {}, "done")
<1>1. [l \in Legs |-> "done"] \in [Legs -> LegStep]
  BY DEF LegStep
<1>2. NoCall \in Call
  BY <1>1 DEF NoCall, Call
<1>3. /\ NoCall.op = "none" /\ NoCall.src = None /\ NoCall.docs = {}
      /\ \A l \in Legs : NoCall.leg[l] = "done"
  BY DEF NoCall
<1> QED
  BY <1>2, <1>3 DEF EndCall, Calls, CallTyped

\* One leg of a call goes on, from a step to another; the leg then holds the documents.
LegGoes(c, l, before, after, D) ==
    /\ CallTyped' /\ LegsTyped'
    /\ \A b \in Callers \ {c} : call'[b] = call[b]
    /\ call'[c].op = call[c].op /\ call'[c].src = call[c].src /\ call'[c].docs = call[c].docs
    /\ \A k \in Legs \ {l} : call'[c].leg[k] = call[c].leg[k] /\ legs'[k] = legs[k]
    /\ call[c].op # "none"
    /\ call[c].leg[l] = before /\ call'[c].leg[l] = after
    /\ legs'[l] = D

\* A change of one leg of one call is a step of that leg.
LEMMA LegGoesOn ==
    ASSUME CallTyped, LegsTyped, NEW c \in Callers, NEW l \in Legs, NEW after \in {"erased", "done", "failed"},
           call[c].op # "none", NEW D \in SUBSET Documents,
           call' = [call EXCEPT ![c].leg[l] = after], legs' = [legs EXCEPT ![l] = D]
    PROVE  LegGoes(c, l, call[c].leg[l], after, D)
<1>1. /\ call' \in [Callers -> Call]
      /\ \A b \in Callers \ {c} : call'[b] = call[b]
      /\ call'[c].op = call[c].op /\ call'[c].src = call[c].src /\ call'[c].docs = call[c].docs
      /\ call'[c].leg = [call[c].leg EXCEPT ![l] = after]
  <2> DEFINE m == [call[c] EXCEPT !.leg = [call[c].leg EXCEPT ![l] = after]]
  <2>1. call \in [Callers -> Call] /\ call[c] \in Call
    BY DEF CallTyped
  <2>2. [call[c].leg EXCEPT ![l] = after] \in [Legs -> LegStep]
    BY <2>1 DEF Call, LegStep
  <2>3. m \in Call
    BY <2>1, <2>2 DEF Call
  <2>4. m.op = call[c].op /\ m.src = call[c].src /\ m.docs = call[c].docs
    BY <2>1 DEF Call
  <2>5. m.leg = [call[c].leg EXCEPT ![l] = after]
    BY <2>1 DEF Call
  <2>6. call' = [call EXCEPT ![c] = m]
    OBVIOUS
  <2> HIDE DEF m
  <2> QED
    BY <2>1, <2>3, <2>4, <2>5, <2>6
<1>2. call[c].leg \in [Legs -> LegStep]
  BY CallFields DEF CallTyped
<1> QED
  BY <1>1, <1>2 DEF LegGoes, CallTyped, LegsTyped

\* What a step of the pipeline does to the leg it is for: a write is an erasure and
\* then the documents, and it fails for a fault of its own or after another leg.
LEMMA PipelineMoves ==
    ASSUME CallTyped, LegsTyped, NEW c \in Callers, PipelineStep(c)
    PROVE  \E l \in Legs :
              \/ LegGoes(c, l, "todo", IF call[c].op = "index" THEN "erased" ELSE "done",
                         IF call[c].op = "sweep" THEN legs[l] \ call[c].docs
                         ELSE {d \in legs[l] : SourceOf(d) # call[c].src})
              \/ LegGoes(c, l, "erased", "done", legs[l] \union call[c].docs)
              \/ /\ \/ LegGoes(c, l, "todo", "failed", legs[l])
                    \/ LegGoes(c, l, "erased", "failed", legs[l])
                 /\ \/ Fault("leg")
                    \/ call[c].op = "index" /\ (c \in canceled \/ \E k \in Legs : call[c].leg[k] = "failed")
<1>1. PICK l \in Legs : \/ LegErases(c, l) \/ LegWrites(c, l) \/ LegFails(c, l)
                        \/ LegStops(c, l, c \in canceled)
  BY DEF PipelineStep
<1>2. legs[l] \in SUBSET Documents /\ call[c].docs \in SUBSET Documents /\ call[c].leg[l] \in LegStep
  BY CallFields DEF CallTyped, LegsTyped
<1>3. call[c].leg[l] \in {"todo", "erased"} => call[c].op # "none"
  BY DEF CallTyped
<1>4. [legs EXCEPT ![l] = legs[l]] = legs
  BY DEF LegsTyped
<1>5. CASE LegErases(c, l)
  <2> DEFINE D == IF call[c].op = "sweep" THEN legs[l] \ call[c].docs
                  ELSE {d \in legs[l] : SourceOf(d) # call[c].src}
             after == IF call[c].op = "index" THEN "erased" ELSE "done"
  <2>1. D \in SUBSET Documents /\ after \in {"erased", "done", "failed"}
    BY <1>2
  <2>2. call' = [call EXCEPT ![c].leg[l] = after] /\ legs' = [legs EXCEPT ![l] = D]
    BY <1>5 DEF LegErases
  <2>3. call[c].op # "none" /\ call[c].leg[l] = "todo"
    BY <1>5 DEF LegErases
  <2> HIDE DEF D, after
  <2>4. LegGoes(c, l, "todo", after, D)
    BY <2>1, <2>2, <2>3, LegGoesOn
  <2> QED
    BY <2>4 DEF D, after
<1>6. CASE LegWrites(c, l)
  <2>1. LegGoes(c, l, "erased", "done", legs[l] \union call[c].docs)
    BY <1>2, <1>3, <1>6, LegGoesOn DEF LegWrites
  <2> QED
    BY <2>1
<1>7. CASE LegFails(c, l) \/ LegStops(c, l, c \in canceled)
  <2>1. call' = [call EXCEPT ![c].leg[l] = "failed"] /\ legs' = [legs EXCEPT ![l] = legs[l]]
    BY <1>4, <1>7 DEF LegFails, LegStops
  <2>2. call[c].leg[l] \in {"todo", "erased"}
    BY <1>7 DEF LegFails, LegStops
  <2>3. LegGoes(c, l, call[c].leg[l], "failed", legs[l])
    BY <1>2, <1>3, <2>1, <2>2, LegGoesOn
  <2>4. \/ Fault("leg")
        \/ call[c].op = "index" /\ (c \in canceled \/ \E k \in Legs : call[c].leg[k] = "failed")
    BY <1>7 DEF LegFails, LegStops
  <2> QED
    BY <2>2, <2>3, <2>4
<1> QED
  BY <1>1, <1>5, <1>6, <1>7
-----------------------------------------------------------------------------
(* Jobs. *)

\* A step of a handler: its worker goes on among the steps of the handler, or
\* is about to report.
Advances(w, S) ==
    /\ JobTyped'
    /\ \A u \in Workers \ {w} : job'[u] = job[u]
    /\ job'[w].task = job[w].task
    /\ job[w].step \in S
    /\ job'[w].step \in S \union {"report"}

\* What the store and the legs are sets of.
LEMMA StoreSubsets ==
    ASSUME BaseInv
    PROVE  /\ saves \in Nat /\ docs \subseteq Documents
           /\ IsFiniteSet(orphans) /\ orphans \subseteq Documents /\ blobs \subseteq Hashes
           /\ Referenced \subseteq Hashes /\ \A l \in Legs : legs[l] \subseteq Documents
<1>1. Referenced \subseteq Hashes
  BY IngestAssumption DEF BaseInv, StoreTyped, Referenced, BlobsOf, Documents
<1>2. IsFiniteSet(orphans)
  BY FS_Subset DEF BaseInv, StoreTyped
<1> QED
  BY <1>1, <1>2 DEF BaseInv, StoreTyped, LegsTyped

\* A step of a handler stays in that handler, or comes to the report.
LEMMA HandlerAdvances ==
    ASSUME BaseInv, NEW w \in Workers
    PROVE  /\ IndexFileStep(w) => job[w].task \in Tasks /\ Advances(w, IndexStep)
           /\ ReindexTaskStep(w) => job[w].task \in Tasks /\ Advances(w, ReindexStep)
           /\ CleanupTaskStep(w) => job[w].task \in Tasks /\ Advances(w, CleanupStep)
<1>0. /\ JobTyped /\ saves \in Nat /\ docs \subseteq Documents
      /\ IsFiniteSet(orphans) /\ orphans \subseteq Documents /\ blobs \subseteq Hashes
      /\ Referenced \subseteq Hashes /\ \A l \in Legs : legs[l] \subseteq Documents
  BY StoreSubsets DEF BaseInv
<1>1. /\ IndexFileStep(w) => job[w].step \in IndexStep
      /\ ReindexTaskStep(w) => job[w].step \in ReindexStep
      /\ CleanupTaskStep(w) => job[w].step \in CleanupStep
  <2>1. IndexFileStep(w) => job[w].step \in IndexStep
    BY DEF IndexFileStep, WorkflowStops, OpenStaged, Parse, Save, SaveFails, IndexStarts, IndexReturns,
           Unindexed, Unsave, RemoveStaged, At, IndexStep
  <2>2. ReindexTaskStep(w) => job[w].step \in ReindexStep
    BY DEF ReindexTaskStep, ReindexStops, ReindexCounts, ReindexQueries, ReindexNext, ReindexReturns, At,
           ReindexStep
  <2>3. CleanupTaskStep(w) => job[w].step \in CleanupStep
    BY DEF CleanupTaskStep, CleanupFails, CleanupListsOrphans, CleanupDropsOrphans, CleanupListsSections,
           CleanupChecksSections, CleanupSweeps, CleanupSwept, CleanupReadsReferences, CleanupListsBlobs,
           CleanupCollects, At, CleanupStep
  <2> QED
    BY <2>1, <2>2, <2>3
<1>2. job[w].step # "idle" => job[w].task \in Tasks
  BY JobFields DEF BaseInv, JobTyped, JobsOfKind
<1>3. job[w].step \in IndexStep \union ReindexStep \union CleanupStep => job[w].task \in Tasks
  BY <1>2, StepsApart
<1>4. ASSUME NEW s, NEW r, NEW D, NEW H, Moves(w, s, r, D, H), NEW S, s \in S \union {"report"},
             job[w].step \in S
      PROVE  Advances(w, S)
  BY <1>4 DEF Moves, Advances
<1>5. ASSUME IndexFileStep(w)
      PROVE  Advances(w, IndexStep)
  <2>1. job[w].task \in Tasks /\ job[w].step \in IndexStep
    BY <1>1, <1>3, <1>5
  <2>2. \E s \in {"open", "parse", "save", "index", "unindex", "unsave", "remove", "report"} : \E r, D, H :
           Moves(w, s, r, D, H)
    BY <1>0, <1>5, <2>1, IndexMoves DEF IndexFileStep
  <2>3. {"open", "parse", "save", "index", "unindex", "unsave", "remove", "report"}
            \subseteq IndexStep \union {"report"}
    BY DEF IndexStep
  <2> QED
    BY <1>4, <2>1, <2>2, <2>3
<1>6. ASSUME ReindexTaskStep(w)
      PROVE  Advances(w, ReindexStep)
  <2>1. job[w].step \in ReindexStep
    BY <1>1, <1>6
  <2>2. \E s \in {"count", "page", "next", "each", "report"} : \E r, D, H : Moves(w, s, r, D, H)
    BY <1>0, <1>6, ReindexMoves DEF ReindexTaskStep
  <2>3. {"count", "page", "next", "each", "report"} \subseteq ReindexStep \union {"report"}
    BY DEF ReindexStep
  <2> QED
    BY <1>4, <2>1, <2>2, <2>3
<1>7. ASSUME CleanupTaskStep(w)
      PROVE  Advances(w, CleanupStep)
  <2>1. job[w].step \in CleanupStep
    BY <1>1, <1>7
  <2>2. \E s \in {"orphans", "drop", "list", "check", "sweep", "refs", "blobs", "collect", "report"} : \E r, D, H :
           Moves(w, s, r, D, H)
    <3>1. CleanupListsOrphans(w) => \E s \in {"drop", "list", "orphans"} : \E r, D, H : Moves(w, s, r, D, H)
      BY <1>0, CleanupMoves
    <3>2. CleanupDropsOrphans(w) \/ CleanupChecksSections(w) \/ CleanupSweeps(w) =>
             \E s \in {"orphans", "list", "sweep", "refs"} : \E r, D, H : Moves(w, s, r, D, H)
      BY <1>0, CleanupMoves
    <3>3. CleanupFails(w) \/ CleanupListsSections(w) \/ CleanupSwept(w) =>
             \E s \in {"report", "check", "refs"} : \E r, D, H : Moves(w, s, r, D, H)
      BY <1>0, CleanupMoves
    <3>4. CleanupReadsReferences(w) \/ CleanupListsBlobs(w) \/ CleanupCollects(w) =>
             \E s \in {"blobs", "collect", "report"} : \E r, D, H : Moves(w, s, r, D, H)
      BY <1>0, CleanupMoves
    <3> QED
      BY <1>7, <3>1, <3>2, <3>3, <3>4 DEF CleanupTaskStep
  <2>3. {"orphans", "drop", "list", "check", "sweep", "refs", "blobs", "collect", "report"}
            \subseteq CleanupStep \union {"report"}
    BY DEF CleanupStep
  <2> QED
    BY <1>4, <2>1, <2>2, <2>3
<1> QED
  BY <1>1, <1>3, <1>5, <1>6, <1>7

\* A worker takes a task, or is done with it.
LEMMA WorkerTakes ==
    ASSUME JobTyped, NEW w \in Workers, NEW t \in Tasks, Begin(w, t)
    PROVE  /\ JobTyped'
           /\ \A u \in Workers \ {w} : job'[u] = job[u]
           /\ job[w].step = "idle"
           /\ job'[w].task = t /\ job'[w].result = "ok" /\ job'[w].todo = {} /\ job'[w].hashes = {}
           /\ KindOf[t] = "index" => job'[w].step = "open"
           /\ KindOf[t] = "reindex" => job'[w].step = "count"
           /\ KindOf[t] = "cleanup" => job'[w].step = "orphans"
<1> DEFINE step == CASE KindOf[t] = "index" -> "open" [] KindOf[t] = "reindex" -> "count"
                     [] KindOf[t] = "cleanup" -> "orphans"
           j == [Idle EXCEPT !.task = t, !.step = step]
<1>1. KindOf[t] \in {"index", "cleanup", "reindex"}
  BY IngestAssumption
<1>2. /\ step \in {"open", "count", "orphans"}
      /\ KindOf[t] = "index" => step = "open"
      /\ KindOf[t] = "reindex" => step = "count"
      /\ KindOf[t] = "cleanup" => step = "orphans"
  BY <1>1
<1>3. job' = [job EXCEPT ![w] = j]
  BY DEF Begin
<1> HIDE DEF step
<1>4. /\ j \in Job /\ j.task = t /\ j.step = step /\ j.result = "ok" /\ j.todo = {} /\ j.hashes = {}
  BY <1>2 DEF Idle, Job, IndexStep, ReindexStep, CleanupStep
<1> HIDE DEF j
<1> QED
  BY <1>2, <1>3, <1>4 DEF JobTyped, Begin, At

\* A worker that reports, or whose process crashes, is idle.
LEMMA WorkerIdles ==
    ASSUME JobTyped
    PROVE  /\ \A w \in Workers : Report(w) => /\ JobTyped' /\ job[w].step = "report"
                                              /\ job' = [job EXCEPT ![w] = Idle]
           /\ Crash => JobTyped' /\ \A w \in Workers : job'[w] = Idle
           /\ Idle \in Job /\ Idle.task = None /\ Idle.step = "idle" /\ Idle.todo = {} /\ Idle.hashes = {}
<1>1. Idle \in Job /\ Idle.task = None /\ Idle.step = "idle" /\ Idle.todo = {} /\ Idle.hashes = {}
  BY DEF Idle, Job
<1> QED
  BY <1>1 DEF Report, Crash, At, JobTyped

\* The steps that change jobs.
LEMMA JobSteps ==
    ASSUME Next, ~UNCHANGED job
    PROVE  \/ \E w \in Workers : \/ IndexFileStep(w) \/ ReindexTaskStep(w) \/ CleanupTaskStep(w) \/ Report(w)
                                 \/ \E t \in Tasks : Begin(w, t)
           \/ Crash
<1>1. ASSUME NEW t \in Tasks, Submit(t) \/ Resume(t) \/ Cancel(t)
      PROVE  UNCHANGED job
  BY <1>1 DEF Submit, Resume, Cancel
<1>2. ASSUME NEW s \in Sources, RequestStep(s)
      PROVE  UNCHANGED job
  BY <1>2 DEF RequestStep, DeletionStarts, DeletionStep, DeletionErased, DeletionEnds,
              MoveStarts, MoveStep, MoveReads, MoveErased, MoveIndexed
<1>3. ASSUME \/ \E w \in Workers : ContextDone(w)
             \/ \E c \in Callers : PipelineStep(c)
             \/ DeleteCollection
      PROVE  UNCHANGED job
  BY <1>3 DEF ContextDone, PipelineStep, DeleteCollection
<1> QED
  BY <1>1, <1>2, <1>3 DEF Next, HandlerStep, RequestStep

\* Every step keeps the jobs well formed, each at the steps of its kind of task.
LEMMA JobsNext ==
    ASSUME BaseInv, Next
    PROVE  JobTyped' /\ JobsOfKind'
<1> USE DEF BaseInv
<1>1. CASE UNCHANGED job
  BY <1>1 DEF JobTyped, JobsOfKind
<1>2. ASSUME NEW w \in Workers, IndexFileStep(w) \/ ReindexTaskStep(w) \/ CleanupTaskStep(w)
      PROVE  JobTyped' /\ JobsOfKind'
  BY <1>2, HandlerAdvances, StepsApart, IngestAssumption DEF Advances, JobsOfKind
<1>3. ASSUME NEW w \in Workers, NEW t \in Tasks, Begin(w, t)
      PROVE  JobTyped' /\ JobsOfKind'
  BY <1>3, WorkerTakes, IngestAssumption DEF JobsOfKind, IndexStep, ReindexStep, CleanupStep
<1>4. ASSUME NEW w \in Workers, Report(w)
      PROVE  JobTyped' /\ JobsOfKind'
  BY <1>4, WorkerIdles, StepsApart DEF JobsOfKind, JobTyped
<1>5. CASE Crash
  BY <1>5, WorkerIdles, StepsApart DEF JobsOfKind
<1> QED
  BY <1>1, <1>2, <1>3, <1>4, <1>5, JobSteps
-----------------------------------------------------------------------------
(* Calls and jobs. *)

\* A worker is a caller of the pipeline, and no DeleteBySource.
LEMMA WorkersCall ==
    ASSUME NEW w \in Workers
    PROVE  w \in Callers /\ w \notin Sources
  BY IngestAssumption DEF Callers

\* How the calls change with the steps of a worker.
LEMMA WorkerCalls ==
    ASSUME BaseInv, NEW w \in Workers
    PROVE  /\ IndexStarts(w) => Calls(w, "index", Target[job[w].task], job[w].todo, "todo")
           /\ IndexReturns(w) => IF Succeeds(w) THEN Calls(w, "none", None, {}, "done")
                                 ELSE Calls(w, "erase", Target[job[w].task], {}, "todo")
           /\ Unindexed(w) \/ ReindexReturns(w) \/ CleanupSwept(w) => Calls(w, "none", None, {}, "done")
           /\ ReindexNext(w) => \E d \in job[w].todo : \/ Calls(w, "erase", SourceOf(d), {}, "todo")
                                                       \/ Calls(w, "index", SourceOf(d), {d}, "todo")
           /\ CleanupSweeps(w) => IF job[w].todo = {} THEN UNCHANGED call
                                  ELSE Calls(w, "sweep", None, job[w].todo, "todo")
<1>0. /\ w \in Callers /\ CallTyped /\ CallOfJob(w)
      /\ job[w].todo \in SUBSET Documents
      /\ job[w].step \in {"index", "unindex"} => job[w].task \in Tasks
  BY WorkersCall, JobFields DEF BaseInv, JobTyped, JobsOfKind, CallsOfJobs
<1>1. IndexStarts(w) => Calls(w, "index", Target[job[w].task], job[w].todo, "todo")
  <2> SUFFICES ASSUME IndexStarts(w)
               PROVE  Calls(w, "index", Target[job[w].task], job[w].todo, "todo")
    OBVIOUS
  <2>1. PICK d \in job[w].todo : CallIndex(w, d)
    BY DEF IndexStarts
  <2>2. PICK n \in 1 .. MaxSaves : job[w].todo = {<<job[w].task, n>>}
    BY <1>0 DEF IndexStarts, At, CallOfJob
  <2>3. job[w].todo = {d} /\ SourceOf(d) = Target[job[w].task] /\ d \in Documents
    BY <1>0, <2>2 DEF SourceOf
  <2> QED
    BY <1>0, <2>1, <2>3, CallStarts
<1>2. IndexReturns(w) => IF Succeeds(w) THEN Calls(w, "none", None, {}, "done")
                         ELSE Calls(w, "erase", Target[job[w].task], {}, "todo")
  <2>1. At(w, "index") => Target[job[w].task] \in Sources
    BY <1>0, IngestAssumption DEF At
  <2> QED
    BY <1>0, <2>1, CallStarts, CallEnds DEF IndexReturns
<1>3. Unindexed(w) \/ ReindexReturns(w) \/ CleanupSwept(w) => Calls(w, "none", None, {}, "done")
  BY <1>0, CallEnds DEF Unindexed, ReindexReturns, CleanupSwept
<1>4. ReindexNext(w) => \E d \in job[w].todo : \/ Calls(w, "erase", SourceOf(d), {}, "todo")
                                               \/ Calls(w, "index", SourceOf(d), {d}, "todo")
  <2> SUFFICES ASSUME ReindexNext(w)
               PROVE  \E d \in job[w].todo : \/ Calls(w, "erase", SourceOf(d), {}, "todo")
                                             \/ Calls(w, "index", SourceOf(d), {d}, "todo")
    OBVIOUS
  <2>1. PICK d \in job[w].todo : CallErase(w, SourceOf(d)) \/ CallIndex(w, d)
    BY DEF ReindexNext
  <2>2. d \in Documents /\ SourceOf(d) \in Sources
    BY <1>0, IngestAssumption DEF SourceOf, Documents
  <2> QED
    BY <1>0, <2>1, <2>2, CallStarts
<1>5. CleanupSweeps(w) => IF job[w].todo = {} THEN UNCHANGED call
                          ELSE Calls(w, "sweep", None, job[w].todo, "todo")
  BY <1>0, CallStarts DEF CleanupSweeps
<1> QED
  BY <1>1, <1>2, <1>3, <1>4, <1>5

\* The steps of a worker that change no call and no leg.
LEMMA WorkerCallsNot ==
    ASSUME NEW w \in Workers
    PROVE  /\ IndexFileStep(w) => \/ UNCHANGED <<legs, call>>
                                  \/ IndexStarts(w) \/ IndexReturns(w) \/ Unindexed(w)
           /\ ReindexTaskStep(w) => UNCHANGED <<legs, call>> \/ ReindexNext(w) \/ ReindexReturns(w)
           /\ CleanupTaskStep(w) => UNCHANGED <<legs, call>> \/ CleanupSweeps(w) \/ CleanupSwept(w)
           /\ HandlerStep(w) \/ ContextDone(w) => UNCHANGED <<legs, request, moved>>
<1>1. IndexFileStep(w) =>
         UNCHANGED <<request, moved>> /\ (UNCHANGED <<legs, call>> \/ IndexStarts(w) \/ IndexReturns(w) \/ Unindexed(w))
  BY DEF IndexFileStep, WorkflowStops, OpenStaged, Parse, Save, SaveFails, Unsave, RemoveStaged,
         IndexStarts, IndexReturns, Unindexed
<1>2. ReindexTaskStep(w) =>
         UNCHANGED <<request, moved>> /\ (UNCHANGED <<legs, call>> \/ ReindexNext(w) \/ ReindexReturns(w))
  BY DEF ReindexTaskStep, ReindexStops, ReindexCounts, ReindexQueries, ReindexNext, ReindexReturns
<1>3. CleanupTaskStep(w) =>
         UNCHANGED <<request, moved>> /\ (UNCHANGED <<legs, call>> \/ CleanupSweeps(w) \/ CleanupSwept(w))
  BY DEF CleanupTaskStep, CleanupFails, CleanupListsOrphans, CleanupDropsOrphans, CleanupListsSections,
         CleanupChecksSections, CleanupReadsReferences, CleanupListsBlobs, CleanupCollects, CleanupSweeps,
         CleanupSwept
<1>4. ASSUME \/ IndexStarts(w) \/ IndexReturns(w) \/ Unindexed(w)
             \/ ReindexNext(w) \/ ReindexReturns(w) \/ CleanupSweeps(w) \/ CleanupSwept(w)
      PROVE  UNCHANGED legs
  BY <1>4 DEF IndexStarts, IndexReturns, Unindexed, ReindexNext, ReindexReturns, CleanupSweeps, CleanupSwept
<1>5. Report(w) \/ ContextDone(w) => UNCHANGED <<legs, request, moved>>
  BY DEF Report, ContextDone
<1> QED
  BY <1>1, <1>2, <1>3, <1>4, <1>5 DEF HandlerStep

\* DeleteBySource and SetDocumentCollections.
LEMMA RequestCalls ==
    ASSUME CallTyped, RequestTyped, NEW s \in Sources
    PROVE  /\ DeletionStarts(s) => Calls(s, "erase", s, {}, "todo")
           /\ DeletionErased(s) \/ MoveIndexed(s) => Calls(s, "none", None, {}, "done")
           /\ DeletionEnds(s) \/ MoveStarts(s) => UNCHANGED call
           /\ MoveReads(s) => IF request'[s] = "clear" THEN Calls(s, "erase", s, {}, "todo") ELSE UNCHANGED call
           /\ MoveErased(s) => IF Succeeds(s)
                               THEN \E d \in moved[s] : Calls(s, "index", SourceOf(d), {d}, "todo")
                               ELSE Calls(s, "none", None, {}, "done")
           /\ RequestStep(s) => UNCHANGED <<legs, job>>
<1>1. s \in Callers /\ moved[s] \subseteq Documents
  BY DEF Callers, RequestTyped
<1>2. /\ DeletionStarts(s) => Calls(s, "erase", s, {}, "todo")
      /\ DeletionErased(s) \/ MoveIndexed(s) => Calls(s, "none", None, {}, "done")
      /\ DeletionEnds(s) \/ MoveStarts(s) => UNCHANGED call
  BY <1>1, CallStarts, CallEnds DEF DeletionStarts, DeletionErased, DeletionEnds, MoveIndexed, MoveStarts
<1>3. MoveReads(s) => IF request'[s] = "clear" THEN Calls(s, "erase", s, {}, "todo") ELSE UNCHANGED call
  BY <1>1, CallStarts DEF MoveReads, RequestTyped
<1>4. MoveErased(s) => IF Succeeds(s)
                       THEN \E d \in moved[s] : Calls(s, "index", SourceOf(d), {d}, "todo")
                       ELSE Calls(s, "none", None, {}, "done")
  BY <1>1, CallStarts, CallEnds DEF MoveErased
<1>5. RequestStep(s) => UNCHANGED <<legs, job>>
  BY DEF RequestStep, DeletionStarts, DeletionStep, DeletionErased, DeletionEnds,
         MoveStarts, MoveStep, MoveReads, MoveErased, MoveIndexed
<1> QED
  BY <1>2, <1>3, <1>4, <1>5

\* Such a step is one of the caller named by the source.
LEMMA RequestCaller ==
    ASSUME CallTyped, RequestTyped, NEW s \in Sources, RequestStep(s)
    PROVE  /\ UNCHANGED <<legs, job>>
           /\ \/ UNCHANGED call
              \/ \E op, src, step : Calls(s, op, src, {}, step)
              \/ \E d \in moved[s] : \E op, src, step : Calls(s, op, src, {d}, step)
<1>1. UNCHANGED <<legs, job>>
  BY RequestCalls
<1>2. CASE MoveReads(s)
  BY <1>2, RequestCalls
<1>3. CASE MoveErased(s)
  BY <1>3, RequestCalls
<1> QED
  BY <1>1, <1>2, <1>3, RequestCalls DEF RequestStep, DeletionStep, MoveStep

\* A crash leaves no call.
LEMMA CrashCalls ==
    ASSUME CallTyped, Crash
    PROVE  /\ CallTyped' /\ UNCHANGED legs
           /\ \A c \in Callers : call'[c].op = "none" /\ call'[c].docs = {}
           /\ \A c \in Callers, l \in Legs : call'[c].leg[l] = "done"
<1>1. [l \in Legs |-> "done"] \in [Legs -> LegStep]
  BY DEF LegStep
<1>2. NoCall \in Call /\ NoCall.op = "none" /\ NoCall.docs = {} /\ \A l \in Legs : NoCall.leg[l] = "done"
  BY <1>1 DEF NoCall, Call
<1> QED
  BY <1>2 DEF Crash, CallTyped

\* Every step keeps the calls and the legs well formed.
LEMMA CallsTypedNext ==
    ASSUME BaseInv, Next
    PROVE  CallTyped' /\ LegsTyped'
<1> USE DEF BaseInv
<1>1. CASE UNCHANGED <<legs, call>>
  BY <1>1 DEF CallTyped, LegsTyped
<1>2. ASSUME NEW w \in Workers,
             \/ IndexStarts(w) \/ IndexReturns(w) \/ Unindexed(w)
             \/ ReindexNext(w) \/ ReindexReturns(w) \/ CleanupSweeps(w) \/ CleanupSwept(w)
      PROVE  CallTyped' /\ LegsTyped'
  <2>1. UNCHANGED legs
    BY <1>2 DEF IndexStarts, IndexReturns, Unindexed, ReindexNext, ReindexReturns, CleanupSweeps, CleanupSwept
  <2>2. UNCHANGED call \/ \E op, src, D, step : Calls(w, op, src, D, step)
    BY <1>2, WorkerCalls
  <2> QED
    BY <2>1, <2>2 DEF Calls, CallTyped, LegsTyped
<1>3. ASSUME NEW s \in Sources, Requests(s)
      PROVE  CallTyped' /\ LegsTyped'
  <2>1. RequestStep(s)
    BY <1>3 DEF Requests, RequestStep, DeletionStep
  <2> QED
    BY <2>1, RequestCaller DEF Calls, LegsTyped, CallTyped
<1>4. ASSUME NEW c \in Callers, PipelineStep(c)
      PROVE  CallTyped' /\ LegsTyped'
  <2>1. \E l \in Legs : \E a, b, D : LegGoes(c, l, a, b, D)
    BY <1>4, PipelineMoves
  <2> QED
    BY <2>1 DEF LegGoes
<1>5. CASE Crash
  BY <1>5, CrashCalls DEF LegsTyped
<1> QED
  BY <1>1, <1>2, <1>3, <1>4, <1>5, PipelineSteps

\* What a worker is at, and its call, stay unless the worker takes a step, a leg
\* of its call goes on, or the process stops.
LEMMA OwnSteps ==
    ASSUME BaseInv, Next, NEW w \in Workers
    PROVE  \/ HandlerStep(w) \/ PipelineStep(w) \/ Crash \/ \E t \in Tasks : Begin(w, t)
           \/ job'[w] = job[w] /\ call'[w] = call[w]
<1> USE DEF BaseInv
<1>0. w \in Callers /\ w \notin Sources
  BY WorkersCall
<1>1. ASSUME NEW u \in Workers \ {w}, HandlerStep(u) \/ ContextDone(u) \/ \E t \in Tasks : Begin(u, t)
      PROVE  job'[w] = job[w] /\ call'[w] = call[w]
  <2>1. job'[w] = job[w]
    <3>1. IndexFileStep(u) \/ ReindexTaskStep(u) \/ CleanupTaskStep(u) => job'[w] = job[w]
      BY HandlerAdvances DEF Advances
    <3>2. Report(u) \/ ContextDone(u) \/ (\E t \in Tasks : Begin(u, t)) => job'[w] = job[w]
      BY WorkerTakes DEF Report, ContextDone, JobTyped
    <3> QED
      BY <1>1, <3>1, <3>2 DEF HandlerStep
  <2>2. call'[w] = call[w]
    <3>1. Report(u) \/ ContextDone(u) \/ (\E t \in Tasks : Begin(u, t)) => UNCHANGED call
      BY DEF Report, ContextDone, Begin
    <3>2. \/ IndexStarts(u) \/ IndexReturns(u) \/ Unindexed(u)
          \/ ReindexNext(u) \/ ReindexReturns(u) \/ CleanupSweeps(u) \/ CleanupSwept(u)
          => UNCHANGED call \/ \E op, src, D, step : Calls(u, op, src, D, step)
      BY WorkerCalls
    <3>3. (\E op, src, D, step : Calls(u, op, src, D, step)) => call'[w] = call[w]
      BY <1>0 DEF Calls
    <3> QED
      BY <1>1, <3>1, <3>2, <3>3, WorkerCallsNot DEF HandlerStep
  <2> QED
    BY <2>1, <2>2
<1>2. ASSUME \/ \E t \in Tasks : Submit(t) \/ Resume(t) \/ Cancel(t)
             \/ DeleteCollection
             \/ \E s \in Sources : RequestStep(s)
      PROVE  job'[w] = job[w] /\ call'[w] = call[w]
  <2>1. ASSUME NEW s \in Sources, RequestStep(s)
        PROVE  job'[w] = job[w] /\ call'[w] = call[w]
    BY <1>0, <2>1, RequestCaller DEF Calls
  <2> QED
    BY <1>2, <2>1 DEF Submit, Resume, Cancel, DeleteCollection
<1>3. ASSUME NEW c \in Callers \ {w}, PipelineStep(c)
      PROVE  job'[w] = job[w] /\ call'[w] = call[w]
  <2>1. \E l \in Legs : \E a, b, D : LegGoes(c, l, a, b, D)
    BY <1>3, PipelineMoves
  <2> QED
    BY <1>0, <1>3, <2>1 DEF LegGoes, PipelineStep
<1>4. ContextDone(w) => job'[w] = job[w] /\ call'[w] = call[w]
  BY DEF ContextDone
<1> QED
  BY <1>1, <1>2, <1>3, <1>4 DEF Next, RequestStep

\* The call of a worker remains the one its job waits for.
LEMMA CallOfJobNext ==
    ASSUME BaseInv, Next, NEW w \in Workers
    PROVE  CallOfJob(w)'
<1> USE DEF BaseInv
<1>0. /\ w \in Callers /\ w \notin Sources /\ CallOfJob(w) /\ JobTyped /\ saves \in Nat
      /\ docs \subseteq Documents
  BY WorkersCall DEF CallsOfJobs, StoreTyped
<1>1. ASSUME job'[w] = job[w], call'[w] = call[w]
      PROVE  CallOfJob(w)'
  BY <1>0, <1>1 DEF CallOfJob
<1>2. ASSUME job'[w] = job[w], call'[w].op = call[w].op, call'[w].src = call[w].src, call'[w].docs = call[w].docs
      PROVE  CallOfJob(w)'
  BY <1>0, <1>2 DEF CallOfJob
<1>3. ASSUME IndexFileStep(w)
      PROVE  CallOfJob(w)'
  <2>1. job[w].task \in Tasks
    BY <1>3, HandlerAdvances
  <2>2. ASSUME WorkflowStops(w) \/ OpenStaged(w) \/ Parse(w) \/ SaveFails(w) \/ Unsave(w) \/ RemoveStaged(w)
        PROVE  CallOfJob(w)'
    <3>1. job'[w].step \in {"remove", "parse", "save", "unsave", "report"}
      BY <1>0, <2>1, <2>2, IndexMoves DEF Moves
    <3>2. call[w].op = "none" /\ UNCHANGED call
      BY <1>0, <2>2 DEF WorkflowStops, OpenStaged, Parse, SaveFails, Unsave, RemoveStaged, CallOfJob, At
    <3> QED
      BY <3>1, <3>2 DEF CallOfJob
  <2>3. CASE Save(w)
    <3>1. /\ job'[w].step = "index" /\ job'[w].task = job[w].task
          /\ job'[w].todo = {<<job[w].task, saves + 1>>}
      BY <1>0, <2>1, <2>3, IndexMoves DEF Moves
    <3>2. saves + 1 \in 1 .. MaxSaves
      BY <1>0, <2>3, IngestAssumption DEF Save
    <3>3. call[w].op = "none" /\ UNCHANGED call
      BY <1>0, <2>3 DEF Save, CallOfJob, At
    <3> QED
      BY <3>1, <3>2, <3>3 DEF CallOfJob
  <2>4. CASE IndexStarts(w)
    <3>1. UNCHANGED job /\ job[w].step = "index"
      BY <2>4 DEF IndexStarts, At
    <3>2. call'[w].op = "index" /\ call'[w].src = Target[job[w].task] /\ call'[w].docs = job[w].todo
      BY <2>4, WorkerCalls DEF Calls
    <3> QED
      BY <1>0, <3>1, <3>2 DEF CallOfJob
  <2>5. CASE IndexReturns(w)
    <3>1. \/ job'[w].step = "remove" /\ call'[w].op = "none"
          \/ /\ job'[w].step = "unindex" /\ job'[w].task = job[w].task
             /\ call'[w].op = "erase" /\ call'[w].src = Target[job[w].task]
      BY <1>0, <2>1, <2>5, IndexMoves, WorkerCalls DEF Calls, Moves
    <3> QED
      BY <3>1 DEF CallOfJob
  <2>6. CASE Unindexed(w)
    <3>1. job'[w].step = "unsave" /\ call'[w].op = "none"
      BY <1>0, <2>1, <2>6, IndexMoves, WorkerCalls DEF Calls, Moves
    <3> QED
      BY <3>1 DEF CallOfJob
  <2> QED
    BY <1>3, <2>2, <2>3, <2>4, <2>5, <2>6 DEF IndexFileStep
<1>4. ASSUME ReindexTaskStep(w)
      PROVE  CallOfJob(w)'
  <2>1. ASSUME ReindexStops(w) \/ ReindexCounts(w) \/ ReindexQueries(w)
        PROVE  CallOfJob(w)'
    <3>1. job'[w].step \in {"report", "page", "next"}
      BY <1>0, <2>1, ReindexMoves DEF Moves
    <3>2. call[w].op = "none" /\ UNCHANGED call
      BY <1>0, <2>1 DEF ReindexStops, ReindexCounts, ReindexQueries, CallOfJob, At
    <3> QED
      BY <3>1, <3>2 DEF CallOfJob
  <2>2. CASE ReindexNext(w)
    <3>1. job'[w].step = "each" /\ call'[w].op \in {"index", "erase"}
      BY <1>0, <2>2, ReindexMoves, WorkerCalls DEF Moves, Calls
    <3> QED
      BY <3>1 DEF CallOfJob
  <2>3. CASE ReindexReturns(w)
    <3>1. job'[w].step \in {"next", "page", "report"} /\ call'[w].op = "none"
      BY <1>0, <2>3, ReindexMoves, WorkerCalls DEF Moves, Calls
    <3> QED
      BY <3>1 DEF CallOfJob
  <2> QED
    BY <1>4, <2>1, <2>2, <2>3 DEF ReindexTaskStep
<1>5. ASSUME CleanupTaskStep(w)
      PROVE  CallOfJob(w)'
  <2>0. /\ IsFiniteSet(orphans) /\ orphans \subseteq Documents /\ blobs \subseteq Hashes
        /\ Referenced \subseteq Hashes /\ \A l \in Legs : legs[l] \subseteq Documents
    BY StoreSubsets
  <2>1. ASSUME \/ CleanupFails(w) \/ CleanupListsOrphans(w) \/ CleanupDropsOrphans(w)
               \/ CleanupListsSections(w) \/ CleanupReadsReferences(w) \/ CleanupListsBlobs(w)
               \/ CleanupCollects(w)
        PROVE  CallOfJob(w)'
    <3>1. job'[w].step \in {"report", "drop", "list", "orphans", "check", "blobs", "collect"}
      <4>1. CASE CleanupListsOrphans(w)
        BY <1>0, <2>0, <4>1, CleanupMoves DEF Moves
      <4>2. CASE CleanupDropsOrphans(w)
        BY <1>0, <2>0, <4>2, CleanupMoves DEF Moves
      <4>3. CASE CleanupFails(w) \/ CleanupListsSections(w)
        BY <1>0, <2>0, <4>3, CleanupMoves DEF Moves
      <4>4. CASE CleanupReadsReferences(w) \/ CleanupListsBlobs(w) \/ CleanupCollects(w)
        BY <1>0, <2>0, <4>4, CleanupMoves DEF Moves
      <4> QED
        BY <2>1, <4>1, <4>2, <4>3, <4>4
    <3>2. call[w].op = "none" /\ UNCHANGED call
      BY <1>0, <2>1 DEF CleanupFails, CleanupListsOrphans, CleanupDropsOrphans, CleanupListsSections,
                        CleanupReadsReferences, CleanupListsBlobs, CleanupCollects, CallOfJob, At
    <3> QED
      BY <3>1, <3>2 DEF CallOfJob
  <2>2. CASE CleanupChecksSections(w)
    <3>1. job'[w].step = "sweep" /\ call[w].op = "none" /\ UNCHANGED call
      BY <1>0, <2>0, <2>2, CleanupMoves DEF Moves, CleanupChecksSections, CallOfJob, At
    <3> QED
      BY <3>1 DEF CallOfJob
  <2>3. CASE CleanupSweeps(w)
    <3>1. \/ job'[w].step = "refs" /\ call'[w].op = "none"
          \/ /\ job'[w].step = "sweep" /\ job'[w].todo = job[w].todo
             /\ call'[w].op = "sweep" /\ call'[w].docs = job[w].todo
      BY <1>0, <2>0, <2>3, CleanupMoves, WorkerCalls DEF Moves, Calls, CleanupSweeps
    <3> QED
      BY <3>1 DEF CallOfJob
  <2>4. CASE CleanupSwept(w)
    <3>1. job'[w].step = "refs" /\ call'[w].op = "none"
      BY <1>0, <2>0, <2>4, CleanupMoves, WorkerCalls DEF Moves, Calls
    <3> QED
      BY <3>1 DEF CallOfJob
  <2> QED
    BY <1>5, <2>1, <2>2, <2>3, <2>4 DEF CleanupTaskStep
<1>6. ASSUME Report(w) \/ \E t \in Tasks : Begin(w, t)
      PROVE  CallOfJob(w)'
  <2>1. job'[w].step \in {"idle", "open", "count", "orphans"}
    BY <1>6, WorkerIdles, WorkerTakes, IngestAssumption DEF JobTyped
  <2>2. call[w].op = "none" /\ UNCHANGED call
    BY <1>0, <1>6 DEF Report, Begin, CallOfJob, At
  <2> QED
    BY <2>1, <2>2 DEF CallOfJob
<1>7. CASE PipelineStep(w)
  <2>1. UNCHANGED job
    BY <1>7 DEF PipelineStep
  <2>2. \E l \in Legs : \E a, b, D : LegGoes(w, l, a, b, D)
    BY <1>0, <1>7, PipelineMoves
  <2>3. call'[w].op = call[w].op /\ call'[w].src = call[w].src /\ call'[w].docs = call[w].docs
    BY <1>0, <2>2 DEF LegGoes
  <2> QED
    BY <1>2, <2>1, <2>3
<1>8. CASE Crash
  BY <1>0, <1>8, WorkerIdles, CrashCalls DEF CallOfJob
<1> QED
  BY <1>1, <1>3, <1>4, <1>5, <1>6, <1>7, <1>8, OwnSteps DEF HandlerStep


\* Every step keeps the call made for a source its own.
LEMMA CallOfRequestNext ==
    ASSUME BaseInv, Next, NEW s \in Sources
    PROVE  CallOfRequest(s)'
<1> USE DEF BaseInv
<1>0. s \in Callers /\ CallOfRequest(s) /\ RequestTyped /\ CallTyped
  BY DEF Callers, CallsOfJobs
<1>1. ASSUME NEW w \in Workers, HandlerStep(w) \/ ContextDone(w) \/ \E t \in Tasks : Begin(w, t)
      PROVE  UNCHANGED <<request, moved>> /\ call'[s] = call[s]
  <2>1. s # w
    BY WorkersCall
  <2>2. (Report(w) \/ ContextDone(w) \/ \E t \in Tasks : Begin(w, t)) => UNCHANGED <<request, moved, call>>
    BY DEF Report, ContextDone, Begin
  <2>3. HandlerStep(w) => UNCHANGED <<request, moved>>
    BY WorkerCallsNot
  <2>4. ASSUME \/ IndexStarts(w) \/ IndexReturns(w) \/ Unindexed(w)
               \/ ReindexNext(w) \/ ReindexReturns(w) \/ CleanupSweeps(w) \/ CleanupSwept(w)
        PROVE  call'[s] = call[s]
    <3>1. UNCHANGED call \/ \E op, src, D, step : Calls(w, op, src, D, step)
      BY <2>4, WorkerCalls
    <3> QED
      BY <1>0, <2>1, <3>1 DEF Calls
  <2> QED
    BY <1>1, <2>2, <2>3, <2>4, WorkerCallsNot DEF HandlerStep
<1>2. ASSUME NEW r \in Sources, RequestStep(r), r # s
      PROVE  request'[s] = request[s] /\ moved'[s] = moved[s] /\ call'[s] = call[s]
  <2>1. call'[s] = call[s]
    BY <1>0, <1>2, RequestCaller DEF Calls
  <2> QED
    BY <1>2, <2>1 DEF RequestTyped, RequestStep, DeletionStarts, DeletionStep, DeletionErased, DeletionEnds,
                      MoveStarts, MoveStep, MoveReads, MoveErased, MoveIndexed
<1>3. CASE DeletionStarts(s) \/ DeletionErased(s) \/ DeletionEnds(s)
  <2>1. CASE DeletionStarts(s)
    <3>1. /\ s \in Deletable /\ request[s] = "none" /\ request'[s] = "erase" /\ moved' = moved
          /\ Calls(s, "erase", s, {}, "todo")
      BY <1>0, <2>1, RequestCalls DEF DeletionStarts, RequestTyped
    <3> QED
      BY <1>0, <3>1 DEF Calls, CallOfRequest
  <2>2. CASE DeletionErased(s)
    <3>1. /\ request[s] = "erase" /\ Calls(s, "none", None, {}, "done") /\ moved' = moved
          /\ request'[s] \in {"delete", "failed"}
      BY <1>0, <2>2, RequestCalls DEF DeletionErased, RequestTyped
    <3> QED
      BY <1>0, <3>1 DEF Calls, CallOfRequest
  <2>3. CASE DeletionEnds(s)
    <3>1. request[s] = "delete" /\ UNCHANGED <<call, moved>> /\ request'[s] = "done"
      BY <1>0, <2>3, RequestCalls DEF DeletionEnds, RequestTyped
    <3> QED
      BY <1>0, <3>1 DEF CallOfRequest
  <2> QED
    BY <1>3, <2>1, <2>2, <2>3
<1>4. CASE MoveStarts(s)
  <2>1. PICK d \in docs : SourceOf(d) = s /\ moved'[s] = {d}
    BY <1>0, <1>4 DEF MoveStarts, Stored, RequestTyped
  <2>2. request[s] = "none" /\ request'[s] = "read" /\ UNCHANGED call /\ s \in Movable
    BY <1>0, <1>4, RequestCalls DEF MoveStarts, RequestTyped
  <2>3. SourceOf(d)' = s
    BY <2>1 DEF SourceOf
  <2> QED
    BY <1>0, <2>1, <2>2, <2>3 DEF CallOfRequest
<1>5. CASE MoveStep(s)
  <2>0. UNCHANGED moved /\ \A d \in moved[s] : SourceOf(d)' = SourceOf(d)
    BY <1>5 DEF MoveStep, MoveReads, MoveErased, MoveIndexed, SourceOf
  <2>1. CASE MoveReads(s)
    <3>1. request[s] = "read" /\ request'[s] \in {"clear", "failed"}
      BY <1>0, <2>1 DEF MoveReads, RequestTyped
    <3>2. IF request'[s] = "clear" THEN Calls(s, "erase", s, {}, "todo") ELSE UNCHANGED call
      BY <1>0, <2>1, RequestCalls
    <3> QED
      BY <1>0, <2>0, <3>1, <3>2 DEF Calls, CallOfRequest
  <2>2. CASE MoveErased(s)
    <3>1. request[s] = "clear" /\ request'[s] = IF Succeeds(s) THEN "reindex" ELSE "failed"
      BY <1>0, <2>2 DEF MoveErased, RequestTyped
    <3>2. IF Succeeds(s) THEN \E d \in moved[s] : Calls(s, "index", SourceOf(d), {d}, "todo")
                         ELSE Calls(s, "none", None, {}, "done")
      BY <1>0, <2>2, RequestCalls
    <3> QED
      BY <1>0, <2>0, <3>1, <3>2 DEF Calls, CallOfRequest
  <2>3. CASE MoveIndexed(s)
    <3>1. /\ request[s] = "reindex" /\ request'[s] \in {"done", "failed"}
          /\ Calls(s, "none", None, {}, "done")
      BY <1>0, <2>3, RequestCalls DEF MoveIndexed, RequestTyped
    <3> QED
      BY <1>0, <2>0, <3>1 DEF Calls, CallOfRequest
  <2> QED
    BY <1>5, <2>1, <2>2, <2>3 DEF MoveStep
<1>6. ASSUME NEW c \in Callers, PipelineStep(c)
      PROVE  CallOfRequest(s)'
  <2>1. \E l \in Legs : \E a, b, D : LegGoes(c, l, a, b, D)
    BY <1>6, PipelineMoves
  <2>2. /\ call'[s].op = call[s].op /\ call'[s].src = call[s].src /\ call'[s].docs = call[s].docs
        /\ UNCHANGED <<request, moved>>
    BY <1>0, <1>6, <2>1 DEF LegGoes, PipelineStep
  <2> QED
    BY <1>0, <2>2 DEF CallOfRequest, SourceOf
<1>7. CASE Crash
  <2>1. /\ UNCHANGED moved /\ call'[s].op = "none"
        /\ request'[s] = IF request[s] \in InProgress THEN "failed" ELSE request[s]
    BY <1>0, <1>7, CrashCalls DEF Crash
  <2> QED
    BY <1>0, <2>1 DEF CallOfRequest, InProgress, SourceOf
<1>8. ASSUME (\E t \in Tasks : Submit(t) \/ Resume(t) \/ Cancel(t)) \/ DeleteCollection
      PROVE  UNCHANGED <<request, moved, call>>
  BY <1>8 DEF Submit, Resume, Cancel, DeleteCollection
<1>9. request'[s] = request[s] /\ moved'[s] = moved[s] /\ call'[s] = call[s]
      => CallOfRequest(s)'
  BY <1>0 DEF CallOfRequest, SourceOf
<1>10. CASE \E r \in Sources : RequestStep(r)
  BY <1>2, <1>3, <1>4, <1>5, <1>9, <1>10 DEF RequestStep, DeletionStep
<1> QED
  BY <1>1, <1>6, <1>7, <1>8, <1>9, <1>10 DEF Next, RequestStep

\* Every step keeps the calls made for the sources well formed.
LEMMA RequestTypedNext ==
    ASSUME RequestTyped, StoreTyped, Next
    PROVE  RequestTyped'
<1> DEFINE States == {"none", "done", "failed"} \union InProgress
<1>1. ASSUME NEW w \in Workers, HandlerStep(w) \/ ContextDone(w) \/ \E t \in Tasks : Begin(w, t)
      PROVE  UNCHANGED <<request, moved>>
  BY <1>1, WorkerCallsNot DEF Begin
<1>2. ASSUME NEW s \in Sources, RequestStep(s)
      PROVE  RequestTyped'
  <2>1. \E k \in States : request' = [request EXCEPT ![s] = k]
    BY <1>2 DEF RequestStep, DeletionStarts, DeletionStep, DeletionErased, DeletionEnds, InProgress,
                MoveStarts, MoveStep, MoveReads, MoveErased, MoveIndexed
  <2>2. moved' = moved \/ \E d \in docs : moved' = [moved EXCEPT ![s] = {d}]
    BY <1>2 DEF RequestStep, DeletionStarts, DeletionStep, DeletionErased, DeletionEnds, Stored,
                MoveStarts, MoveStep, MoveReads, MoveErased, MoveIndexed
  <2> QED
    BY <2>1, <2>2 DEF RequestTyped, StoreTyped
<1>3. CASE Crash
  BY <1>3 DEF Crash, RequestTyped
<1>4. ASSUME \/ \E t \in Tasks : Submit(t) \/ Resume(t) \/ Cancel(t)
             \/ \E c \in Callers : PipelineStep(c)
             \/ DeleteCollection
      PROVE  UNCHANGED <<request, moved>>
  BY <1>4 DEF Submit, Resume, Cancel, PipelineStep, DeleteCollection
<1> QED
  BY <1>1, <1>2, <1>3, <1>4 DEF Next, RequestStep, RequestTyped

\* What SetDocumentCollections was called for was stored then.
LEMMA MovedGrows ==
    ASSUME BaseInv, Next, NEW s \in Sources
    PROVE  moved[s] \subseteq moved'[s] /\ moved'[s] \subseteq moved[s] \union docs
<1>0. RequestTyped /\ CallOfRequest(s)
  BY DEF BaseInv, CallsOfJobs
<1>1. (\E w \in Workers : HandlerStep(w) \/ ContextDone(w) \/ \E t \in Tasks : Begin(w, t)) => UNCHANGED moved
  BY WorkerCallsNot DEF Begin
<1>2. ASSUME NEW r \in Sources, MoveStarts(r)
      PROVE  moved[s] \subseteq moved'[s] /\ moved'[s] \subseteq moved[s] \union docs
  <2>1. PICK d \in docs : moved' = [moved EXCEPT ![r] = {d}]
    BY <1>2 DEF MoveStarts, Stored
  <2>2. r = s => moved[s] = {}
    BY <1>0, <1>2 DEF MoveStarts, CallOfRequest
  <2> QED
    BY <1>0, <2>1, <2>2 DEF RequestTyped
<1>3. ASSUME \/ \E r \in Sources : DeletionStarts(r) \/ DeletionStep(r) \/ MoveStep(r)
             \/ \E t \in Tasks : Submit(t) \/ Resume(t) \/ Cancel(t)
             \/ \E c \in Callers : PipelineStep(c)
             \/ DeleteCollection \/ Crash
      PROVE  UNCHANGED moved
  BY <1>3 DEF DeletionStarts, DeletionStep, DeletionErased, DeletionEnds, MoveStep, MoveReads, MoveErased,
              MoveIndexed, Submit, Resume, Cancel, PipelineStep, DeleteCollection, Crash
<1> QED
  BY <1>1, <1>2, <1>3 DEF Next

\* What a worker has in hand was in its hand, is stored or indexed, or is new.
LEMMA TodoNext ==
    ASSUME BaseInv, Next, NEW w \in Workers
    PROVE  \/ job'[w].todo \subseteq job[w].todo \union docs \union UNION {legs[l] : l \in Legs}
           \/ \E t \in Tasks : Save(w) /\ job'[w].todo = {<<t, saves + 1>>}
<1> DEFINE Old == job[w].todo \union docs \union UNION {legs[l] : l \in Legs}
<1>0. JobTyped /\ StoreTyped /\ orphans \subseteq docs
  BY DEF BaseInv, StoreTyped
<1>1. CASE UNCHANGED job
  BY <1>1
<1>2. ASSUME NEW u \in Workers \ {w},
             \/ IndexFileStep(u) \/ ReindexTaskStep(u) \/ CleanupTaskStep(u) \/ Report(u)
             \/ \E t \in Tasks : Begin(u, t)
      PROVE  job'[w].todo = job[w].todo
  BY <1>0, <1>2, HandlerAdvances, WorkerTakes DEF Advances, Report, JobTyped
<1>3. CASE IndexFileStep(w)
  BY <1>0, <1>3, StoreSubsets, HandlerAdvances, IndexMoves DEF IndexFileStep, Moves
<1>4. CASE ReindexTaskStep(w)
  <2>1. \/ job'[w].todo = job[w].todo \/ job'[w].todo = Page(job[w].page)
        \/ \E d \in job[w].todo : job'[w].todo = job[w].todo \ {d}
    BY <1>0, <1>4, StoreSubsets, ReindexMoves DEF ReindexTaskStep, Moves
  <2>2. Page(job[w].page) \subseteq docs
    BY DEF Page
  <2> QED
    BY <2>1, <2>2
<1>5. CASE CleanupTaskStep(w)
  <2>1. CASE CleanupListsOrphans(w)
    BY <1>0, <2>1, StoreSubsets, CleanupMoves DEF Moves
  <2>2. CASE CleanupDropsOrphans(w) \/ CleanupChecksSections(w) \/ CleanupSweeps(w)
    BY <1>0, <2>2, StoreSubsets, CleanupMoves DEF Moves, Missing
  <2>3. CASE CleanupFails(w) \/ CleanupListsSections(w) \/ CleanupSwept(w)
    BY <1>0, <2>3, StoreSubsets, CleanupMoves DEF Moves
  <2>4. CASE CleanupReadsReferences(w) \/ CleanupListsBlobs(w) \/ CleanupCollects(w)
    BY <1>0, <2>4, StoreSubsets, CleanupMoves DEF Moves
  <2> QED
    BY <1>5, <2>1, <2>2, <2>3, <2>4 DEF CleanupTaskStep
<1>6. ASSUME Report(w) \/ Crash \/ \E t \in Tasks : Begin(w, t)
      PROVE  job'[w].todo = {}
  BY <1>0, <1>6, WorkerIdles, WorkerTakes DEF JobTyped
<1> QED
  BY <1>1, <1>2, <1>3, <1>4, <1>5, <1>6, JobSteps

\* What a call has in hand its worker had, or SetDocumentCollections.
LEMMA DocsNext ==
    ASSUME BaseInv, Next, NEW c \in Callers
    PROVE  \/ call'[c].docs \subseteq call[c].docs
           \/ c \in Workers /\ call'[c].docs \subseteq job[c].todo
           \/ c \in Sources /\ call'[c].docs \subseteq moved[c]
<1> USE DEF BaseInv
<1>1. ASSUME NEW w \in Workers,
             \/ IndexStarts(w) \/ IndexReturns(w) \/ Unindexed(w)
             \/ ReindexNext(w) \/ ReindexReturns(w) \/ CleanupSweeps(w) \/ CleanupSwept(w)
      PROVE  \/ call'[c].docs \subseteq call[c].docs
             \/ c \in Workers /\ call'[c].docs \subseteq job[c].todo
  BY <1>1, WorkerCalls, WorkersCall DEF Calls
<1>2. ASSUME NEW s \in Sources, Requests(s)
      PROVE  \/ call'[c].docs \subseteq call[c].docs
             \/ c \in Sources /\ call'[c].docs \subseteq moved[c]
  <2>1. RequestStep(s)
    BY <1>2 DEF Requests, RequestStep, DeletionStep
  <2> QED
    BY <2>1, RequestCaller DEF Calls
<1>3. ASSUME NEW b \in Callers, PipelineStep(b)
      PROVE  call'[c].docs \subseteq call[c].docs
  <2>1. \E l \in Legs : \E x, y, D : LegGoes(b, l, x, y, D)
    BY <1>3, PipelineMoves
  <2> QED
    BY <2>1 DEF LegGoes
<1>4. CASE Crash
  BY <1>4, CrashCalls
<1> QED
  BY <1>1, <1>2, <1>3, <1>4, PipelineSteps

\* What a leg gets a call had.
LEMMA LegsNext ==
    ASSUME BaseInv, Next, NEW l \in Legs
    PROVE  \/ legs'[l] \subseteq legs[l]
           \/ \E c \in Callers : legs'[l] \subseteq legs[l] \union call[c].docs
<1> USE DEF BaseInv
<1>1. ASSUME NEW c \in Callers, PipelineStep(c)
      PROVE  legs'[l] \subseteq legs[l] \union call[c].docs
  <2>1. PICK k \in Legs, D \in SUBSET Documents :
           /\ D \subseteq legs[k] \union call[c].docs
           /\ \E x, y : LegGoes(c, k, x, y, D)
    <3>1. legs \in [Legs -> SUBSET Documents] /\ call[c].docs \in SUBSET Documents
      BY CallFields DEF LegsTyped, CallTyped
    <3> QED
      BY <1>1, <3>1, PipelineMoves
  <2> QED
    BY <2>1 DEF LegGoes
<1>2. (\E w \in Workers : HandlerStep(w)) => UNCHANGED legs
  BY WorkerCallsNot
<1>3. (\E s \in Sources : Requests(s)) => UNCHANGED legs
  BY RequestCalls DEF Requests, RequestStep, DeletionStep
<1>4. Crash => UNCHANGED legs
  BY CrashCalls
<1> QED
  BY <1>1, <1>2, <1>3, <1>4, PipelineSteps DEF HandlerStep, IndexFileStep, ReindexTaskStep, CleanupTaskStep

\* What a worker or a call has in hand comes from what is stored or indexed.
LEMMA SeenNext ==
    ASSUME BaseInv, Next
    PROVE  SeenIsSaved'
<1> USE DEF BaseInv
<1>0. /\ StoreGoesOn /\ saves \in Nat /\ saves' \in Nat /\ saves <= saves'
      /\ JobTyped' /\ CallTyped' /\ LegsTyped'
  BY StoreNext, JobsNext, CallsTypedNext DEF StoreGoesOn, StoreTyped
<1>1. \A d \in Documents : d[2] \in Nat
  BY DEF Documents
<1>2. \A d \in Documents : d[2] <= saves => d[2] <= saves'
  BY <1>0, <1>1
<1>3. \A d \in docs' : d[2] <= saves'
  BY <1>0, <1>2, StoreSubsets DEF StoreGoesOn, SeenIsSaved
<1>4. \A w \in Workers : \A d \in job'[w].todo : d[2] <= saves'
  <2> SUFFICES ASSUME NEW w \in Workers
               PROVE  \A d \in job'[w].todo : d[2] <= saves'
    OBVIOUS
  <2> DEFINE Old == job[w].todo \union docs \union UNION {legs[l] : l \in Legs}
  <2>1. Old \subseteq Documents /\ \A d \in Old : d[2] <= saves
    BY JobFields DEF JobTyped, StoreTyped, LegsTyped, SeenIsSaved
  <2>2. CASE job'[w].todo \subseteq Old
    BY <1>2, <2>1, <2>2
  <2>3. CASE \E t \in Tasks : Save(w) /\ job'[w].todo = {<<t, saves + 1>>}
    BY <1>0, <2>3 DEF Save, SaveDocument
  <2>4. job'[w].todo \subseteq Old \/ \E t \in Tasks : Save(w) /\ job'[w].todo = {<<t, saves + 1>>}
    BY TodoNext
  <2> QED
    BY <2>2, <2>3, <2>4
<1>5. \A c \in Callers : \A d \in call'[c].docs : d[2] <= saves'
  <2> SUFFICES ASSUME NEW c \in Callers
               PROVE  \A d \in call'[c].docs : d[2] <= saves'
    OBVIOUS
  <2>1. \/ call'[c].docs \subseteq call[c].docs
        \/ c \in Workers /\ call'[c].docs \subseteq job[c].todo
        \/ c \in Sources /\ call'[c].docs \subseteq moved[c]
    BY DocsNext
  <2>2. call[c].docs \subseteq Documents
    BY CallFields DEF CallTyped
  <2>3. /\ c \in Workers => job[c].todo \subseteq Documents
        /\ c \in Sources => moved[c] \subseteq Documents
    BY JobFields DEF JobTyped, RequestTyped
  <2> QED
    BY <1>2, <2>1, <2>2, <2>3 DEF SeenIsSaved
<1>6. \A l \in Legs : \A d \in legs'[l] : d[2] <= saves'
  <2> SUFFICES ASSUME NEW l \in Legs
               PROVE  \A d \in legs'[l] : d[2] <= saves'
    OBVIOUS
  <2>1. legs'[l] \subseteq legs[l] \/ \E c \in Callers : legs'[l] \subseteq legs[l] \union call[c].docs
    BY LegsNext
  <2>2. legs[l] \subseteq Documents /\ \A c \in Callers : call[c].docs \subseteq Documents
    BY CallFields DEF CallTyped, LegsTyped
  <2> QED
    BY <1>2, <2>1, <2>2 DEF SeenIsSaved
<1>7. \A s \in Sources : \A d \in moved'[s] : d[2] <= saves'
  <2> SUFFICES ASSUME NEW s \in Sources
               PROVE  \A d \in moved'[s] : d[2] <= saves'
    OBVIOUS
  <2>1. moved'[s] \subseteq moved[s] \union docs
    BY MovedGrows
  <2> QED
    BY <1>2, <2>1, StoreSubsets DEF SeenIsSaved, RequestTyped
<1> QED
  BY <1>3, <1>4, <1>5, <1>6, <1>7 DEF SeenIsSaved

\* What every step keeps is true at first.
LEMMA BaseInit == Init => BaseInv
<1> SUFFICES ASSUME Init
             PROVE  BaseInv
  OBVIOUS
<1>1. StoreTyped
  BY FS_EmptySet, IngestAssumption DEF Init, StoreTyped
<1>2. LegsTyped /\ CallTyped
  <2>1. [l \in Legs |-> "done"] \in [Legs -> LegStep]
    BY DEF LegStep
  <2>2. NoCall \in Call /\ NoCall.docs = {} /\ \A l \in Legs : NoCall.leg[l] = "done"
    BY <2>1 DEF NoCall, Call
  <2> QED
    BY <2>2 DEF Init, PipelineInit, LegsTyped, CallTyped
<1>3. TasksTyped /\ RequestTyped
  BY IngestAssumption DEF Init, PipelineInit, Runner!Init, TasksTyped, RequestTyped
<1>4. JobTyped /\ \A w \in Workers : job[w] = Idle
  BY WorkerIdles DEF Init, JobTyped, Idle, Job
<1>5. JobsOfKind
  BY <1>4, StepsApart DEF JobsOfKind, Idle
<1>6. \A c \in Callers : call[c] = NoCall
  BY DEF Init, PipelineInit
<1>7. SeenIsSaved
  BY <1>4, <1>6 DEF Init, PipelineInit, SeenIsSaved, Idle, NoCall
<1>8. CallsOfJobs
  BY <1>4, <1>6 DEF Init, CallsOfJobs, CallOfJob, CallOfRequest, Idle, NoCall, Callers
<1> QED
  BY <1>1, <1>2, <1>3, <1>4, <1>5, <1>7, <1>8 DEF BaseInv

\* What the other proofs rely on is inductive.
LEMMA BaseNext ==
    ASSUME BaseInv, [Next]_vars
    PROVE  BaseInv'
<1>1. CASE UNCHANGED vars
  BY <1>1 DEF vars, storeVars, BaseInv, StoreTyped, LegsTyped, CallTyped, TasksTyped, RequestTyped, JobTyped,
              JobsOfKind, SeenIsSaved, CallsOfJobs, CallOfJob, CallOfRequest
<1>2. CASE Next
  <2>1. CallsOfJobs'
    BY <1>2, CallOfJobNext, CallOfRequestNext DEF CallsOfJobs
  <2>2. StoreTyped' /\ TasksTyped' /\ JobTyped' /\ JobsOfKind' /\ CallTyped' /\ LegsTyped' /\ SeenIsSaved'
    BY <1>2, StoreNext, TasksNext, JobsNext, CallsTypedNext, SeenNext DEF BaseInv
  <2>3. RequestTyped'
    BY <1>2, RequestTypedNext DEF BaseInv
  <2> QED
    BY <2>1, <2>2, <2>3 DEF BaseInv
<1> QED
  BY <1>1, <1>2

\* The state of every component has its type, and one document is stored for
\* each source: a document saved takes the place of the one of its source, in
\* the transaction of SaveDocuments (ingest/gorm/document_store.go).
THEOREM Typed == Spec => []TypeOK
<1>1. BaseInv => TypeOK
  BY DEF BaseInv, StoreTyped, LegsTyped, CallTyped, TasksTyped, RequestTyped, JobTyped, TypeOK
<1> QED
  BY <1>1, BaseInit, BaseNext, PTL DEF Spec
-----------------------------------------------------------------------------
(* CleanupIndex removes what is gone, whatever is indexed meanwhile. *)

\* The documents a worker is about to sweep are not stored.
SweepInv == \A w \in Workers : job[w].step = "sweep" => job[w].todo \intersect docs = {}

\* The documents a worker is about to drop are in no collection, if they are
\* stored, or SetDocumentCollections was called for them.
DropInv ==
    \A w \in Workers : job[w].step \in {"orphans", "drop"}
                       => job[w].todo \intersect docs \subseteq orphans \union Moved

\* Where the documents to drop or to sweep come from.
LEMMA CleanupTodo ==
    ASSUME BaseInv, Next, NEW w \in Workers
    PROVE  /\ job'[w].step = "sweep" =>
                \/ job[w].step = "sweep" /\ job'[w].todo = job[w].todo
                \/ UNCHANGED docs /\ job'[w].todo \intersect docs = {}
           /\ job'[w].step \in {"orphans", "drop"} =>
                \/ job[w].step \in {"orphans", "drop"} /\ job'[w].todo \subseteq job[w].todo \union orphans
                \/ job'[w].todo = {}
<1> DEFINE Goal == /\ job'[w].step = "sweep" =>
                        \/ job[w].step = "sweep" /\ job'[w].todo = job[w].todo
                        \/ UNCHANGED docs /\ job'[w].todo \intersect docs = {}
                   /\ job'[w].step \in {"orphans", "drop"} =>
                        \/ job[w].step \in {"orphans", "drop"} /\ job'[w].todo \subseteq job[w].todo \union orphans
                        \/ job'[w].todo = {}
<1>0. JobTyped
  BY DEF BaseInv
<1>1. CASE job'[w] = job[w]
  BY <1>1
<1>2. ASSUME NEW u \in Workers \ {w},
             \/ IndexFileStep(u) \/ ReindexTaskStep(u) \/ CleanupTaskStep(u) \/ Report(u)
             \/ \E t \in Tasks : Begin(u, t)
      PROVE  job'[w] = job[w]
  BY <1>0, <1>2, HandlerAdvances, WorkerTakes DEF Advances, Report, JobTyped
<1>3. ASSUME IndexFileStep(w) \/ ReindexTaskStep(w)
      PROVE  Goal
  <2>1. job'[w].step \in IndexStep \union ReindexStep \union {"report"}
    BY <1>3, HandlerAdvances DEF Advances
  <2> QED
    BY <2>1 DEF IndexStep, ReindexStep
<1>4. ASSUME CleanupTaskStep(w)
      PROVE  Goal
  <2>1. CASE CleanupListsOrphans(w)
    <3>1. \E found \in SUBSET orphans, s \in {"drop", "list", "orphans"} :
             job'[w].step = s /\ job'[w].todo = job[w].todo \union found
      BY <1>0, <2>1, StoreSubsets, CleanupMoves DEF Moves
    <3>2. job[w].step = "orphans"
      BY <2>1 DEF CleanupListsOrphans, At
    <3> QED
      BY <3>1, <3>2
  <2>2. CASE CleanupDropsOrphans(w)
    <3>1. job'[w].step \in {"orphans", "list"} /\ job'[w].todo = {}
      BY <1>0, <2>2, StoreSubsets, CleanupMoves DEF Moves
    <3> QED
      BY <3>1
  <2>3. CASE CleanupChecksSections(w)
    <3>1. job'[w].step = "sweep" /\ job'[w].todo \intersect docs = {} /\ UNCHANGED docs
      BY <1>0, <2>3, StoreSubsets, CleanupMoves DEF Moves, Missing, CleanupChecksSections, storeVars
    <3> QED
      BY <3>1
  <2>4. CASE CleanupSweeps(w)
    <3>1. \/ job'[w].step = "refs"
          \/ job'[w].step = "sweep" /\ job[w].step = "sweep" /\ job'[w].todo = job[w].todo
      BY <1>0, <2>4, StoreSubsets, CleanupMoves DEF Moves, CleanupSweeps, At
    <3> QED
      BY <3>1
  <2>5. CASE CleanupFails(w) \/ CleanupListsSections(w) \/ CleanupSwept(w)
    <3>1. job'[w].step \in {"report", "check", "refs"}
      BY <1>0, <2>5, StoreSubsets, CleanupMoves DEF Moves
    <3> QED
      BY <3>1
  <2>6. CASE CleanupReadsReferences(w) \/ CleanupListsBlobs(w) \/ CleanupCollects(w)
    <3>1. job'[w].step \in {"blobs", "collect", "report"}
      BY <1>0, <2>6, StoreSubsets, CleanupMoves DEF Moves
    <3> QED
      BY <3>1
  <2> QED
    BY <1>4, <2>1, <2>2, <2>3, <2>4, <2>5, <2>6 DEF CleanupTaskStep
<1>5. ASSUME Report(w) \/ Crash \/ \E t \in Tasks : Begin(w, t)
      PROVE  Goal
  <2>1. job'[w].todo = {} /\ job'[w].step # "sweep"
    BY <1>0, <1>5, WorkerIdles, WorkerTakes, IngestAssumption DEF JobTyped
  <2> QED
    BY <2>1
<1> QED
  BY <1>1, <1>2, <1>3, <1>4, <1>5, JobSteps

\* What a cleanup holds stays out of the store, or in no collection, whatever is
\* saved and deleted beside it: a document saved since is another one.
LEMMA SweepNext ==
    ASSUME BaseInv, SweepInv, DropInv, [Next]_vars
    PROVE  SweepInv' /\ DropInv'
<1>1. CASE UNCHANGED vars
  BY <1>1 DEF vars, storeVars, SweepInv, DropInv, Moved
<1>2. CASE Next
  <2>1. StoreGoesOn
    BY <1>2, StoreNext DEF BaseInv
  <2>2. \A w \in Workers : \A d \in job[w].todo : d[2] \in Nat /\ d[2] <= saves
    BY JobFields DEF BaseInv, JobTyped, SeenIsSaved, Documents
  <2>3. saves \in Nat
    BY StoreSubsets
  <2>4. \A w \in Workers : job[w].todo \intersect docs' \subseteq docs
    BY <2>1, <2>2, <2>3 DEF StoreGoesOn
  <2>5. SweepInv'
    BY <1>2, <2>4, CleanupTodo DEF SweepInv
  <2>6. orphans \subseteq docs
    BY DEF BaseInv, StoreTyped
  <2>7. orphans \intersect docs' \subseteq orphans' \union Moved' /\ Moved \subseteq Moved'
    BY <1>2, <2>1, MovedGrows DEF StoreGoesOn, Moved
  <2>8. DropInv'
    <3> SUFFICES ASSUME NEW w \in Workers, job'[w].step \in {"orphans", "drop"},
                        NEW d \in job'[w].todo \intersect docs'
                 PROVE  d \in orphans' \union Moved'
      BY DEF DropInv
    <3>1. /\ job[w].step \in {"orphans", "drop"}
          /\ job'[w].todo \subseteq job[w].todo \union orphans
      BY <1>2, CleanupTodo
    <3>2. d \in orphans \union Moved
      BY <2>4, <3>1 DEF DropInv
    <3> QED
      BY <2>7, <3>2
  <2> QED
    BY <2>5, <2>8
<1> QED
  BY <1>1, <1>2

\* No cleanup holds anything at first.
LEMMA SweepInit == Init => SweepInv /\ DropInv
  BY DEF Init, Idle, SweepInv, DropInv

\* A step of a leg a cleanup sweeps removes no document of the store.
LEMMA SweptIsGone ==
    ASSUME BaseInv, SweepInv, [Next]_vars, NEW w \in Workers, NEW l \in Legs,
           call[w].op = "sweep", call'[w].leg[l] # call[w].leg[l]
    PROVE  (legs[l] \ legs'[l]) \intersect docs = {}
<1> USE DEF BaseInv
<1>1. w \in Callers /\ CallOfJob(w)
  BY WorkersCall DEF CallsOfJobs
<1>2. call[w].docs \intersect docs = {}
  BY <1>1 DEF CallOfJob, SweepInv
<1>3. CASE UNCHANGED legs
  BY <1>3
<1>4. ASSUME NEW c \in Callers, PipelineStep(c)
      PROVE  (legs[l] \ legs'[l]) \intersect docs = {}
  <2>1. c = w
    <3>1. \E k \in Legs : \E x, y, D : LegGoes(c, k, x, y, D)
      BY <1>4, PipelineMoves
    <3> QED
      BY <1>1, <3>1 DEF LegGoes
  <2>2. PICK k \in Legs : \E x, y : \/ LegGoes(w, k, x, y, legs[k] \ call[w].docs)
                                    \/ LegGoes(w, k, x, y, legs[k] \union call[w].docs)
                                    \/ LegGoes(w, k, x, y, legs[k])
    <3>1. LegsTyped /\ CallTyped /\ call[w].op # "index"
      OBVIOUS
    <3> QED
      BY <1>1, <1>4, <2>1, <3>1, PipelineMoves
  <2> QED
    BY <1>2, <2>2 DEF LegGoes
<1>5. CASE UNCHANGED vars
  BY <1>5 DEF vars
<1>6. ASSUME \/ \E u \in Workers : HandlerStep(u) \/ ContextDone(u)
             \/ \E s \in Sources : Requests(s)
             \/ Crash
      PROVE  UNCHANGED legs
  BY <1>6, WorkerCallsNot, RequestCaller, CrashCalls DEF Requests, RequestStep, DeletionStep
<1> QED
  BY <1>3, <1>4, <1>5, <1>6, PipelineSteps DEF HandlerStep, IndexFileStep, ReindexTaskStep, CleanupTaskStep

\* A section cleanupObsoleteSections removes from an index is of a document that
\* is still missing from the store, however long ago SectionsExist said so: a
\* document saved since then is another one.
THEOREM SweptStaysGone == Spec => SweepsOnlyGone
<1>1. BaseInv /\ SweepInv /\ [Next]_vars =>
        [\A w \in Workers, l \in Legs :
            call[w].op = "sweep" /\ call'[w].leg[l] # call[w].leg[l]
            => (legs[l] \ legs'[l]) \intersect docs = {}]_vars
  BY SweptIsGone
<1> QED
  BY <1>1, BaseInit, BaseNext, SweepInit, SweepNext, PTL DEF Spec, SweepsOnlyGone

\* The step in which a cleanup drops documents drops those of no collection, or moved.
LEMMA DroppedIsOrphan ==
    ASSUME BaseInv, DropInv, [Next]_vars, NEW w \in Workers, job[w].step = "drop", job'[w].step # "drop"
    PROVE  docs \ docs' \subseteq orphans \union Moved
<1> USE DEF BaseInv
<1>1. CASE UNCHANGED <<storeVars, blobs>> \/ UNCHANGED vars
  BY <1>1 DEF vars, storeVars
<1>2. CASE CleanupDropsOrphans(w)
  <2>1. docs' = docs \ job[w].todo \/ docs' = docs
    BY <1>2 DEF CleanupDropsOrphans, DeleteDocuments, storeVars
  <2> QED
    BY <2>1 DEF DropInv
<1>3. ASSUME NEW u \in Workers, Parse(u) \/ Save(u) \/ Unsave(u)
      PROVE  FALSE
  <2>1. job[u].step \in IndexStep /\ job'[w].step = "drop"
    BY <1>3, HandlerAdvances DEF Advances, IndexFileStep, IndexStep
  <2> QED
    BY <2>1
<1>4. ASSUME NEW u \in Workers, u # w, CleanupDropsOrphans(u) \/ CleanupCollects(u)
      PROVE  FALSE
  BY <1>4, HandlerAdvances DEF Advances, CleanupTaskStep
<1>5. CASE CleanupCollects(w) \/ DeleteCollection \/ \E s \in Sources : DeletionEnds(s) \/ MoveStarts(s)
  BY <1>5, RequestCalls DEF CleanupCollects, DeleteCollection, RequestStep, DeletionStep, At
<1> QED
  BY <1>1, <1>2, <1>3, <1>4, <1>5, StoreSteps

\* A document that cleanupOrphanedDocuments drops is in no collection then, or
\* SetDocumentCollections was called for it, though the orphans were listed
\* before, batch after batch, and documents were saved and deleted since.
THEOREM DroppedWasInNoCollection == Spec => DropsOrphansOrMoved
<1>1. BaseInv /\ DropInv /\ [Next]_vars =>
        [\A w \in Workers : job[w].step = "drop" /\ job'[w].step # "drop"
                            => docs \ docs' \subseteq orphans \union Moved]_vars
  BY DroppedIsOrphan
<1> QED
  BY <1>1, BaseInit, BaseNext, SweepInit, SweepNext, PTL DEF Spec, DropsOrphansOrMoved
-----------------------------------------------------------------------------
(* A document indexed stays searchable. *)

\* A worker executes a task as long as it is in its handler, alone, and a task
\* that is executed is neither waiting nor a success.
ExecInv ==
    /\ \A t \in Tasks, w \in Workers : w \in executors[t] <=> job[w].task = t
    /\ \A t \in Tasks : \A u, w \in executors[t] : u = w
    /\ \A t \in Tasks : executors[t] # {} => status[t] \in {"running", "failed"}

\* Nobody executes a task at first.
LEMMA ExecInit == Init => ExecInv
  BY IngestAssumption DEF Init, Runner!Init, Idle, ExecInv

\* Every step keeps the executors of a task and the jobs of the workers the same.
LEMMA ExecNext ==
    ASSUME BaseInv, ExecInv, [Next]_vars
    PROVE  ExecInv'
<1> USE DEF BaseInv
<1>0. /\ JobTyped
      /\ status \in [Tasks -> {"absent", "pending", "running", "succeeded", "failed"}]
      /\ executors \in [Tasks -> SUBSET Workers]
  BY DEF TasksTyped
<1>1. CASE UNCHANGED vars
  BY <1>1 DEF vars, ExecInv
<1>2. ASSUME UNCHANGED runnerVars, \A w \in Workers : job'[w].task = job[w].task
      PROVE  ExecInv'
  BY <1>2 DEF runnerVars, ExecInv
<1>3. ASSUME NEW t \in Tasks, NEW w \in Workers, Begin(w, t)
      PROVE  ExecInv'
  <2>1. /\ executors[t] = {} /\ status' = [status EXCEPT ![t] = "running"]
        /\ executors' = [executors EXCEPT ![t] = {w}]
    BY <1>3 DEF Begin, Runner!Take
  <2>2. job[w].task = None /\ job'[w].task = t /\ \A u \in Workers \ {w} : job'[u] = job[u]
    BY <1>0, <1>3, WorkerTakes DEF JobsOfKind
  <2> QED
    BY <1>0, <2>1, <2>2, IngestAssumption DEF ExecInv
<1>4. ASSUME NEW w \in Workers, Report(w)
      PROVE  ExecInv'
  <2>1. job'[w].task = None /\ \A u \in Workers \ {w} : job'[u] = job[u]
    BY <1>0, <1>4, WorkerIdles DEF JobTyped
  <2>2. ASSUME UNCHANGED status, \A t \in Tasks : executors'[t] = executors[t] \ {w}
        PROVE  ExecInv'
    BY <1>0, <2>1, <2>2, IngestAssumption DEF ExecInv
  <2>3. CASE Runner!Leave({w})
    BY <1>0, <2>2, <2>3 DEF Runner!Leave
  <2>4. ASSUME NEW s, Runner!End(job[w].task, w, s)
        PROVE  ExecInv'
    <3> DEFINE t == job[w].task
    <3>1. t \in Tasks
      BY <1>4, JobFields DEF JobTyped, JobsOfKind, Report, At
    <3>2. w \in executors[t] /\ status' = [status EXCEPT ![t] = s] /\ executors' = [executors EXCEPT ![t] = @ \ {w}]
      BY <2>4 DEF Runner!End
    <3>3. executors'[t] = {} /\ \A u \in Tasks \ {t} : executors'[u] = executors[u] /\ status'[u] = status[u]
      BY <1>0, <3>1, <3>2 DEF ExecInv
    <3>4. \A u \in Tasks : u # t => w \notin executors[u]
      BY <3>1 DEF ExecInv
    <3>5. \A v \in Workers : v # w => job[v].task # t
      BY <3>1, <3>2 DEF ExecInv
    <3> HIDE DEF t
    <3> QED
      BY <1>0, <2>1, <3>1, <3>3, <3>4, <3>5, IngestAssumption DEF ExecInv
  <2> QED
    BY <1>4, <2>3, <2>4 DEF Report
<1>5. CASE Crash
  <2>1. UNCHANGED status /\ \A t \in Tasks : executors'[t] = {}
    BY <1>0, <1>5 DEF Crash, Runner!Leave
  <2>2. \A w \in Workers : job'[w].task = None
    BY <1>0, <1>5, WorkerIdles
  <2> QED
    BY <2>1, <2>2, IngestAssumption DEF ExecInv
<1>6. ASSUME NEW t \in Tasks, Submit(t) \/ Resume(t) \/ Cancel(t)
      PROVE  ExecInv'
  <2>1. UNCHANGED <<job, executors>>
    BY <1>6 DEF Submit, Resume, Cancel, Runner!Submit, Runner!Requeue, Runner!Abort
  <2>2. \A u \in Tasks : \/ status'[u] = status[u] \/ executors[u] = {}
                         \/ status'[u] = "failed"
    BY <1>0, <1>6 DEF Submit, Resume, Cancel, Runner!Submit, Runner!Requeue, Runner!Abort, ExecInv
  <2> QED
    BY <2>1, <2>2 DEF ExecInv
<1>7. ASSUME NEW w \in Workers, IndexFileStep(w) \/ ReindexTaskStep(w) \/ CleanupTaskStep(w)
      PROVE  \A u \in Workers : job'[u].task = job[u].task
  BY <1>7, HandlerAdvances DEF Advances
<1> QED
  BY <1>1, <1>2, <1>3, <1>4, <1>5, <1>6, <1>7, TaskSteps, JobSteps

\* A document the task has indexed is stored and in every leg.
Held(t) == \E d \in docs : d[1] = t /\ Searchable(d)

\* How far a worker has come with an IndexFile task: its document is stored while
\* it is indexed, in the legs that are done, and in all of them afterwards.
Progress(t, w) ==
    /\ job[w].step = "index" =>
          /\ job[w].todo \subseteq docs
          /\ call[w].op = "index" => \A l \in Legs : call[w].leg[l] = "done" => job[w].todo \subseteq legs[l]
    /\ job[w].step \in {"remove", "report"} /\ job[w].result = "ok" => Held(t)
    /\ job[w].step \in {"unindex", "unsave"} => job[w].result # "ok"

Served(t) ==
    /\ \A w \in Workers : job[w].task = t => Progress(t, w)
    /\ status[t] = "succeeded" => Held(t)

\* No collection is deleted, and no task indexes everything anew.
OnlyIndexed == "collection" \notin Faults /\ \A t \in Tasks : KindOf[t] # "reindex"

\* Only SetDocumentCollections has put documents in no collection.
NoOrphans == \A d \in orphans : SourceOf(d) \in Movable

\* Only the deletion of a collection and SetDocumentCollections make orphans.
LEMMA OrphansLeave ==
    ASSUME Next, ~DeleteCollection
    PROVE  \A d \in orphans' : d \in orphans \/ SourceOf(d) \in Movable
<1> DEFINE Old == orphans' \subseteq orphans
<1>1. UNCHANGED <<storeVars, blobs>> => Old
  BY DEF storeVars
<1>2. ASSUME \/ \E w \in Workers : \/ Parse(w) \/ Save(w) \/ Unsave(w)
                                   \/ CleanupDropsOrphans(w) \/ CleanupCollects(w)
             \/ \E s \in Sources : DeletionEnds(s)
      PROVE  Old
  BY <1>2 DEF Parse, Save, Unsave, CleanupDropsOrphans, CleanupCollects, DeletionEnds, DeleteBySource,
              DeleteDocuments, SaveDocument, storeVars
<1>3. ASSUME NEW s \in Sources, MoveStarts(s)
      PROVE  \A d \in orphans' : d \in orphans \/ SourceOf(d) \in Movable
  BY <1>3 DEF MoveStarts, Stored
<1> QED
  BY <1>1, <1>2, <1>3, StoreSteps

\* Without the deletion of a collection, only documents that were moved come to be
\* in none.
LEMMA NoOrphansNext ==
    ASSUME OnlyIndexed, NoOrphans, [Next]_vars
    PROVE  NoOrphans'
<1>1. UNCHANGED vars => NoOrphans'
  BY DEF vars, storeVars, NoOrphans
<1>2. ~DeleteCollection
  BY DEF DeleteCollection, Fault, OnlyIndexed
<1> QED
  BY <1>1, <1>2, OrphansLeave DEF NoOrphans

\* Only the workers that execute the task take its document away, to put another
\* in its place or to undo what they did.
LEMMA OnlyItsTask ==
    ASSUME OnlyIndexed, BaseInv, SweepInv, DropInv, NoOrphans, Next,
           NEW t \in Tasks, Sole(t), NEW d \in docs, d[1] = t
    PROVE  \/ d \in docs' /\ \A l \in Legs : d \in legs[l] => d \in legs'[l]
           \/ \E w \in Workers : job[w].task = t /\ (Save(w) \/ Unsave(w))
           \/ \E w \in Workers : job[w].task = t /\ job[w].step \in {"index", "unindex"} /\ PipelineStep(w) /\ UNCHANGED docs
<1> USE DEF BaseInv
<1>0. /\ d \in Documents /\ SourceOf(d) = Target[t] /\ KindOf[t] = "index"
      /\ Target[t] \notin Deletable /\ Target[t] \notin Movable
  BY DEF StoreTyped, SourceOf, Sole
<1>1. \A w \in Workers : job[w].step \in IndexStep /\ Target[job[w].task] = Target[t] => job[w].task = t
  <2>1. \A w \in Workers : job[w].step \in IndexStep => job[w].task \in Tasks /\ KindOf[job[w].task] = "index"
    BY JobFields, StepsApart DEF JobTyped, JobsOfKind
  <2> QED
    BY <2>1 DEF Sole
<1>2. \/ d \in docs'
      \/ \E w \in Workers : job[w].task = t /\ (Save(w) \/ Unsave(w))
  <2>1. CASE UNCHANGED <<storeVars, blobs>>
    BY <2>1 DEF storeVars
  <2>2. ASSUME NEW w \in Workers, Save(w) \/ Unsave(w)
        PROVE  d \in docs' \/ job[w].task = t
    <3>1. job[w].step \in IndexStep
      BY <2>2 DEF Save, Unsave, At, IndexStep
    <3>2. d \in docs' \/ Target[job[w].task] = Target[t]
      BY <1>0, <2>2 DEF Save, SaveDocument, Unsave, DeleteBySource, DeleteDocuments, Stored, SourceOf, storeVars
    <3> QED
      BY <1>1, <3>1, <3>2
  <2>3. ASSUME NEW w \in Workers, Parse(w) \/ CleanupCollects(w) \/ CleanupDropsOrphans(w)
        PROVE  d \in docs'
    <3>1. d \notin orphans
      BY <1>0 DEF NoOrphans
    <3>2. \A s \in Sources : d \notin moved[s]
      BY <1>0 DEF CallsOfJobs, CallOfRequest
    <3>3. job[w].step = "drop" => d \notin job[w].todo
      BY <3>1, <3>2 DEF DropInv, Moved
    <3> QED
      BY <2>3, <3>3 DEF Parse, CleanupCollects, CleanupDropsOrphans, DeleteDocuments, storeVars, At
  <2>4. ASSUME NEW s \in Sources, DeletionEnds(s)
        PROVE  d \in docs'
    <3>1. s \in Deletable
      BY <2>4 DEF DeletionEnds, CallsOfJobs, CallOfRequest
    <3> QED
      BY <1>0, <2>4, <3>1 DEF DeletionEnds, DeleteBySource, DeleteDocuments, Stored
  <2>5. ASSUME NEW s \in Sources, MoveStarts(s)
        PROVE  d \in docs'
    BY <2>5 DEF MoveStarts
  <2>6. ~DeleteCollection
    BY DEF DeleteCollection, Fault, OnlyIndexed
  <2> QED
    BY <2>1, <2>2, <2>3, <2>4, <2>5, <2>6, StoreSteps
<1>3. \/ \A l \in Legs : d \in legs[l] => d \in legs'[l]
      \/ \E w \in Workers : job[w].task = t /\ job[w].step \in {"index", "unindex"} /\ PipelineStep(w)
  <2>1. CASE UNCHANGED legs
    BY <2>1
  <2>2. ASSUME NEW c \in Callers, PipelineStep(c), ~\A l \in Legs : d \in legs[l] => d \in legs'[l]
        PROVE  c \in Workers /\ job[c].task = t /\ job[c].step \in {"index", "unindex"}
    <3>1. PICK l \in Legs : \E x, y :
             \/ LegGoes(c, l, x, y, IF call[c].op = "sweep" THEN legs[l] \ call[c].docs
                                    ELSE {e \in legs[l] : SourceOf(e) # call[c].src})
             \/ LegGoes(c, l, x, y, legs[l] \union call[c].docs)
             \/ LegGoes(c, l, x, y, legs[l])
      BY <2>2, PipelineMoves
    <3>2. /\ call[c].op # "none" /\ d \in legs[l]
          /\ IF call[c].op = "sweep" THEN d \in call[c].docs ELSE call[c].src = Target[t]
      BY <1>0, <2>2, <3>1 DEF LegGoes
    <3>3. c \notin Sources
      <4> SUFFICES ASSUME c \in Sources
                   PROVE  FALSE
        OBVIOUS
      <4>1. CallOfRequest(c)
        BY DEF CallsOfJobs
      <4> QED
        BY <1>0, <3>2, <4>1 DEF CallOfRequest
    <3>4. c \in Workers /\ CallOfJob(c)
      BY <3>3 DEF Callers, CallsOfJobs
    <3>5. job[c].step \notin ReindexStep
      BY <3>4, JobFields, StepsApart, IngestAssumption DEF JobTyped, JobsOfKind, OnlyIndexed
    <3>6. job[c].step # "sweep"
      BY <3>2, <3>4 DEF CallOfJob, SweepInv
    <3>7. job[c].step \in {"index", "unindex"}
      BY <3>2, <3>4, <3>5, <3>6 DEF CallOfJob, ReindexStep
    <3>8. Target[job[c].task] = Target[t]
      BY <3>2, <3>4, <3>7 DEF CallOfJob
    <3> QED
      BY <1>1, <3>4, <3>7, <3>8 DEF IndexStep
  <2>3. \/ \E w \in Workers : HandlerStep(w)
        \/ \E s \in Sources : Requests(s)
        \/ Crash
        => UNCHANGED legs
    BY WorkerCallsNot, RequestCaller, CrashCalls DEF Requests, RequestStep, DeletionStep
  <2> QED
    BY <2>1, <2>2, <2>3, PipelineSteps DEF HandlerStep, IndexFileStep, ReindexTaskStep, CleanupTaskStep
<1>4. ASSUME NEW w \in Workers, PipelineStep(w)
      PROVE  UNCHANGED docs
  BY <1>4 DEF PipelineStep, storeVars
<1> QED
  BY <1>2, <1>3, <1>4

\* What a task that alone concerns its source has saved and indexed stays so.
LEMMA ServedNext ==
    ASSUME OnlyIndexed, BaseInv, ExecInv, SweepInv, DropInv, NoOrphans, Next,
           NEW t \in Tasks, Sole(t), Served(t)
    PROVE  Served(t)'
<1> USE DEF BaseInv
<1> DEFINE Replaces(w) == Save(w) \/ Unsave(w) \/ (job[w].step \in {"index", "unindex"} /\ PipelineStep(w))
<1>0. KindOf[t] = "index" /\ JobTyped
  BY DEF Sole
<1>1. Held(t) => Held(t)' \/ \E w \in Workers : job[w].task = t /\ Replaces(w)
  <2> SUFFICES ASSUME NEW d \in docs, d[1] = t, Searchable(d)
               PROVE  Held(t)' \/ \E w \in Workers : job[w].task = t /\ Replaces(w)
    BY DEF Held
  <2>1. CASE d \in docs' /\ \A l \in Legs : d \in legs[l] => d \in legs'[l]
    BY <2>1 DEF Held, Searchable
  <2> QED
    BY <2>1, OnlyItsTask
<1>2. UNCHANGED <<legs, docs>> /\ Held(t) => Held(t)'
  BY DEF Held, Searchable
<1>3. status'[t] = "succeeded" => Held(t)'
  <2> USE DEF Progress
  <2>1. CASE status[t] = "succeeded"
    <3>1. \A w \in Workers : job[w].task # t
      BY <2>1 DEF ExecInv
    <3> QED
      BY <1>1, <2>1, <3>1 DEF Served
  <2>2. CASE status[t] # "succeeded" /\ status'[t] = "succeeded"
    <3>0. status \in [Tasks -> {"absent", "pending", "running", "succeeded", "failed"}]
      BY DEF TasksTyped
    <3>1. PICK w \in Workers : Report(w)
      <4>1. ~(\E u \in Tasks : \/ Submit(u) \/ Resume(u) \/ Cancel(u) \/ \E w \in Workers : Begin(w, u))
        BY <2>2, <3>0 DEF Submit, Resume, Cancel, Begin, Runner!Submit, Runner!Requeue, Runner!Abort, Runner!Take
      <4>2. ~Crash
        BY <2>2 DEF Crash, Runner!Leave
      <4> QED
        BY <2>2, <4>1, <4>2, TaskSteps DEF runnerVars
    <3>2. job[w].task = t /\ job[w].result = "ok" /\ job[w].step = "report"
      BY <2>2, <3>0, <3>1 DEF Report, Runner!End, Runner!Leave, At
    <3>3. UNCHANGED <<legs, docs>>
      BY <3>1 DEF Report, storeVars
    <3> QED
      BY <1>2, <3>2, <3>3 DEF Served
  <2> QED
    BY <2>1, <2>2
<1>4. ASSUME NEW w \in Workers, job'[w].task = t
      PROVE  Progress(t, w)'
  <2> USE DEF Progress
  <2>0. w \in Callers /\ CallOfJob(w)
    BY WorkersCall DEF CallsOfJobs
  <2>1. CASE IndexFileStep(w)
    <3>0. job[w].task = t /\ saves \in Nat /\ job[w].step \in IndexStep
      BY <1>4, <2>1, HandlerAdvances DEF Advances, StoreTyped
    <3>1. ASSUME WorkflowStops(w) \/ OpenStaged(w) \/ Parse(w) \/ SaveFails(w)
          PROVE  Progress(t, w)'
      <4>1. \/ job'[w].step \in {"remove", "unsave"} /\ job'[w].result \in {"error", "missing"}
            \/ job'[w].step \in {"parse", "save"}
        BY <1>0, <3>0, <3>1, IndexMoves DEF Moves
      <4> QED
        BY <4>1
    <3>2. CASE Save(w)
      <4>1. job'[w].step = "index" /\ job'[w].todo \subseteq docs'
        BY <1>0, <3>0, <3>2, IndexMoves DEF Moves, Save, SaveDocument
      <4>2. call'[w].op = "none"
        BY <2>0, <3>2 DEF Save, At, CallOfJob
      <4> QED
        BY <4>1, <4>2
    <3>3. CASE IndexStarts(w)
      <4>1. UNCHANGED <<job, docs>> /\ job[w].step = "index"
        BY <3>3 DEF IndexStarts, storeVars, At
      <4>2. \A l \in Legs : call'[w].leg[l] = "todo"
        BY <3>3, WorkerCalls DEF Calls
      <4> QED
        BY <3>0, <4>1, <4>2 DEF Served
    <3>4. CASE IndexReturns(w)
      <4>1. CASE Succeeds(w)
        <5>1. job'[w].step = "remove"
          BY <1>0, <3>0, <3>4, <4>1, IndexMoves DEF Moves
        <5>2. job[w].step = "index" /\ call[w].op = "index" /\ UNCHANGED <<legs, docs>>
          BY <2>0, <3>4 DEF IndexReturns, At, Returned, CallOfJob, storeVars
        <5>3. \E n \in 1 .. MaxSaves : job[w].todo = {<<t, n>>}
          BY <2>0, <3>0, <5>2 DEF CallOfJob
        <5>4. job[w].todo \subseteq docs /\ \A l \in Legs : job[w].todo \subseteq legs[l]
          BY <3>0, <4>1, <5>2 DEF Succeeds, Served
        <5>5. Held(t)
          BY <5>3, <5>4 DEF Held, Searchable
        <5> QED
          BY <1>2, <5>1, <5>2, <5>5
      <4>2. CASE ~Succeeds(w)
        <5>1. job'[w].step = "unindex" /\ job'[w].result = "error"
          BY <1>0, <3>0, <3>4, <4>2, IndexMoves DEF Moves
        <5> QED
          BY <5>1
      <4> QED
        BY <4>1, <4>2
    <3>5. CASE Unindexed(w) \/ Unsave(w)
      <4>1. /\ job[w].step \in {"unindex", "unsave"}
            /\ job'[w].step \in {"unsave", "remove"} /\ job'[w].result = job[w].result
        BY <1>0, <3>0, <3>5, IndexMoves DEF Moves, Unindexed, Unsave, At
      <4> QED
        BY <3>0, <4>1 DEF Served
    <3>6. CASE RemoveStaged(w)
      <4>1. job[w].step = "remove" /\ job'[w].step = "report" /\ job'[w].result = job[w].result
        BY <1>0, <3>0, <3>6, IndexMoves DEF Moves, RemoveStaged, At
      <4>2. UNCHANGED <<legs, docs>>
        BY <3>6 DEF RemoveStaged, storeVars
      <4> QED
        BY <1>2, <3>0, <4>1, <4>2 DEF Served
    <3> QED
      BY <2>1, <3>1, <3>2, <3>3, <3>4, <3>5, <3>6 DEF IndexFileStep
  <2>2. ~(ReindexTaskStep(w) \/ CleanupTaskStep(w))
    BY <1>0, <1>4, HandlerAdvances DEF Advances, JobsOfKind
  <2>3. ~(Report(w) \/ Crash)
    BY <1>0, <1>4, WorkerIdles, IngestAssumption DEF JobTyped
  <2>4. CASE \E u \in Tasks : Begin(w, u)
    <3>1. job'[w].step = "open"
      BY <1>0, <1>4, <2>4, WorkerTakes
    <3> QED
      BY <3>1
  <2>5. CASE PipelineStep(w)
    <3>1. UNCHANGED <<job, docs>> /\ job[w].task = t
      BY <1>4, <2>5 DEF PipelineStep, storeVars
    <3>2. PICK l \in Legs :
             \/ \E D : LegGoes(w, l, "todo", IF call[w].op = "index" THEN "erased" ELSE "done", D)
             \/ LegGoes(w, l, "erased", "done", legs[l] \union call[w].docs)
             \/ \E x, D : LegGoes(w, l, x, "failed", D)
      BY <2>0, <2>5, PipelineMoves
    <3>3. call[w].op # "none"
      BY <3>2 DEF LegGoes
    <3>4. ASSUME job[w].step = "index", NEW k \in Legs, call'[w].leg[k] = "done"
          PROVE  job[w].todo \subseteq legs'[k]
      <4>1. call[w].op = "index" /\ call[w].docs = job[w].todo
        BY <2>0, <3>3, <3>4 DEF CallOfJob
      <4>2. k # l => job[w].todo \subseteq legs[k]
        BY <3>1, <3>2, <3>4, <4>1 DEF LegGoes, Served
      <4> QED
        BY <3>2, <3>4, <4>1, <4>2 DEF LegGoes
    <3>5. job[w].step \notin {"remove", "report"}
      BY <2>0, <3>3 DEF CallOfJob
    <3> QED
      BY <3>1, <3>4, <3>5 DEF Served
  <2>6. CASE job'[w] = job[w] /\ call'[w] = call[w] /\ ~HandlerStep(w) /\ ~PipelineStep(w)
    <3>1. job[w].task = t
      BY <1>4, <2>6
    <3>2. \A u \in Workers : job[u].task = t => u = w
      BY <3>1 DEF ExecInv
    <3>3. ~\E u \in Workers : job[u].task = t /\ Replaces(u)
      BY <2>6, <3>2 DEF HandlerStep, IndexFileStep
    <3>4. Held(t) => Held(t)'
      BY <1>1, <3>3
    <3>5. ASSUME NEW d \in docs, d[1] = t
          PROVE  d \in docs' /\ \A l \in Legs : d \in legs[l] => d \in legs'[l]
      BY <3>3, <3>5, OnlyItsTask
    <3>6. job[w].step = "index" => \A d \in job[w].todo : d[1] = t
      BY <2>0, <3>1 DEF CallOfJob
    <3> QED
      BY <2>6, <3>1, <3>4, <3>5, <3>6 DEF Served
  <2> QED
    BY <2>1, <2>2, <2>3, <2>4, <2>5, <2>6, OwnSteps DEF HandlerStep
<1> QED
  BY <1>3, <1>4 DEF Served

\* A document whose IndexFile task succeeded stays stored and in every leg, as
\* long as only its own task concerns its source: crashes, runs resumed, other
\* documents indexed and cleanups do not take it away.  Deletions of a collection
\* and Reindex are left out, for they do.
THEOREM IndexedStaysSearchable == OnlyIndexed => (Spec => []SucceededIsSearchable)
<1> SUFFICES ASSUME OnlyIndexed
             PROVE  Spec => []SucceededIsSearchable
  OBVIOUS
<1> DEFINE ServedInv == \A t \in Tasks : Sole(t) => Served(t)
<1>1. Init => ExecInv /\ NoOrphans /\ ServedInv
  BY ExecInit, IngestAssumption DEF Init, Runner!Init, Idle, NoOrphans, Served, Progress
<1>2. BaseInv /\ ExecInv /\ SweepInv /\ DropInv /\ NoOrphans /\ ServedInv /\ [Next]_vars => ServedInv'
  <2>1. CASE UNCHANGED vars
    BY <2>1 DEF vars, storeVars, Served, Progress, Held, Searchable
  <2>2. CASE Next
    BY <2>2, ServedNext
  <2> QED
    BY <2>1, <2>2
<1>3. ServedInv => SucceededIsSearchable
  BY DEF Served, Held, SucceededIsSearchable
<1> HIDE DEF ServedInv
<1> QED
  BY <1>1, <1>2, <1>3, BaseInit, BaseNext, SweepInit, SweepNext, ExecNext, NoOrphansNext, PTL DEF Spec
-----------------------------------------------------------------------------
(* What a cleanup relies on and leaves when nothing runs beside it. *)

\* One worker, no calls of DeleteBySource or SetDocumentCollections, and the
\* queries and the deletions of a cleanup do not fail.
CleansAlone ==
    /\ \A u, w \in Workers : u = w
    /\ Deletable \union Movable = {}
    /\ {"leg", "query"} \intersect Faults = {}

\* Between the steps of the only worker and of the legs it calls nothing changes
\* that it has read.
LEMMA AloneSteps ==
    ASSUME \A u, w \in Workers : u = w, Deletable \union Movable = {}, BaseInv, Next, NEW w \in Workers
    PROVE  \/ HandlerStep(w) \/ PipelineStep(w) \/ Crash \/ \E t \in Tasks : Begin(w, t)
           \/ /\ UNCHANGED <<docs, blobs, legs>>
              /\ job'[w] = job[w] /\ call'[w] = call[w] /\ canceled \subseteq canceled'
<1> USE DEF BaseInv
<1>0. \A s \in Sources : request[s] = "none" /\ call[s].op = "none"
  BY DEF CallsOfJobs, CallOfRequest
<1>1. ASSUME NEW t \in Tasks, Submit(t) \/ Resume(t) \/ Cancel(t)
      PROVE  UNCHANGED <<docs, blobs, legs, canceled, job, call>>
  BY <1>1 DEF Submit, Resume, Cancel, storeVars
<1>2. ContextDone(w) => UNCHANGED <<docs, blobs, legs, job, call>> /\ canceled \subseteq canceled'
  BY DEF ContextDone, storeVars
<1>3. ASSUME NEW s \in Sources, RequestStep(s)
      PROVE  FALSE
  BY <1>0, <1>3 DEF RequestStep, DeletionStarts, DeletionStep, DeletionErased, DeletionEnds,
              MoveStarts, MoveStep, MoveReads, MoveErased, MoveIndexed
<1>4. ASSUME NEW c \in Callers, PipelineStep(c)
      PROVE  PipelineStep(w)
  <2>1. \E l \in Legs : \E a, b, D : LegGoes(c, l, a, b, D)
    BY <1>4, PipelineMoves
  <2>2. c \notin Sources
    BY <1>0, <2>1 DEF LegGoes
  <2> QED
    BY <1>4, <2>2 DEF Callers
<1>5. DeleteCollection => UNCHANGED <<docs, blobs, legs, canceled, job, call>>
  BY DEF DeleteCollection
<1>6. (\E u \in Workers : HandlerStep(u) \/ ContextDone(u) \/ \E t \in Tasks : Begin(u, t))
      => HandlerStep(w) \/ ContextDone(w) \/ \E t \in Tasks : Begin(w, t)
  OBVIOUS
<1>7. (\E s \in Sources : RequestStep(s)) => FALSE
  BY <1>3
<1> QED
  BY <1>1, <1>2, <1>4, <1>5, <1>6, <1>7 DEF Next, RequestStep

\* What a worker has read is what there is.
Clean(w) ==
    LET j == job[w]
        c == call[w]
    IN  /\ j.step = "save" => Images[j.task] \subseteq blobs
        /\ j.step = "blobs" => Referenced \subseteq j.hashes
        /\ j.step = "collect" => j.hashes \intersect Referenced = {}
        /\ j.step = "check" => \A l \in Legs : legs[l] \subseteq j.todo
        /\ j.step = "sweep" /\ w \notin canceled =>
              \A l \in Legs : /\ legs[l] \subseteq docs \union j.todo
                              /\ c.op = "sweep" /\ c.leg[l] = "done" => legs[l] \subseteq docs
        /\ c.op = "sweep" => \A l \in Legs : c.leg[l] \in {"todo", "done"}
        /\ j.step \in {"refs", "blobs", "collect"} /\ w \notin canceled => \A l \in Legs : legs[l] \subseteq docs

CleanInv == ImagesResolve /\ \A w \in Workers : Clean(w)

\* A step that leaves no worker at a step that has read something.
LEMMA ReadsNothing ==
    ASSUME NEW w \in Workers, job'[w].step \notin {"save", "blobs", "collect", "check", "sweep", "refs"},
           call'[w].op # "sweep"
    PROVE  Clean(w)'
  BY DEF Clean

\* The images of the documents stored stay stored beside a cleanup.
LEMMA ImagesNext ==
    ASSUME CleansAlone, BaseInv, CleanInv, Next
    PROVE  ImagesResolve'
<1> USE DEF BaseInv
<1>1. ASSUME docs' \subseteq docs, blobs \subseteq blobs'
      PROVE  ImagesResolve'
  BY <1>1 DEF CleanInv, ImagesResolve, BlobsOf
<1>2. UNCHANGED <<storeVars, blobs>> => ImagesResolve'
  BY <1>1 DEF storeVars
<1>3. ASSUME NEW w \in Workers, Parse(w)
      PROVE  ImagesResolve'
  BY <1>1, <1>3 DEF Parse, storeVars
<1>4. ASSUME NEW w \in Workers, Save(w)
      PROVE  ImagesResolve'
  <2>1. Images[job[w].task] \subseteq blobs
    BY <1>4 DEF Save, At, CleanInv, Clean
  <2>2. docs' \subseteq docs \union {<<job[w].task, saves + 1>>} /\ UNCHANGED blobs
    BY <1>4 DEF Save, SaveDocument
  <2> QED
    BY <2>1, <2>2 DEF CleanInv, ImagesResolve, BlobsOf
<1>5. ASSUME NEW w \in Workers, Unsave(w) \/ CleanupDropsOrphans(w)
      PROVE  ImagesResolve'
  BY <1>1, <1>5 DEF Unsave, CleanupDropsOrphans, DeleteBySource, DeleteDocuments, storeVars
<1>6. ASSUME NEW w \in Workers, CleanupCollects(w)
      PROVE  ImagesResolve'
  <2>1. job[w].hashes \intersect Referenced = {}
    BY <1>6 DEF CleanupCollects, At, CleanInv, Clean
  <2>2. UNCHANGED docs /\ blobs' = blobs \ job[w].hashes
    BY <1>6 DEF CleanupCollects, storeVars
  <2>3. \A d \in docs : BlobsOf(d) \subseteq Referenced
    BY DEF Referenced
  <2> QED
    BY <2>1, <2>2, <2>3 DEF CleanInv, ImagesResolve, BlobsOf
<1>7. (\E s \in Sources : DeletionEnds(s) \/ MoveStarts(s)) \/ DeleteCollection => ImagesResolve'
  BY <1>1 DEF DeletionEnds, DeleteBySource, DeleteDocuments, MoveStarts, DeleteCollection
<1> QED
  BY <1>2, <1>3, <1>4, <1>5, <1>6, <1>7, StoreSteps

\* What the only worker has read stays true until it uses it.
LEMMA CleanNext ==
    ASSUME CleansAlone, BaseInv, CleanInv, Next, NEW w \in Workers
    PROVE  Clean(w)'
<1> USE DEF BaseInv
<1>0. w \in Callers /\ CallOfJob(w) /\ Clean(w) /\ JobTyped
  BY WorkersCall DEF CallsOfJobs, CleanInv
<1>1. ASSUME UNCHANGED <<docs, blobs, legs>>, job'[w] = job[w], call'[w] = call[w], canceled \subseteq canceled'
      PROVE  Clean(w)'
  BY <1>0, <1>1 DEF Clean, Referenced, BlobsOf
<1>2. CASE IndexFileStep(w)
  <2>0. job[w].task \in Tasks /\ job[w].step \in IndexStep /\ saves \in Nat
    BY <1>2, HandlerAdvances DEF Advances, StoreTyped
  <2>1. CASE Parse(w)
    <3>1. \/ job'[w].step = "save" /\ job'[w].task = job[w].task
          \/ job'[w].step = "remove"
      BY <1>0, <2>0, <2>1, IndexMoves DEF Moves
    <3>2. call'[w].op = "none" /\ Images[job[w].task] \subseteq blobs'
      BY <1>0, <2>1 DEF Parse, At, CallOfJob
    <3> QED
      BY <3>1, <3>2 DEF Clean
  <2>2. ASSUME IndexFileStep(w), ~Parse(w)
        PROVE  job'[w].step \in {"open", "parse", "index", "unindex", "unsave", "remove", "report"}
    BY <1>0, <2>0, <2>2, IndexMoves DEF IndexFileStep, Moves
  <2>3. call'[w].op # "sweep"
    <3>1. call[w].op # "sweep"
      BY <1>0, <2>0 DEF CallOfJob, IndexStep
    <3>2. IndexStarts(w) \/ IndexReturns(w) \/ Unindexed(w) => call'[w].op # "sweep"
      BY WorkerCalls DEF Calls
    <3> QED
      BY <1>2, <3>1, <3>2, WorkerCallsNot
  <2> QED
    BY <1>2, <2>1, <2>2, <2>3, ReadsNothing
<1>3. CASE ReindexTaskStep(w)
  <2>1. job'[w].step \in ReindexStep \union {"report"} /\ job[w].step \in ReindexStep
    BY <1>3, HandlerAdvances DEF Advances
  <2>2. call'[w].op # "sweep"
    <3>1. call[w].op # "sweep"
      BY <1>0, <2>1 DEF CallOfJob, ReindexStep
    <3>2. ReindexNext(w) \/ ReindexReturns(w) => call'[w].op # "sweep"
      BY WorkerCalls DEF Calls
    <3> QED
      BY <1>3, <3>1, <3>2, WorkerCallsNot
  <2> QED
    BY <2>1, <2>2, ReadsNothing DEF ReindexStep
<1>4. CASE CleanupTaskStep(w)
  <2>0. /\ IsFiniteSet(orphans) /\ orphans \subseteq Documents /\ blobs \subseteq Hashes
        /\ Referenced \subseteq Hashes /\ \A l \in Legs : legs[l] \subseteq Documents
    BY StoreSubsets
  <2>1. ASSUME CleanupFails(w) \/ CleanupListsOrphans(w) \/ CleanupDropsOrphans(w) \/ CleanupCollects(w)
        PROVE  Clean(w)'
    <3>1. job'[w].step \in {"report", "drop", "list", "orphans"}
      <4>1. CASE CleanupListsOrphans(w)
        BY <1>0, <2>0, <4>1, CleanupMoves DEF Moves
      <4>2. CASE CleanupFails(w) \/ CleanupDropsOrphans(w) \/ CleanupCollects(w)
        BY <1>0, <2>0, <4>2, CleanupMoves DEF Moves
      <4> QED
        BY <2>1, <4>1, <4>2
    <3>2. call'[w].op = "none"
      BY <1>0, <2>1 DEF CleanupFails, CleanupListsOrphans, CleanupDropsOrphans, CleanupCollects, CallOfJob, At
    <3> QED
      BY <3>1, <3>2, ReadsNothing
  <2>2. CASE CleanupListsSections(w)
    <3>1. job'[w].step = "check" /\ job'[w].todo = UNION {legs[l] : l \in Legs}
      BY <1>0, <2>0, <2>2, CleanupMoves DEF Moves
    <3>2. call'[w].op = "none" /\ UNCHANGED legs
      BY <1>0, <2>2 DEF CleanupListsSections, CallOfJob, At
    <3> QED
      BY <3>1, <3>2 DEF Clean
  <2>3. CASE CleanupChecksSections(w)
    <3>1. job'[w].step = "sweep" /\ (w \notin canceled' => job'[w].todo = Missing(job[w].todo))
      <4>1. job'[w].step = "sweep"
        BY <1>0, <2>0, <2>3, CleanupMoves DEF Moves
      <4>2. ASSUME w \notin canceled'
            PROVE  job' = [job EXCEPT ![w] = [job[w] EXCEPT !.step = "sweep", !.todo = Missing(job[w].todo)]]
        BY <2>3, <4>2 DEF CleanupChecksSections, Breaks, Fault, CleansAlone
      <4>3. job \in [Workers -> Job] /\ job[w] \in Job
        BY <1>0 DEF JobTyped
      <4>4. [job[w] EXCEPT !.step = "sweep", !.todo = Missing(job[w].todo)].todo = Missing(job[w].todo)
        BY <4>3 DEF Job
      <4> QED
        BY <4>1, <4>2, <4>3, <4>4
    <3>2. call'[w].op = "none" /\ UNCHANGED <<docs, legs, canceled>>
      BY <1>0, <2>3 DEF CleanupChecksSections, CallOfJob, At, storeVars
    <3>3. \A l \in Legs : legs[l] \subseteq job[w].todo
      BY <1>0, <2>3 DEF CleanupChecksSections, Clean, At
    <3> QED
      BY <3>1, <3>2, <3>3 DEF Clean, Missing
  <2>4. CASE CleanupSweeps(w)
    <3>0. job[w].step = "sweep" /\ call[w].op = "none" /\ UNCHANGED <<docs, legs, canceled>>
      BY <2>4 DEF CleanupSweeps, storeVars, At
    <3>1. CASE job[w].todo = {}
      <4>1. job'[w].step = "refs" /\ UNCHANGED call
        BY <1>0, <2>0, <2>4, <3>1, CleanupMoves, WorkerCalls DEF Moves
      <4> QED
        BY <1>0, <3>0, <3>1, <4>1 DEF Clean
    <3>2. CASE job[w].todo # {}
      <4>1. /\ job'[w].step = "sweep" /\ job'[w].todo = job[w].todo
            /\ \A l \in Legs : call'[w].leg[l] = "todo"
        BY <1>0, <2>0, <2>4, <3>2, CleanupMoves, WorkerCalls DEF Moves, Calls
      <4> QED
        BY <1>0, <3>0, <4>1 DEF Clean
    <3> QED
      BY <3>1, <3>2
  <2>5. CASE CleanupSwept(w)
    <3>1. job'[w].step = "refs" /\ call'[w].op = "none"
      BY <1>0, <2>0, <2>5, CleanupMoves, WorkerCalls DEF Moves, Calls
    <3>2. job[w].step = "sweep" /\ UNCHANGED <<docs, legs, canceled>>
      BY <2>5 DEF CleanupSwept, storeVars, At
    <3>3. call[w].op = "sweep" /\ \A l \in Legs : call[w].leg[l] = "done"
      BY <1>0, <2>5, <3>2 DEF CleanupSwept, Returned, CallOfJob, Clean
    <3> QED
      BY <1>0, <3>1, <3>2, <3>3 DEF Clean
  <2>6. CASE CleanupReadsReferences(w)
    <3>1. job'[w].step = "blobs" /\ job'[w].hashes = Referenced
      BY <1>0, <2>0, <2>6, CleanupMoves DEF Moves
    <3>2. job[w].step = "refs" /\ call'[w].op = "none" /\ UNCHANGED <<docs, legs, canceled>>
      BY <1>0, <2>6 DEF CleanupReadsReferences, storeVars, CallOfJob, At
    <3> QED
      BY <1>0, <3>1, <3>2 DEF Clean, Referenced, BlobsOf
  <2>7. CASE CleanupListsBlobs(w)
    <3>1. job'[w].step = "collect" /\ job'[w].hashes = blobs \ job[w].hashes
      BY <1>0, <2>0, <2>7, CleanupMoves DEF Moves
    <3>2. job[w].step = "blobs" /\ call'[w].op = "none" /\ UNCHANGED <<docs, legs, canceled>>
      BY <1>0, <2>7 DEF CleanupListsBlobs, storeVars, CallOfJob, At
    <3> QED
      BY <1>0, <3>1, <3>2 DEF Clean, Referenced, BlobsOf
  <2> QED
    BY <1>4, <2>1, <2>2, <2>3, <2>4, <2>5, <2>6, <2>7 DEF CleanupTaskStep
<1>5. ASSUME Report(w) \/ Crash \/ \E t \in Tasks : Begin(w, t)
      PROVE  Clean(w)'
  <2>1. job'[w].step \in {"idle", "open", "count", "orphans"}
    BY <1>0, <1>5, WorkerIdles, WorkerTakes, IngestAssumption DEF JobTyped
  <2>2. call'[w].op = "none"
    BY <1>0, <1>5, CrashCalls DEF Report, Begin, CallOfJob, At
  <2> QED
    BY <2>1, <2>2, ReadsNothing
<1>6. CASE PipelineStep(w)
  <2>1. UNCHANGED <<job, docs, blobs, canceled>>
    BY <1>6 DEF PipelineStep, storeVars
  <2>2. PICK l \in Legs :
            \/ LegGoes(w, l, "todo", IF call[w].op = "index" THEN "erased" ELSE "done",
                       IF call[w].op = "sweep" THEN legs[l] \ call[w].docs
                       ELSE {d \in legs[l] : SourceOf(d) # call[w].src})
            \/ LegGoes(w, l, "erased", "done", legs[l] \union call[w].docs)
            \/ \E x, y, D : LegGoes(w, l, x, y, D) /\ call[w].op = "index"
    BY <1>0, <1>6, PipelineMoves DEF Fault, CleansAlone
  <2>3. call'[w].op = call[w].op /\ call[w].op # "none"
    BY <2>2 DEF LegGoes
  <2>4. CASE call[w].op # "sweep"
    <3>1. job[w].step \notin {"save", "blobs", "collect", "check", "sweep", "refs"}
      BY <1>0, <2>3, <2>4 DEF CallOfJob
    <3> QED
      BY <2>1, <2>3, <2>4, <3>1, ReadsNothing
  <2>5. CASE call[w].op = "sweep"
    <3>1. job[w].step = "sweep" /\ call[w].docs = job[w].todo
      BY <1>0, <2>5 DEF CallOfJob
    <3> QED
      BY <1>0, <2>1, <2>2, <2>3, <2>5, <3>1 DEF Clean, LegGoes
  <2> QED
    BY <2>4, <2>5
<1> QED
  BY <1>1, <1>2, <1>3, <1>4, <1>5, <1>6, AloneSteps DEF HandlerStep, CleansAlone

\* A cleanup that runs alone leaves indexes without orphaned sections when it
\* comes to the blobs, and never deletes the blob of an image that a stored
\* document shows: the blob is stored before the document that shows it, and
\* what referencedBlobs read still holds when blobs.Delete is called.
THEOREM CleanupKeepsItsWord == CleansAlone => (Spec => []CleanupIsRight)
<1> SUFFICES ASSUME CleansAlone
             PROVE  Spec => []CleanupIsRight
  OBVIOUS
<1>1. Init => CleanInv
  BY DEF Init, PipelineInit, Idle, NoCall, Callers, CleanInv, Clean, ImagesResolve
<1>2. BaseInv /\ CleanInv /\ [Next]_vars => CleanInv'
  <2>1. CASE UNCHANGED vars
    BY <2>1 DEF vars, storeVars, CleanInv, Clean, ImagesResolve, BlobsOf, Referenced
  <2>2. CASE Next
    BY <2>2, ImagesNext, CleanNext DEF CleanInv
  <2> QED
    BY <2>1, <2>2
<1>3. CleanInv => CleanupSettles /\ ImagesResolve
  BY DEF CleanInv, Clean, CleanupSettles
<1> QED
  BY <1>1, <1>2, <1>3, BaseInit, BaseNext, Typed, PTL DEF Spec, CleanupIsRight
-----------------------------------------------------------------------------
(* The store and the indexes agree when nothing runs. *)

\* One worker, no calls of DeleteBySource or SetDocumentCollections, and at most one fault, which is not a
\* handler cut short or a document the store cannot save or delete.
AgreesAlone ==
    /\ \E w \in Workers : \A u \in Workers : u = w
    /\ Deletable \union Movable = {}
    /\ {"crash", "cancel", "timeout", "save"} \intersect Faults = {}
    /\ MaxFaults <= 1

NoReindexYet == \A t \in Tasks : KindOf[t] = "reindex" => status[t] = "absent"

\* Nothing interrupts a handler.
GoesOn ==
    /\ \A t \in Tasks : executors[t] # {} => status[t] = "running"
    /\ canceled = {}
    /\ orphans # {} => faults > 0

Even == \A l \in Legs : legs[l] = docs

\* The legs hold the documents of D, but for those of one source.
EvenBut(s, D) == \A l \in Legs : \A d \in Documents : SourceOf(d) # s => (d \in legs[l] <=> d \in D)

Without(s, D) == \A d \in D : SourceOf(d) # s

\* The legs may still hold documents that a cleanup has dropped.
Partly == \A l \in Legs : docs \subseteq legs[l] /\ (legs[l] # docs => faults > 0)

\* Of documents D, in the order they were saved: how many come before one, the
\* first n pages, and the page that follows.
Rank(D, d)   == Cardinality({e \in D : e[2] < d[2]})
Before(D, n) == {d \in D : Rank(D, d) < n * PageSize}
Paged(D, n)  == Before(D, n + 1) \ Before(D, n)

\* What the legs hold of the documents D when a phase of Reindex has treated E.
Treated(phase, D, E) == IF phase = "erase" THEN D \ E ELSE E

AgreesIndexing(w) ==
    LET j == job[w]
        c == call[w]
        s == Target[job[w].task]
    IN  /\ j.step = "index" =>
              /\ EvenBut(s, docs) /\ j.todo \subseteq docs
              /\ c.op = "index" => \A l \in Legs : /\ c.leg[l] = "erased" => Without(s, legs[l])
                                                   /\ c.leg[l] = "done" => legs[l] = docs
                                                   /\ c.leg[l] = "failed" => faults > 0
        /\ j.step = "unindex" =>
              /\ EvenBut(s, docs) /\ faults > 0
              /\ \A l \in Legs : c.leg[l] \in {"todo", "done"} /\ (c.leg[l] = "done" => Without(s, legs[l]))
        /\ j.step = "unsave" => EvenBut(s, docs) /\ \A l \in Legs : Without(s, legs[l])

AgreesReindexing(w) ==
    LET j == job[w]
        c == call[w]
        D == Treated(job[w].phase, docs, Before(docs, job[w].page + 1) \ job[w].todo)
    IN  /\ j.step = "count" => j.phase = "erase" /\ j.page = 0
        /\ j.step = "page" => \A l \in Legs : legs[l] = Treated(j.phase, docs, Before(docs, j.page))
        /\ j.step = "next" => \A l \in Legs : legs[l] = D
        /\ j.step \in {"next", "each"} => /\ j.todo \subseteq Paged(docs, j.page)
                                          /\ j.more <=> Cardinality(Paged(docs, j.page)) = PageSize
        /\ j.step = "each" =>
              /\ EvenBut(c.src, D)
              /\ IF j.phase = "erase"
                 THEN c.op = "erase" /\ Without(c.src, D)
                 ELSE c.op = "index" /\ c.docs # {} /\ c.docs \subseteq D /\ \A d \in c.docs : SourceOf(d) = c.src
              /\ \A l \in Legs : /\ c.leg[l] # "failed" /\ (c.op = "erase" => c.leg[l] # "erased")
                                 /\ c.leg[l] = "erased" => Without(c.src, legs[l])
                                 /\ c.leg[l] = "done" => legs[l] = D

AgreesCleaning(w) ==
    LET j == job[w]
        c == call[w]
    IN  /\ j.step \in {"orphans", "drop", "list", "check", "sweep"} => Partly
        /\ j.step = "check" => \A l \in Legs : legs[l] \subseteq j.todo
        /\ j.step = "sweep" =>
              \A l \in Legs : /\ legs[l] \subseteq docs \union j.todo
                              /\ c.op = "sweep" => /\ c.leg[l] # "erased"
                                                   /\ c.leg[l] \in {"done", "failed"} => legs[l] = docs

Agrees(w) ==
    /\ job[w].step \in {"idle", "report", "open", "parse", "save", "remove", "count", "refs", "blobs", "collect"}
       => Even
    /\ AgreesIndexing(w) /\ AgreesReindexing(w) /\ AgreesCleaning(w)

AgreeInv == faults = 0 \/ NoReindexYet => \A w \in Workers : Agrees(w)

\* Documents are saved one after the other.
Ordered == \A d, e \in docs : d[2] = e[2] => d = e

\* No two documents are saved as the same one.
LEMMA OrderedNext ==
    ASSUME BaseInv, Ordered, [Next]_vars
    PROVE  Ordered'
<1> USE DEF BaseInv
<1>1. docs' \subseteq docs => Ordered'
  BY DEF Ordered
<1>2. UNCHANGED vars \/ UNCHANGED <<storeVars, blobs>> => docs' \subseteq docs
  BY DEF vars, storeVars
<1>3. ASSUME NEW w \in Workers, Parse(w) \/ Unsave(w) \/ CleanupDropsOrphans(w) \/ CleanupCollects(w)
      PROVE  docs' \subseteq docs
  BY <1>3 DEF Parse, Unsave, CleanupDropsOrphans, CleanupCollects, DeleteBySource, DeleteDocuments, storeVars
<1>4. (\E s \in Sources : DeletionEnds(s) \/ MoveStarts(s)) \/ DeleteCollection => docs' \subseteq docs
  BY DEF DeletionEnds, MoveStarts, DeleteCollection, DeleteBySource, DeleteDocuments
<1>5. ASSUME NEW w \in Workers, Save(w)
      PROVE  Ordered'
  <2> DEFINE n == <<job[w].task, saves + 1>>
  <2>1. docs' \subseteq docs \union {n}
    BY <1>5 DEF Save, SaveDocument
  <2>2. n[2] = saves + 1 /\ saves \in Nat
    BY StoreSubsets
  <2>3. \A d \in docs : d[2] \in Nat /\ d[2] <= saves
    BY StoreSubsets DEF SeenIsSaved, Documents
  <2> HIDE DEF n
  <2>4. \A d \in docs : d[2] # n[2]
    BY <2>2, <2>3
  <2> QED
    BY <2>1, <2>4 DEF Ordered
<1> QED
  BY <1>1, <1>2, <1>3, <1>4, <1>5, StoreSteps

\* The rank of a document counts those saved before it: the ranks are the
\* numbers below the number of documents, each of one document.
LEMMA Ranks ==
    ASSUME StoreTyped, Ordered
    PROVE  /\ Cardinality(docs) \in Nat
           /\ \A d \in docs : Rank(docs, d) \in 0 .. Cardinality(docs) - 1
           /\ \A d, e \in docs : Rank(docs, d) = Rank(docs, e) => d = e
           /\ \A k \in 0 .. Cardinality(docs) - 1 : \E d \in docs : Rank(docs, d) = k
<1> DEFINE N == Cardinality(docs)
           Older(d) == {e \in docs : e[2] < d[2]}
           f == [d \in docs |-> Rank(docs, d)]
<1>0. IsFiniteSet(docs) /\ N \in Nat /\ \A d \in docs : d[2] \in Nat
  BY FS_CardinalityType DEF StoreTyped, Documents
<1>1. ASSUME NEW d \in docs
      PROVE  Rank(docs, d) \in 0 .. N - 1
  <2>1. IsFiniteSet(docs \ {d}) /\ Cardinality(docs \ {d}) = N - 1
    BY <1>0, FS_RemoveElement
  <2>2. Older(d) \subseteq docs \ {d}
    BY <1>0
  <2>3. IsFiniteSet(Older(d)) /\ Cardinality(Older(d)) <= N - 1
    BY <2>1, <2>2, FS_Subset
  <2>4. Cardinality(Older(d)) \in Nat
    BY <2>3, FS_CardinalityType
  <2> QED
    BY <1>0, <2>3, <2>4 DEF Rank
<1>2. ASSUME NEW d \in docs, NEW e \in docs, d[2] < e[2]
      PROVE  Rank(docs, d) # Rank(docs, e)
  <2>1. IsFiniteSet(Older(e))
    BY <1>0, FS_Subset
  <2>2. Older(d) \subseteq Older(e) /\ d \in Older(e) /\ d \notin Older(d)
    BY <1>0, <1>2
  <2>3. Cardinality(Older(e)) # Cardinality(Older(d))
    BY <2>1, <2>2, FS_Subset
  <2> QED
    BY <2>3 DEF Rank
<1>3. ASSUME NEW d \in docs, NEW e \in docs, Rank(docs, d) = Rank(docs, e)
      PROVE  d = e
  <2>1. d[2] = e[2]
    BY <1>0, <1>2, <1>3
  <2> QED
    BY <2>1 DEF Ordered
<1>4. f \in Injection(docs, 0 .. N - 1)
  BY <1>1, <1>3 DEF Injection, IsInjective
<1>5. IsFiniteSet(0 .. N - 1) /\ Cardinality(0 .. N - 1) = N
  <2>1. 0 \in Int /\ N - 1 \in Int /\ N \in Nat
    BY <1>0
  <2> HIDE DEF N
  <2>2. /\ IsFiniteSet(0 .. N - 1)
        /\ Cardinality(0 .. N - 1) = IF 0 > N - 1 THEN 0 ELSE (N - 1) - 0 + 1
    BY <2>1, FS_Interval
  <2> QED
    BY <2>1, <2>2
<1>6. f \in Surjection(docs, 0 .. N - 1)
  BY <1>4, <1>5, FS_Injection
<1>7. \A k \in 0 .. N - 1 : \E d \in docs : Rank(docs, d) = k
  BY <1>6 DEF Surjection
<1> QED
  BY <1>0, <1>1, <1>3, <1>7

\* Pages follow one another, and one that is not full is the last one.
LEMMA Pages ==
    ASSUME StoreTyped, Ordered, NEW n \in Nat
    PROVE  /\ Before(docs, 0) = {} /\ Before(docs, n) \subseteq docs /\ Page(n) \subseteq docs
           /\ Before(docs, n + 1) = Before(docs, n) \union Page(n) /\ Before(docs, n) \intersect Page(n) = {}
           /\ Page(n) = Paged(docs, n)
           /\ Cardinality(Page(n)) # PageSize => Before(docs, n + 1) = docs
           /\ Page(n) = {} => Before(docs, n) = docs
<1> DEFINE N == Cardinality(docs)
           a == n * PageSize
           b == a + PageSize
<1>0. N \in Nat /\ PageSize \in Nat \ {0} /\ a \in Nat
  BY Ranks, IngestAssumption
<1>1. (n + 1) * PageSize = b /\ 0 * PageSize = 0
  BY <1>0
<1>2. \A d \in docs : Rank(docs, d) \in 0 .. N - 1
  BY Ranks
<1> HIDE DEF a
<1>3. Page(n) = {d \in docs : a <= Rank(docs, d) /\ Rank(docs, d) < b}
  BY <1>1 DEF Page, Rank, a
<1>4. Before(docs, n) = {d \in docs : Rank(docs, d) < a} /\ Before(docs, n + 1) = {d \in docs : Rank(docs, d) < b}
  BY <1>1 DEF Before, a
<1>5. Before(docs, 0) = {}
  BY <1>0, <1>1, <1>2 DEF Before
<1>6. Before(docs, n + 1) = Before(docs, n) \union Page(n) /\ Before(docs, n) \intersect Page(n) = {}
  BY <1>0, <1>2, <1>3, <1>4
<1>7. ASSUME Before(docs, n + 1) # docs
      PROVE  Cardinality(Page(n)) = PageSize
  <2>1. PICK d \in docs : Rank(docs, d) >= b
    BY <1>0, <1>2, <1>4, <1>7
  <2>2. a .. b - 1 \subseteq 0 .. N - 1
    BY <1>0, <1>2, <2>1
  <2> DEFINE f == [e \in Page(n) |-> Rank(docs, e)]
  <2>3. f \in [Page(n) -> a .. b - 1]
    BY <1>0, <1>2, <1>3
  <2>4. \A k \in a .. b - 1 : \E e \in Page(n) : f[e] = k
    <3> SUFFICES ASSUME NEW k \in a .. b - 1
                 PROVE  \E e \in Page(n) : f[e] = k
      OBVIOUS
    <3>1. PICK e \in docs : Rank(docs, e) = k
      BY <2>2, Ranks
    <3>2. e \in Page(n)
      BY <1>0, <1>3, <3>1
    <3> QED
      BY <3>1, <3>2
  <2>5. \A e, g \in Page(n) : f[e] = f[g] => e = g
    BY <1>3, Ranks
  <2>6. f \in Bijection(Page(n), a .. b - 1)
    BY <2>3, <2>4, <2>5 DEF Bijection, Injection, IsInjective, Surjection
  <2>7. IsFiniteSet(Page(n))
    BY <1>3, FS_Subset DEF StoreTyped
  <2>8. Cardinality(a .. b - 1) = PageSize
    BY <1>0, FS_Interval
  <2> QED
    BY <2>6, <2>7, <2>8, FS_Bijection DEF ExistsBijection
<1>8. Page(n) = {} => Before(docs, n) = docs
  BY <1>0, <1>6, <1>7, FS_EmptySet
<1> QED
  BY <1>3, <1>4, <1>5, <1>6, <1>7, <1>8 DEF Paged

\* The only fault there may be.
LEMMA OneFault ==
    ASSUME AgreesAlone, BaseInv, NEW k, Fault(k)
    PROVE  k \notin {"crash", "cancel", "timeout", "save"} /\ faults = 0 /\ faults' > 0
  BY IngestAssumption DEF AgreesAlone, BaseInv, TasksTyped, Fault

\* Only a context that is done cuts a handler short.
LEMMA CanceledSteps ==
    ASSUME Next, ~\E w \in Workers : ContextDone(w)
    PROVE  canceled' \subseteq canceled
<1>1. ASSUME NEW w \in Workers, IndexFileStep(w) \/ ReindexTaskStep(w)
      PROVE  canceled' \subseteq canceled
  BY <1>1 DEF IndexFileStep, WorkflowStops, OpenStaged, Parse, Save, SaveFails, IndexStarts, IndexReturns,
              Unindexed, Unsave, RemoveStaged, ReindexTaskStep, ReindexStops, ReindexCounts, ReindexQueries,
              ReindexNext, ReindexReturns
<1>2. ASSUME NEW w \in Workers, CleanupTaskStep(w) \/ Report(w)
      PROVE  canceled' \subseteq canceled
  BY <1>2 DEF CleanupTaskStep, CleanupFails, CleanupListsOrphans, CleanupDropsOrphans, CleanupListsSections,
              CleanupChecksSections, CleanupSweeps, CleanupSwept, CleanupReadsReferences, CleanupListsBlobs,
              CleanupCollects, Report
<1>3. ASSUME NEW t \in Tasks, Submit(t) \/ Resume(t) \/ Cancel(t) \/ \E w \in Workers : Begin(w, t)
      PROVE  canceled' \subseteq canceled
  BY <1>3 DEF Submit, Resume, Cancel, Begin
<1>4. ASSUME NEW s \in Sources, RequestStep(s)
      PROVE  canceled' \subseteq canceled
  BY <1>4 DEF RequestStep, DeletionStarts, DeletionStep, DeletionErased, DeletionEnds,
              MoveStarts, MoveStep, MoveReads, MoveErased, MoveIndexed
<1>5. (\E c \in Callers : PipelineStep(c)) \/ DeleteCollection \/ Crash => canceled' \subseteq canceled
  BY DEF PipelineStep, DeleteCollection, Crash
<1> QED
  BY <1>1, <1>2, <1>3, <1>4, <1>5 DEF Next, HandlerStep, RequestStep

\* A handler stays its task's, with its context, when nothing interrupts it.
LEMMA GoesOnNext ==
    ASSUME AgreesAlone, BaseInv, ExecInv, GoesOn, [Next]_vars
    PROVE  GoesOn'
<1> USE DEF BaseInv
<1>0. /\ JobTyped
      /\ status \in [Tasks -> {"absent", "pending", "running", "succeeded", "failed"}]
      /\ executors \in [Tasks -> SUBSET Workers]
  BY DEF TasksTyped
<1>1. CASE UNCHANGED vars
  BY <1>1 DEF vars, runnerVars, storeVars, GoesOn
<1>2. CASE Next
  <2>1. \A t \in Tasks : executors'[t] # {} => status'[t] = "running"
    <3>1. ASSUME NEW t \in Tasks, NEW w \in Workers, Begin(w, t)
          PROVE  <2>1
      BY <1>0, <3>1 DEF Begin, Runner!Take, GoesOn
    <3>2. ASSUME NEW t \in Tasks, Submit(t) \/ Resume(t)
          PROVE  <2>1
      BY <1>0, <3>2 DEF Submit, Resume, Runner!Submit, Runner!Requeue, GoesOn, ExecInv
    <3>3. ~\E t \in Tasks : Cancel(t)
      BY OneFault DEF Cancel
    <3>4. ~Crash
      BY OneFault DEF Crash
    <3>5. ASSUME NEW w \in Workers, Report(w)
          PROVE  <2>1
      <4>1. CASE Runner!Leave({w})
        BY <1>0, <3>5, <4>1 DEF Runner!Leave, GoesOn
      <4>2. ASSUME NEW s, Runner!End(job[w].task, w, s)
            PROVE  <2>1
        <5>1. job[w].task \in Tasks
          BY <3>5, JobFields DEF JobTyped, JobsOfKind, Report, At
        <5>2. executors'[job[w].task] = {}
          BY <1>0, <4>2, <5>1 DEF Runner!End, ExecInv
        <5> QED
          BY <1>0, <4>2, <5>1, <5>2 DEF Runner!End, GoesOn
      <4> QED
        BY <3>5, <4>1, <4>2 DEF Report
    <3>6. UNCHANGED runnerVars => <2>1
      BY DEF runnerVars, GoesOn
    <3> QED
      BY <1>2, <3>1, <3>2, <3>3, <3>4, <3>5, <3>6, TaskSteps
  <2>2. canceled' = {}
    <3>1. ASSUME NEW w \in Workers, ContextDone(w)
          PROVE  FALSE
      <4>1. job[w].task \in Tasks
        BY <3>1, JobFields DEF ContextDone, At, JobTyped, JobsOfKind
      <4>2. status[job[w].task] = "running"
        BY <4>1 DEF GoesOn, ExecInv
      <4> QED
        BY <3>1, <4>2, OneFault DEF ContextDone
    <3> QED
      BY <1>2, <3>1, CanceledSteps DEF GoesOn
  <2>3. orphans' # {} => faults' > 0
    <3>1. faults' >= faults /\ faults \in Nat /\ faults' \in Nat
      BY <1>2, FaultsNext, IngestAssumption DEF TasksTyped
    <3>2. DeleteCollection => faults' > 0
      BY OneFault DEF DeleteCollection
    <3>3. ~DeleteCollection => orphans' \subseteq orphans
      BY <1>2, OrphansLeave DEF AgreesAlone
    <3> QED
      BY <3>1, <3>2, <3>3 DEF GoesOn
  <2> QED
    BY <2>1, <2>2, <2>3 DEF GoesOn
<1> QED
  BY <1>1, <1>2

\* Tasks are not withdrawn.
LEMMA ReindexStays ==
    ASSUME BaseInv, Next, NoReindexYet'
    PROVE  NoReindexYet
<1>0. status \in [Tasks -> {"absent", "pending", "running", "succeeded", "failed"}]
  BY DEF BaseInv, TasksTyped
<1> SUFFICES ASSUME NEW t \in Tasks, status'[t] = "absent"
             PROVE  status[t] = "absent"
  BY DEF NoReindexYet
<1>1. CASE UNCHANGED runnerVars
  BY <1>1 DEF runnerVars
<1>2. ASSUME NEW u \in Tasks, Submit(u) \/ Resume(u) \/ Cancel(u) \/ \E w \in Workers : Begin(w, u)
      PROVE  status[t] = "absent"
  BY <1>0, <1>2 DEF Submit, Resume, Cancel, Begin, Runner!Submit, Runner!Requeue, Runner!Abort, Runner!Take
<1>3. ASSUME NEW w \in Workers, Report(w)
      PROVE  status[t] = "absent"
  BY <1>0, <1>3 DEF Report, Runner!End, Runner!Leave
<1>4. CASE Crash
  BY <1>4 DEF Crash, Runner!Leave
<1> QED
  BY <1>1, <1>2, <1>3, <1>4, TaskSteps

\* The steps after which nothing is left to do for the indexes.
AtRest == {"idle", "report", "open", "parse", "save", "remove", "count", "refs", "blobs", "collect"}

\* A step with nothing left to do asks that every leg holds the documents stored.
LEMMA AgreesAtRest ==
    ASSUME NEW w \in Workers, job'[w].step \in AtRest \ {"count"}, Even'
    PROVE  Agrees(w)'
  BY DEF Agrees, AgreesIndexing, AgreesReindexing, AgreesCleaning, AtRest

\* At a step of a handler, only what is said of that handler matters.
LEMMA AgreesIn ==
    ASSUME NEW w \in Workers
    PROVE  /\ job'[w].step \in {"index", "unindex", "unsave"} /\ AgreesIndexing(w)' => Agrees(w)'
           /\ job'[w].step \in {"page", "next", "each"} /\ AgreesReindexing(w)' => Agrees(w)'
           /\ job'[w].step \in {"orphans", "drop", "list", "check", "sweep"} /\ AgreesCleaning(w)' => Agrees(w)'
  BY DEF Agrees, AgreesIndexing, AgreesReindexing, AgreesCleaning

\* What concerns one source concerns one document of the store.
LEMMA OneSource ==
    ASSUME BaseInv, NEW D \in SUBSET docs, NEW l \in Legs, NEW s, EvenBut(s, D)
    PROVE  /\ Without(s, D) => {d \in legs[l] : SourceOf(d) # s} = D
           /\ Without(s, D) /\ Without(s, legs[l]) => legs[l] = D
           /\ \A E \in SUBSET D : /\ Without(s, legs[l]) /\ E # {} /\ (\A d \in E : SourceOf(d) = s)
                                  => legs[l] \union E = D
<1>1. D \subseteq Documents /\ legs[l] \subseteq Documents /\ \A d, e \in D : SourceOf(d) = SourceOf(e) => d = e
  BY StoreSubsets DEF BaseInv, StoreTyped
<1>2. \A d \in Documents : SourceOf(d) # s => (d \in legs[l] <=> d \in D)
  BY DEF EvenBut
<1>3. Without(s, D) => {d \in legs[l] : SourceOf(d) # s} = D
  BY <1>1, <1>2 DEF Without
<1>4. Without(s, D) /\ Without(s, legs[l]) => legs[l] = D
  BY <1>1, <1>2 DEF Without
<1>5. ASSUME NEW E \in SUBSET D, Without(s, legs[l]), NEW e \in E, \A d \in E : SourceOf(d) = s
      PROVE  legs[l] \union E = D
  <2>1. \A d \in D : SourceOf(d) = s => d = e
    BY <1>1, <1>5
  <2> QED
    BY <1>1, <1>2, <1>5, <2>1 DEF Without
<1> QED
  BY <1>3, <1>4, <1>5

\* The steps of IndexFile.
LEMMA IndexingAgrees ==
    ASSUME AgreesAlone, BaseInv, GoesOn, Next, NEW w \in Workers, Agrees(w), IndexFileStep(w)
    PROVE  Agrees(w)'
<1> USE DEF BaseInv
<1>0. /\ JobTyped /\ w \in Callers /\ CallOfJob(w) /\ w \notin canceled /\ saves \in Nat
      /\ job[w].task \in Tasks /\ job[w].step \in IndexStep
      /\ docs \subseteq Documents /\ \A l \in Legs : legs[l] \subseteq Documents
      /\ \A k : Fault(k) => k # "save"
  BY WorkersCall, HandlerAdvances, StoreSubsets, OneFault DEF CallsOfJobs, GoesOn, Advances
<1> DEFINE s == Target[job[w].task]
<1>1. ASSUME OpenStaged(w) \/ Parse(w) \/ RemoveStaged(w)
      PROVE  Agrees(w)'
  <2>1. job'[w].step \in AtRest \ {"count"}
    BY <1>0, <1>1, IndexMoves DEF Moves, AtRest
  <2>2. job[w].step \in {"open", "parse", "remove"} /\ UNCHANGED <<docs, legs>>
    BY <1>1 DEF OpenStaged, Parse, RemoveStaged, At, storeVars
  <2> QED
    BY <2>1, <2>2, AgreesAtRest DEF Agrees, Even
<1>2. ~WorkflowStops(w) /\ ~SaveFails(w)
  BY <1>0 DEF WorkflowStops, SaveFails, Breaks
<1>3. CASE Save(w)
  <2> DEFINE n == <<job[w].task, saves + 1>>
  <2>1. job'[w].step = "index" /\ job'[w].todo = {n} /\ job'[w].task = job[w].task
    BY <1>0, <1>3, IndexMoves DEF Moves
  <2>2. Even /\ UNCHANGED <<legs, call>> /\ call[w].op = "none"
    BY <1>0, <1>3 DEF Save, At, Agrees, CallOfJob
  <2>3. docs' = (docs \ Stored(SourceOf(n))) \union {n} /\ SourceOf(n) = s
    BY <1>3 DEF Save, SaveDocument, SourceOf
  <2> HIDE DEF n, s
  <2>4. \A d \in Documents : SourceOf(d) # s => (d \in docs' <=> d \in docs)
    BY <2>3 DEF Stored
  <2>5. EvenBut(s, docs)'
    BY <2>1, <2>2, <2>4 DEF Even, EvenBut, s
  <2>6. AgreesIndexing(w)'
    BY <2>1, <2>2, <2>3, <2>5 DEF AgreesIndexing, s
  <2> QED
    BY <2>1, <2>6, AgreesIn
<1>4. CASE IndexStarts(w)
  <2>1. UNCHANGED <<job, docs, legs>> /\ job[w].step = "index"
    BY <1>4 DEF IndexStarts, storeVars, At
  <2>2. \A l \in Legs : call'[w].leg[l] = "todo"
    BY <1>4, WorkerCalls DEF Calls
  <2>3. EvenBut(s, docs)'
    BY <2>1 DEF Agrees, AgreesIndexing, EvenBut
  <2> QED
    BY <2>1, <2>2, <2>3, AgreesIn DEF Agrees, AgreesIndexing
<1>5. CASE IndexReturns(w)
  <2>1. job[w].step = "index" /\ Returned(w) /\ call[w].op = "index" /\ UNCHANGED <<docs, legs, faults>>
    BY <1>0, <1>5 DEF IndexReturns, At, Returned, CallOfJob, storeVars
  <2>2. CASE Succeeds(w)
    <3>1. job'[w].step = "remove"
      BY <1>0, <1>5, <2>2, IndexMoves DEF Moves
    <3>2. Even'
      BY <2>1, <2>2 DEF Succeeds, Agrees, AgreesIndexing, Even
    <3> QED
      BY <3>1, <3>2, AgreesAtRest DEF AtRest
  <2>3. CASE ~Succeeds(w)
    <3>1. job'[w].step = "unindex" /\ job'[w].task = job[w].task
      BY <1>0, <1>5, <2>3, IndexMoves DEF Moves
    <3>2. \A l \in Legs : call'[w].leg[l] = "todo"
      BY <1>5, <2>3, WorkerCalls DEF Calls
    <3>3. faults > 0
      BY <2>1, <2>3 DEF Returned, Succeeds, Agrees, AgreesIndexing
    <3>4. EvenBut(s, docs)
      BY <2>1 DEF Agrees, AgreesIndexing
    <3>5. EvenBut(s, docs)'
      BY <2>1, <3>1, <3>4 DEF EvenBut
    <3> QED
      BY <2>1, <3>1, <3>2, <3>3, <3>5, AgreesIn DEF AgreesIndexing
  <2> QED
    BY <2>2, <2>3
<1>6. CASE Unindexed(w)
  <2>1. job'[w].step = "unsave" /\ job'[w].task = job[w].task
    BY <1>0, <1>6, IndexMoves DEF Moves
  <2>2. job[w].step = "unindex" /\ Returned(w) /\ UNCHANGED <<docs, legs>>
    BY <1>6 DEF Unindexed, At, storeVars
  <2>3. EvenBut(s, docs) /\ \A l \in Legs : Without(s, legs[l])
    BY <2>2 DEF Returned, Agrees, AgreesIndexing
  <2>4. EvenBut(s, docs)'
    BY <2>1, <2>2, <2>3 DEF EvenBut
  <2> QED
    BY <2>1, <2>2, <2>3, <2>4, AgreesIn DEF AgreesIndexing
<1>7. CASE Unsave(w)
  <2>1. job'[w].step = "remove"
    BY <1>0, <1>7, IndexMoves DEF Moves
  <2>2. docs' = docs \ Stored(s) /\ UNCHANGED legs /\ job[w].step = "unsave"
    BY <1>0, <1>7 DEF Unsave, DeleteBySource, DeleteDocuments, At
  <2>3. EvenBut(s, docs) /\ \A l \in Legs : Without(s, legs[l])
    BY <2>2 DEF Agrees, AgreesIndexing
  <2>4. Even'
    BY <1>0, <2>2, <2>3 DEF EvenBut, Without, Even, Stored
  <2> QED
    BY <2>1, <2>4, AgreesAtRest DEF AtRest
<1> QED
  BY <1>1, <1>2, <1>3, <1>4, <1>5, <1>6, <1>7 DEF IndexFileStep

\* The steps of CleanupIndex.
LEMMA CleaningAgrees ==
    ASSUME AgreesAlone, BaseInv, DropInv, GoesOn, Next, NEW w \in Workers, Agrees(w), CleanupTaskStep(w)
    PROVE  Agrees(w)'
<1> USE DEF BaseInv
<1>0. /\ JobTyped /\ w \in Callers /\ CallOfJob(w) /\ w \notin canceled
      /\ IsFiniteSet(orphans) /\ orphans \subseteq Documents /\ blobs \subseteq Hashes
      /\ Referenced \subseteq Hashes /\ \A l \in Legs : legs[l] \subseteq Documents
  BY WorkersCall, StoreSubsets DEF CallsOfJobs, GoesOn
<1>1. CASE CleanupFails(w)
  <2>1. job'[w].step = "report"
    BY <1>0, <1>1, CleanupMoves DEF Moves
  <2>2. faults = 0 /\ job[w].step \in {"orphans", "list", "refs", "blobs", "collect"} /\ UNCHANGED <<docs, legs>>
    BY <1>0, <1>1, OneFault DEF CleanupFails, Breaks, storeVars
  <2>3. Even'
    BY <2>2 DEF Agrees, AgreesCleaning, Partly, Even
  <2> QED
    BY <2>1, <2>3, AgreesAtRest DEF AtRest
<1>2. CASE CleanupListsOrphans(w)
  <2>1. job'[w].step \in {"drop", "list", "orphans"}
    BY <1>0, <1>2, CleanupMoves DEF Moves
  <2>2. job[w].step = "orphans" /\ UNCHANGED <<docs, legs, faults>>
    BY <1>2 DEF CleanupListsOrphans, At, storeVars
  <2>3. Partly'
    BY <2>2 DEF Agrees, AgreesCleaning, Partly
  <2> QED
    BY <2>1, <2>3, AgreesIn DEF AgreesCleaning
<1>3. CASE CleanupDropsOrphans(w)
  <2>1. job'[w].step \in {"orphans", "list"}
    BY <1>0, <1>3, CleanupMoves DEF Moves
  <2>2. docs' = docs \ job[w].todo /\ UNCHANGED <<legs, faults>> /\ job[w].step = "drop"
    BY <1>3, OneFault DEF CleanupDropsOrphans, DeleteDocuments, At
  <2>3. docs' # docs => faults > 0
    <3>1. Moved = {}
      BY DEF AgreesAlone, CallsOfJobs, CallOfRequest, Moved
    <3> QED
      BY <2>2, <3>1 DEF DropInv, GoesOn
  <2>4. Partly'
    BY <2>2, <2>3 DEF Agrees, AgreesCleaning, Partly
  <2> QED
    BY <2>1, <2>4, AgreesIn DEF AgreesCleaning
<1>4. CASE CleanupListsSections(w)
  <2>1. job'[w].step = "check" /\ job'[w].todo = UNION {legs[l] : l \in Legs}
    BY <1>0, <1>4, CleanupMoves DEF Moves
  <2>2. job[w].step = "list" /\ UNCHANGED <<docs, legs, faults>>
    BY <1>4 DEF CleanupListsSections, At, storeVars
  <2>3. Partly'
    BY <2>2 DEF Agrees, AgreesCleaning, Partly
  <2> QED
    BY <2>1, <2>2, <2>3, AgreesIn DEF AgreesCleaning
<1>5. CASE CleanupChecksSections(w)
  <2>1. /\ job'[w].step = "sweep" /\ job[w].step = "check" /\ UNCHANGED <<docs, legs>>
        /\ call'[w].op = "none" /\ faults' >= faults
    <3>1. faults' >= faults
      BY FaultsNext
    <3> QED
      BY <1>0, <1>5, <3>1, CleanupMoves DEF Moves, CleanupChecksSections, At, CallOfJob, storeVars
  <2>2. job'[w].todo = Missing(job[w].todo) \/ faults = 0
    <3>1. CASE faults # 0
      <4>1. job' = [job EXCEPT ![w] = [job[w] EXCEPT !.step = "sweep", !.todo = Missing(job[w].todo)]]
        BY <1>0, <1>5, <3>1, OneFault DEF CleanupChecksSections, Breaks
      <4> QED
        BY <1>0, <4>1 DEF JobTyped, Job
    <3> QED
      BY <3>1
  <2>3. Partly /\ \A l \in Legs : legs[l] \subseteq job[w].todo
    BY <2>1 DEF Agrees, AgreesCleaning
  <2>4. \A l \in Legs : legs[l] \subseteq docs \union job'[w].todo
    BY <2>2, <2>3 DEF Missing, Partly
  <2>5. Partly'
    <3>1. faults \in Nat /\ faults' \in Nat
      BY FaultsNext, IngestAssumption DEF TasksTyped
    <3> QED
      BY <2>1, <2>3, <3>1 DEF Partly
  <2> QED
    BY <2>1, <2>4, <2>5, AgreesIn DEF AgreesCleaning
<1>6. CASE CleanupSweeps(w)
  <2>0. job[w].step = "sweep" /\ UNCHANGED <<docs, legs, faults>>
    BY <1>6 DEF CleanupSweeps, At, storeVars
  <2>1. Partly /\ \A l \in Legs : legs[l] \subseteq docs \union job[w].todo
    BY <2>0 DEF Agrees, AgreesCleaning
  <2>2. CASE job[w].todo = {}
    <3>1. job'[w].step = "refs"
      BY <1>0, <1>6, <2>2, CleanupMoves DEF Moves
    <3>2. Even'
      BY <2>0, <2>1, <2>2 DEF Partly, Even
    <3> QED
      BY <3>1, <3>2, AgreesAtRest DEF AtRest
  <2>3. CASE job[w].todo # {}
    <3>1. /\ job'[w].step = "sweep" /\ job'[w].todo = job[w].todo
          /\ \A l \in Legs : call'[w].leg[l] = "todo"
      BY <1>0, <1>6, <2>3, CleanupMoves, WorkerCalls DEF Moves, Calls
    <3>2. Partly'
      BY <2>0, <2>1 DEF Partly
    <3> QED
      BY <2>0, <2>1, <3>1, <3>2, AgreesIn DEF AgreesCleaning
  <2> QED
    BY <2>2, <2>3
<1>7. CASE CleanupSwept(w)
  <2>1. job'[w].step = "refs"
    BY <1>0, <1>7, CleanupMoves DEF Moves
  <2>2. job[w].step = "sweep" /\ Returned(w) /\ UNCHANGED <<docs, legs>>
    BY <1>7 DEF CleanupSwept, At, storeVars
  <2>3. call[w].op = "sweep" /\ \A l \in Legs : call[w].leg[l] \in {"done", "failed"}
    BY <1>0, <2>2 DEF Returned, CallOfJob
  <2>4. Even'
    BY <2>2, <2>3 DEF Agrees, AgreesCleaning, Even
  <2> QED
    BY <2>1, <2>4, AgreesAtRest DEF AtRest
<1>8. ASSUME CleanupReadsReferences(w) \/ CleanupListsBlobs(w) \/ CleanupCollects(w)
      PROVE  Agrees(w)'
  <2>1. job'[w].step \in {"blobs", "collect", "report"}
    BY <1>0, <1>8, CleanupMoves DEF Moves
  <2>2. job[w].step \in {"refs", "blobs", "collect"} /\ UNCHANGED <<docs, legs>>
    BY <1>8 DEF CleanupReadsReferences, CleanupListsBlobs, CleanupCollects, At, storeVars
  <2>3. Even'
    BY <2>2 DEF Agrees, Even
  <2> QED
    BY <2>1, <2>3, AgreesAtRest DEF AtRest
<1> QED
  BY <1>1, <1>2, <1>3, <1>4, <1>5, <1>6, <1>7, <1>8 DEF CleanupTaskStep

\* A phase of Reindex ends when every page is treated.
LEMMA PhaseAgrees ==
    ASSUME BaseInv, Ordered, NEW w \in Workers, PhaseOver(w), UNCHANGED <<docs, legs>>,
           \A l \in Legs : legs[l] = Treated(job[w].phase, docs, docs)
    PROVE  Agrees(w)'
<1>0. job[w] \in Job /\ job[w].phase \in {"erase", "index"} /\ JobTyped
  BY JobFields DEF BaseInv, JobTyped
<1>1. CASE job[w].phase = "index"
  <2>1. job'[w].step = "report"
    BY <1>0, <1>1 DEF PhaseOver, JobTyped, Job
  <2>2. Even'
    BY <1>1 DEF Treated, Even
  <2> QED
    BY <2>1, <2>2, AgreesAtRest DEF AtRest
<1>2. CASE job[w].phase = "erase"
  <2>1. job'[w].step = "page" /\ job'[w].phase = "index" /\ job'[w].page = 0
    BY <1>0, <1>2 DEF PhaseOver, JobTyped, Job
  <2>2. Before(docs, 0) = {}
    BY Pages DEF BaseInv
  <2>3. \A l \in Legs : legs[l] = {}
    BY <1>2 DEF Treated
  <2> QED
    BY <2>1, <2>2, <2>3, AgreesIn DEF AgreesReindexing, Treated
<1> QED
  BY <1>0, <1>1, <1>2

\* Reindex leaves the legs with the documents of the pages it has treated.
LEMMA ReindexingAgrees ==
    ASSUME AgreesAlone, BaseInv, Ordered, GoesOn, Next, faults' = 0,
           NEW w \in Workers, Agrees(w), ReindexTaskStep(w)
    PROVE  Agrees(w)'
<1> USE DEF BaseInv
<1> DEFINE n == job[w].page
           phase == job[w].phase
           todo == job[w].todo
           D == Treated(phase, docs, Before(docs, n + 1) \ todo)
<1>0. /\ JobTyped /\ job[w] \in Job /\ w \in Callers /\ CallOfJob(w) /\ w \notin canceled
      /\ docs \subseteq Documents /\ todo \subseteq Documents /\ n \in Nat /\ phase \in {"erase", "index"}
  BY WorkersCall, JobFields DEF CallsOfJobs, GoesOn, JobTyped, StoreTyped
<1>1. /\ Before(docs, 0) = {} /\ Before(docs, n) \subseteq docs
      /\ Page(n) = Paged(docs, n) /\ Page(n) \subseteq docs
      /\ Before(docs, n + 1) = Before(docs, n) \union Page(n) /\ Before(docs, n) \intersect Page(n) = {}
      /\ Cardinality(Page(n)) # PageSize => Before(docs, n + 1) = docs
      /\ Page(n) = {} => Before(docs, n) = docs
  BY <1>0, Pages
<1>2. ~ReindexStops(w)
  BY <1>0, OneFault DEF ReindexStops
<1>3. CASE ReindexCounts(w)
  <2>1. Even /\ phase = "erase" /\ n = 0 /\ UNCHANGED <<docs, legs>>
    BY <1>3 DEF ReindexCounts, At, Agrees, AgreesReindexing, storeVars
  <2>2. \/ job'[w].step = "report"
        \/ job'[w].step = "page" /\ job'[w].phase = phase /\ job'[w].page = n
    BY <1>0, <1>3 DEF ReindexCounts, Go, JobTyped, Job
  <2>3. Even'
    BY <2>1 DEF Even
  <2>4. \A l \in Legs : legs[l] = Treated(phase, docs, Before(docs, n))
    BY <1>1, <2>1 DEF Even, Treated
  <2> QED
    BY <2>1, <2>2, <2>3, <2>4, AgreesIn, AgreesAtRest DEF AtRest, AgreesReindexing
<1>4. CASE ReindexQueries(w)
  <2>1. UNCHANGED <<docs, legs>> /\ job[w].step = "page"
    BY <1>4 DEF ReindexQueries, At, storeVars
  <2>2. \A l \in Legs : legs[l] = Treated(phase, docs, Before(docs, n))
    BY <2>1 DEF Agrees, AgreesReindexing
  <2>3. CASE Page(n) = {}
    <3>1. PhaseOver(w)
      BY <1>4, <2>3 DEF ReindexQueries
    <3> QED
      BY <1>1, <2>1, <2>2, <2>3, <3>1, PhaseAgrees
  <2>4. CASE Page(n) # {}
    <3>0. job' = [job EXCEPT ![w] = [job[w] EXCEPT !.step = "next", !.todo = Page(n),
                                                  !.more = Cardinality(Page(n)) = PageSize]]
      BY <1>4, <2>4 DEF ReindexQueries
    <3>1. /\ job'[w].step = "next" /\ job'[w].phase = phase /\ job'[w].page = n
          /\ job'[w].todo = Page(n) /\ (job'[w].more <=> Cardinality(Page(n)) = PageSize)
      BY <1>0, <3>0 DEF JobTyped, Job
    <3>2. Before(docs, n + 1) \ Page(n) = Before(docs, n)
      BY <1>1
    <3> QED
      BY <1>1, <2>1, <2>2, <3>1, <3>2, AgreesIn DEF AgreesReindexing
  <2> QED
    BY <2>3, <2>4
<1>5. CASE ReindexNext(w)
  <2>1. PICK d \in todo : /\ IF phase = "erase" THEN CallErase(w, SourceOf(d)) ELSE CallIndex(w, d)
                          /\ job' = [job EXCEPT ![w] = [job[w] EXCEPT !.step = "each", !.todo = todo \ {d}]]
    BY <1>5 DEF ReindexNext
  <2>2. UNCHANGED <<docs, legs>> /\ job[w].step = "next"
    BY <1>5 DEF ReindexNext, At, storeVars
  <2>3. /\ job'[w].step = "each" /\ job'[w].phase = phase /\ job'[w].page = n
        /\ job'[w].todo = todo \ {d} /\ job'[w].more = job[w].more
    BY <1>0, <2>1 DEF JobTyped, Job
  <2>4. /\ todo \subseteq Paged(docs, n) /\ (job[w].more <=> Cardinality(Paged(docs, n)) = PageSize)
        /\ \A l \in Legs : legs[l] = D
    BY <2>2 DEF Agrees, AgreesReindexing
  <2>5. d \in docs /\ d \in Documents /\ d \in Before(docs, n + 1) /\ Before(docs, n + 1) \subseteq docs
    BY <1>0, <1>1, <2>4
  <2>6. \A e \in docs : SourceOf(e) = SourceOf(d) => e = d
    BY <2>5 DEF StoreTyped
  <2>7. /\ SourceOf(d) \in Sources
        /\ IF phase = "erase" THEN Calls(w, "erase", SourceOf(d), {}, "todo")
                              ELSE Calls(w, "index", SourceOf(d), {d}, "todo")
    BY <1>0, <2>1, <2>5, CallStarts, IngestAssumption DEF SourceOf, Documents
  <2> DEFINE E == Treated(phase, docs, Before(docs, n + 1) \ (todo \ {d}))
  <2>8. \A e \in Documents : SourceOf(e) # SourceOf(d) => (e \in E <=> e \in D)
    BY <2>5 DEF Treated
  <2>9. IF phase = "erase" THEN Without(SourceOf(d), E) ELSE {d} \subseteq E
    BY <2>5, <2>6 DEF Treated, Without
  <2> HIDE DEF D
  <2>10. \A l \in Legs : \A e \in Documents : SourceOf(e) # SourceOf(d) => (e \in legs'[l] <=> e \in E)
    BY <2>2, <2>4, <2>8
  <2>11. E = Treated(phase, docs, Before(docs, n + 1) \ (todo \ {d}))
    OBVIOUS
  <2> HIDE DEF E
  <2>12. E = Treated(job'[w].phase, docs', Before(docs', job'[w].page + 1) \ job'[w].todo)
    BY <2>2, <2>3, <2>11
  <2>13. call'[w].src = SourceOf(d) /\ (\A l \in Legs : call'[w].leg[l] = "todo")
    BY <2>7 DEF Calls
  <2>14. IF phase = "erase" THEN call'[w].op = "erase" ELSE call'[w].op = "index" /\ call'[w].docs = {d}
    BY <2>7 DEF Calls
  <2>15. AgreesReindexing(w)'
    BY <1>0, <2>2, <2>3, <2>4, <2>9, <2>10, <2>12, <2>13, <2>14 DEF AgreesReindexing, EvenBut, Without
  <2> QED
    BY <2>3, <2>15, AgreesIn
<1>6. CASE ReindexReturns(w)
  <2>1. job[w].step = "each" /\ Returned(w) /\ UNCHANGED <<docs, legs>>
    BY <1>6 DEF ReindexReturns, At, storeVars
  <2>2. /\ todo \subseteq Paged(docs, n) /\ (job[w].more <=> Cardinality(Paged(docs, n)) = PageSize)
        /\ \A l \in Legs : legs[l] = D
    BY <2>1 DEF Returned, Agrees, AgreesReindexing
  <2>3. CASE todo # {}
    <3>1. /\ job'[w].step = "next" /\ job'[w].phase = phase /\ job'[w].page = n
          /\ job'[w].todo = todo /\ job'[w].more = job[w].more
      BY <1>0, <1>6, <2>3 DEF ReindexReturns, Go, JobTyped, Job
    <3> QED
      BY <2>1, <2>2, <3>1, AgreesIn DEF AgreesReindexing
  <2>4. CASE todo = {} /\ job[w].more
    <3>1. job' = [job EXCEPT ![w] = [job[w] EXCEPT !.step = "page", !.page = job[w].page + 1]]
      BY <1>6, <2>4 DEF ReindexReturns
    <3>2. job'[w].step = "page" /\ job'[w].phase = phase /\ job'[w].page = n + 1
      BY <1>0, <3>1 DEF JobTyped, Job
    <3>3. \A l \in Legs : legs[l] = Treated(phase, docs, Before(docs, n + 1))
      BY <2>2, <2>4
    <3> QED
      BY <2>1, <3>2, <3>3, AgreesIn DEF AgreesReindexing
  <2>5. CASE todo = {} /\ ~job[w].more
    <3>1. PhaseOver(w)
      BY <1>6, <2>5 DEF ReindexReturns
    <3>2. Before(docs, n + 1) = docs
      BY <1>1, <2>2, <2>5
    <3>3. \A l \in Legs : legs[l] = Treated(phase, docs, docs)
      BY <2>2, <2>5, <3>2
    <3> QED
      BY <2>1, <3>1, <3>3, PhaseAgrees
  <2> QED
    BY <2>3, <2>4, <2>5
<1> QED
  BY <1>2, <1>3, <1>4, <1>5, <1>6 DEF ReindexTaskStep

\* A leg of a call goes on.
LEMMA LegAgrees ==
    ASSUME AgreesAlone, BaseInv, SweepInv, GoesOn, Next, NEW w \in Workers, Agrees(w), PipelineStep(w),
           job[w].step = "each" => faults' = 0
    PROVE  Agrees(w)'
<1> USE DEF BaseInv
<1>0. /\ JobTyped /\ w \in Callers /\ CallOfJob(w) /\ w \notin canceled /\ docs \subseteq Documents
      /\ faults \in Nat /\ faults' \in Nat /\ faults' >= faults
  BY WorkersCall, FaultsNext, IngestAssumption DEF CallsOfJobs, GoesOn, StoreTyped, TasksTyped
<1>1. UNCHANGED <<job, docs>>
  BY DEF PipelineStep, storeVars
<1>2. PICK l \in Legs :
         \/ LegGoes(w, l, "todo", IF call[w].op = "index" THEN "erased" ELSE "done",
                    IF call[w].op = "sweep" THEN legs[l] \ call[w].docs
                    ELSE {d \in legs[l] : SourceOf(d) # call[w].src})
         \/ LegGoes(w, l, "erased", "done", legs[l] \union call[w].docs)
         \/ /\ LegGoes(w, l, "todo", "failed", legs[l]) \/ LegGoes(w, l, "erased", "failed", legs[l])
            /\ Fault("leg") \/ (call[w].op = "index" /\ \E k \in Legs : call[w].leg[k] = "failed")
  BY <1>0, PipelineMoves
<1>3. /\ call'[w].op = call[w].op /\ call'[w].src = call[w].src /\ call'[w].docs = call[w].docs
      /\ \A k \in Legs \ {l} : call'[w].leg[k] = call[w].leg[k] /\ legs'[k] = legs[k]
      /\ call[w].op # "none"
  BY <1>2 DEF LegGoes
<1>4. job[w].step \in {"index", "unindex", "each", "sweep"}
  BY <1>0, <1>3 DEF CallOfJob
<1>5. CASE call[w].op = "index" /\ job[w].step \in {"index", "each"}
  <2> DEFINE s == call[w].src
             D == IF job[w].step = "index" THEN docs
                  ELSE Treated(job[w].phase, docs, Before(docs, job[w].page + 1) \ job[w].todo)
  <2>1. /\ EvenBut(s, D) /\ D \subseteq docs
        /\ call[w].docs # {} /\ call[w].docs \subseteq D /\ \A d \in call[w].docs : SourceOf(d) = s
        /\ call[w].leg[l] = "erased" => Without(s, legs[l])
    <3>1. CASE job[w].step = "index"
      <4>1. s = Target[job[w].task] /\ call[w].docs = job[w].todo
        BY <1>0, <1>5, <3>1 DEF CallOfJob
      <4>2. PICK m \in 1 .. MaxSaves : job[w].todo = {<<job[w].task, m>>}
        BY <1>0, <3>1 DEF CallOfJob
      <4>3. \A d \in call[w].docs : SourceOf(d) = s
        BY <4>1, <4>2 DEF SourceOf
      <4> QED
        BY <1>5, <3>1, <4>1, <4>2, <4>3 DEF Agrees, AgreesIndexing
    <3>2. CASE job[w].step = "each"
      <4>1. D \subseteq docs
        BY <3>2 DEF Treated, Before
      <4> QED
        BY <1>5, <3>2, <4>1 DEF Agrees, AgreesReindexing
    <3> QED
      BY <1>5, <3>1, <3>2
  <2> HIDE DEF D
  <2>2. /\ \A d \in Documents : SourceOf(d) # s => (d \in legs'[l] <=> d \in legs[l])
        /\ call'[w].leg[l] = "erased" => Without(s, legs'[l])
        /\ call'[w].leg[l] = "done" => legs'[l] = D
        /\ call'[w].leg[l] = "failed" => faults' > 0
    <3>1. CASE LegGoes(w, l, "todo", "erased", {d \in legs[l] : SourceOf(d) # s})
      BY <3>1 DEF LegGoes, Without
    <3>2. CASE LegGoes(w, l, "erased", "done", legs[l] \union call[w].docs)
      <4>0. Without(s, legs[l])
        BY <2>1, <3>2 DEF LegGoes
      <4>1. legs[l] \union call[w].docs = D
        <5>1. /\ D \in SUBSET docs /\ call[w].docs \in SUBSET D /\ call[w].docs # {} /\ EvenBut(s, D)
              /\ \A d \in call[w].docs : SourceOf(d) = s
          BY <2>1
        <5> HIDE DEF s
        <5>2. \A E \in SUBSET D : /\ Without(s, legs[l]) /\ E # {} /\ (\A d \in E : SourceOf(d) = s)
                                  => legs[l] \union E = D
          <6>1. D \in SUBSET docs /\ EvenBut(s, D)
            BY <5>1
          <6> QED
            BY <6>1, OneSource
        <5>3. call[w].docs \in SUBSET D /\ call[w].docs # {} /\ (\A d \in call[w].docs : SourceOf(d) = s)
          BY <5>1
        <5> QED
          BY <4>0, <5>2, <5>3
      <4> QED
        BY <2>1, <3>2, <4>1 DEF LegGoes
    <3>3. CASE /\ LegGoes(w, l, "todo", "failed", legs[l]) \/ LegGoes(w, l, "erased", "failed", legs[l])
               /\ Fault("leg") \/ \E k \in Legs : call[w].leg[k] = "failed"
      <4>1. faults' > 0
        <5>1. CASE Fault("leg")
          BY <5>1, OneFault
        <5>2. ASSUME NEW k \in Legs, call[w].leg[k] = "failed"
              PROVE  faults' > 0
          <6>1. CASE job[w].step = "index"
            BY <1>0, <1>5, <5>2, <6>1 DEF Agrees, AgreesIndexing
          <6>2. CASE job[w].step = "each"
            BY <5>2, <6>2 DEF Agrees, AgreesReindexing
          <6> QED
            BY <1>5, <6>1, <6>2
        <5> QED
          BY <3>3, <5>1, <5>2
      <4> QED
        BY <3>3, <4>1 DEF LegGoes
    <3> QED
      BY <1>2, <1>5, <3>1, <3>2, <3>3
  <2>3. \A k \in Legs : \A d \in Documents : SourceOf(d) # s => (d \in legs'[k] <=> d \in D)
    BY <1>3, <2>1, <2>2 DEF EvenBut
  <2>4. CASE job[w].step = "index"
    <3>1. s = Target[job[w].task] /\ D = docs
      BY <1>0, <1>5, <2>4 DEF CallOfJob, D
    <3>2. EvenBut(Target[job[w].task], docs)'
      BY <1>1, <2>3, <3>1 DEF EvenBut
    <3>3. \A k \in Legs : /\ call'[w].leg[k] = "erased" => Without(s, legs'[k])
                          /\ call'[w].leg[k] = "done" => legs'[k] = docs
                          /\ call'[w].leg[k] = "failed" => faults' > 0
      BY <1>0, <1>3, <1>5, <2>2, <2>4, <3>1 DEF Agrees, AgreesIndexing
    <3>4. AgreesIndexing(w)'
      BY <1>1, <2>4, <3>1, <3>2, <3>3 DEF Agrees, AgreesIndexing
    <3> QED
      BY <1>1, <2>4, <3>4, AgreesIn
  <2>5. CASE job[w].step = "each"
    <3>1. D = Treated(job[w].phase, docs, Before(docs, job[w].page + 1) \ job[w].todo)
      BY <2>5 DEF D
    <3>0. ~(faults' > 0)
      BY <2>5
    <3>2. \A k \in Legs : /\ call'[w].leg[k] # "failed"
                          /\ call'[w].leg[k] = "erased" => Without(s, legs'[k])
                          /\ call'[w].leg[k] = "done" => legs'[k] = D
      <4> SUFFICES ASSUME NEW k \in Legs
                   PROVE  /\ call'[w].leg[k] # "failed"
                          /\ call'[w].leg[k] = "erased" => Without(s, legs'[k])
                          /\ call'[w].leg[k] = "done" => legs'[k] = D
        OBVIOUS
      <4>1. CASE k = l
        BY <2>2, <3>0, <4>1
      <4>2. CASE k # l
        <5>1. /\ call[w].leg[k] # "failed"
              /\ call[w].leg[k] = "erased" => Without(s, legs[k])
              /\ call[w].leg[k] = "done" => legs[k] = D
          BY <2>5, <3>1 DEF Agrees, AgreesReindexing
        <5>2. call'[w].leg[k] = call[w].leg[k] /\ legs'[k] = legs[k]
          BY <1>3, <4>2
        <5> QED
          BY <5>1, <5>2
      <4> QED
        BY <4>1, <4>2
    <3>3. EvenBut(call[w].src, D) /\ AgreesReindexing(w)
      BY <2>1, <2>5 DEF Agrees
    <3>4. AgreesReindexing(w)'
      BY <1>1, <1>3, <1>5, <2>3, <2>5, <3>1, <3>2, <3>3 DEF AgreesReindexing, EvenBut
    <3> QED
      BY <1>1, <2>5, <3>4, AgreesIn
  <2> QED
    BY <1>5, <2>4, <2>5
<1>6. CASE call[w].op = "erase" /\ job[w].step \in {"unindex", "each"}
  <2> DEFINE s == call[w].src
  <2>1. call[w].leg[l] # "erased"
    BY <1>6 DEF Agrees, AgreesIndexing, AgreesReindexing
  <2>2. ~Fault("leg")
    <3>1. job[w].step = "unindex" => faults > 0
      BY DEF Agrees, AgreesIndexing
    <3> QED
      BY <1>6, <3>1, OneFault
  <2>3. LegGoes(w, l, "todo", "done", {d \in legs[l] : SourceOf(d) # s})
    BY <1>2, <1>6, <2>1, <2>2 DEF LegGoes
  <2>4. call'[w].leg[l] = "done" /\ legs'[l] = {d \in legs[l] : SourceOf(d) # s}
    BY <2>3 DEF LegGoes
  <2>5. CASE job[w].step = "unindex"
    <3>1. s = Target[job[w].task] /\ EvenBut(s, docs) /\ faults > 0
      BY <1>0, <2>5 DEF CallOfJob, Agrees, AgreesIndexing
    <3>2. EvenBut(Target[job[w].task], docs)'
      BY <1>1, <1>3, <2>4, <3>1 DEF EvenBut
    <3>3. \A k \in Legs : /\ call'[w].leg[k] \in {"todo", "done"}
                          /\ call'[w].leg[k] = "done" => Without(s, legs'[k])
      BY <1>3, <2>4, <2>5, <3>1 DEF Agrees, AgreesIndexing, Without
    <3>4. AgreesIndexing(w)'
      BY <1>0, <1>1, <2>5, <3>1, <3>2, <3>3 DEF AgreesIndexing
    <3> QED
      BY <1>1, <2>5, <3>4, AgreesIn
  <2>6. CASE job[w].step = "each"
    <3> DEFINE D == Treated(job[w].phase, docs, Before(docs, job[w].page + 1) \ job[w].todo)
    <3>1. EvenBut(s, D) /\ AgreesReindexing(w) /\ Without(s, D) /\ D \subseteq docs
      BY <1>6, <2>6 DEF Agrees, AgreesReindexing, Treated, Before
    <3>2. D = Treated(job[w].phase, docs, Before(docs, job[w].page + 1) \ job[w].todo)
      OBVIOUS
    <3> HIDE DEF D
    <3>3. legs'[l] = D
      BY <2>4, <3>1, OneSource
    <3>4. \A k \in Legs : \A d \in Documents : SourceOf(d) # s => (d \in legs'[k] <=> d \in D)
      BY <1>3, <3>1, <3>3 DEF EvenBut
    <3>5. \A k \in Legs : /\ call'[w].leg[k] \notin {"failed", "erased"}
                          /\ call'[w].leg[k] = "done" => legs'[k] = D
      BY <1>3, <1>6, <2>4, <2>6, <3>1, <3>2, <3>3 DEF AgreesReindexing
    <3>6. AgreesReindexing(w)'
      <4>1. docs' = docs /\ job'[w] = job[w] /\ call'[w].op = "erase" /\ call'[w].src = s
        BY <1>1, <1>3, <1>6
      <4>2. D' = D /\ s' = s
        BY <4>1 DEF D
      <4>3. EvenBut(s, D)'
        BY <3>4, <4>1, <4>2 DEF EvenBut
      <4>4. Without(s, D)'
        BY <3>1, <4>2 DEF Without
      <4>5. D' = Treated(job[w].phase, docs, Before(docs, job[w].page + 1) \ job[w].todo)
        BY <3>2, <4>2
      <4> QED
        BY <1>6, <2>6, <3>1, <3>2, <3>5, <4>1, <4>2, <4>3, <4>4, <4>5 DEF AgreesReindexing
    <3> QED
      BY <1>1, <2>6, <3>6, AgreesIn
  <2> QED
    BY <1>6, <2>5, <2>6
<1>7. CASE call[w].op = "sweep" /\ job[w].step = "sweep"
  <2>1. /\ call[w].docs = job[w].todo /\ job[w].todo \intersect docs = {}
        /\ Partly /\ \A k \in Legs : legs[k] \subseteq docs \union job[w].todo
        /\ call[w].leg[l] # "erased"
    BY <1>0, <1>7 DEF CallOfJob, SweepInv, Agrees, AgreesCleaning
  <2>2. call'[w].leg[l] \in {"done", "failed"} /\ legs'[l] = docs
    <3>1. CASE LegGoes(w, l, "todo", "done", legs[l] \ call[w].docs)
      BY <2>1, <3>1 DEF LegGoes, Partly
    <3>2. CASE LegGoes(w, l, "todo", "failed", legs[l]) /\ Fault("leg")
      BY <2>1, <3>2, OneFault DEF LegGoes, Partly
    <3> QED
      BY <1>2, <1>7, <2>1, <3>1, <3>2 DEF LegGoes
  <2>3. Partly'
    BY <1>0, <1>1, <1>3, <2>1, <2>2 DEF Partly
  <2>4. AgreesCleaning(w)'
    BY <1>1, <1>3, <1>7, <2>1, <2>2, <2>3 DEF AgreesCleaning, Agrees
  <2> QED
    BY <1>1, <1>7, <2>4, AgreesIn
<1> QED
  BY <1>0, <1>3, <1>4, <1>5, <1>6, <1>7 DEF CallOfJob

\* A step that leaves alone what it says of a worker.
LEMMA AgreesKept ==
    ASSUME NEW w \in Workers, Agrees(w), UNCHANGED <<docs, legs>>, job'[w] = job[w], call'[w] = call[w],
           faults > 0 => faults' > 0
    PROVE  Agrees(w)'
<1>1. docs' = docs /\ legs' = legs
  OBVIOUS
<1>2. AgreesIndexing(w)'
  BY <1>1 DEF Agrees, AgreesIndexing, EvenBut
<1>3. AgreesReindexing(w)'
  BY <1>1 DEF Agrees, AgreesReindexing, EvenBut
<1>4. AgreesCleaning(w)'
  <2>1. AgreesCleaning(w)
    BY DEF Agrees
  <2>2. Partly => Partly'
    BY <1>1 DEF Partly
  <2> QED
    BY <1>1, <2>1, <2>2 DEF AgreesCleaning
<1> QED
  BY <1>1, <1>2, <1>3, <1>4 DEF Agrees, Even

\* A task is taken when nothing is left to do for the indexes.
LEMMA TakenAgrees ==
    ASSUME BaseInv, NEW w \in Workers, NEW t \in Tasks, Agrees(w), Begin(w, t)
    PROVE  Agrees(w)'
<1>1. job[w].step = "idle" /\ UNCHANGED <<docs, legs>>
  BY DEF Begin, At, storeVars
<1>2. Even
  BY <1>1 DEF Agrees
<1>3. Even'
  BY <1>1, <1>2 DEF Even
<1>4. JobTyped /\ t \in Tasks /\ KindOf[t] \in {"index", "cleanup", "reindex"}
  BY IngestAssumption DEF BaseInv
<1>5. CASE KindOf[t] = "index"
  <2>1. job'[w].step = "open"
    BY <1>4, <1>5, WorkerTakes
  <2> QED
    BY <1>3, <2>1, AgreesAtRest DEF AtRest
<1>6. CASE KindOf[t] = "reindex"
  <2>1. job'[w].step = "count"
    BY <1>4, <1>6, WorkerTakes
  <2>2. job'[w].phase = "erase" /\ job'[w].page = 0
    BY <1>4 DEF Begin, Idle, JobTyped, Job
  <2> QED
    BY <1>3, <2>1, <2>2 DEF Agrees, AgreesIndexing, AgreesReindexing, AgreesCleaning
<1>7. CASE KindOf[t] = "cleanup"
  <2>1. job'[w].step = "orphans"
    BY <1>4, <1>7, WorkerTakes
  <2>2. Partly'
    BY <1>1, <1>2 DEF Even, Partly
  <2>3. AgreesCleaning(w)'
    BY <2>1, <2>2 DEF AgreesCleaning
  <2> QED
    BY <2>1, <2>3, AgreesIn
<1> QED
  BY <1>4, <1>5, <1>6, <1>7

\* While no fault has happened, or no Reindex was asked for, the store and the
\* indexes stay as the step of the worker makes them.
LEMMA AgreeNext ==
    ASSUME AgreesAlone, BaseInv, SweepInv, DropInv, ExecInv, GoesOn, Ordered, AgreeInv, Next
    PROVE  AgreeInv'
<1> USE DEF BaseInv
<1> SUFFICES ASSUME faults' = 0 \/ NoReindexYet', NEW w \in Workers
             PROVE  Agrees(w)'
  BY DEF AgreeInv
<1>0. /\ JobTyped /\ \A u, v \in Workers : u = v
      /\ faults \in Nat /\ faults' \in Nat /\ faults' >= faults
  BY FaultsNext, IngestAssumption DEF AgreesAlone, TasksTyped
<1>1. Agrees(w)
  BY <1>0, ReindexStays DEF AgreeInv
<1>2. job[w].step \in ReindexStep => faults' = 0
  <2> SUFFICES ASSUME job[w].step \in ReindexStep, NoReindexYet
               PROVE  FALSE
    BY ReindexStays
  <2>1. KindOf[job[w].task] = "reindex" /\ job[w].task # None
    BY DEF JobsOfKind, ReindexStep
  <2>2. job[w].task \in Tasks
    BY <1>0, <2>1, JobFields DEF JobTyped
  <2>3. status[job[w].task] = "running"
    BY <2>2 DEF ExecInv, GoesOn
  <2> QED
    BY <2>1, <2>2, <2>3 DEF NoReindexYet
<1>3. CASE IndexFileStep(w)
  BY <1>1, <1>3, IndexingAgrees
<1>4. CASE ReindexTaskStep(w)
  <2>1. job[w].step \in ReindexStep
    BY <1>4, HandlerAdvances DEF Advances
  <2> QED
    BY <1>1, <1>2, <1>4, <2>1, ReindexingAgrees
<1>5. CASE CleanupTaskStep(w)
  BY <1>1, <1>5, CleaningAgrees
<1>6. CASE Report(w)
  <2>1. job[w].step = "report" /\ UNCHANGED <<docs, legs>> /\ job'[w].step = "idle"
    BY <1>0, <1>6 DEF Report, At, storeVars, Idle, JobTyped
  <2>2. Even'
    BY <1>1, <2>1 DEF Agrees, Even
  <2> QED
    BY <2>1, <2>2, AgreesAtRest DEF AtRest
<1>7. CASE PipelineStep(w)
  <2>1. job[w].step = "each" => faults' = 0
    BY <1>2 DEF ReindexStep
  <2> QED
    BY <1>1, <1>7, <2>1, LegAgrees
<1>8. ~Crash
  BY OneFault DEF Crash
<1>9. ASSUME NEW t \in Tasks, Begin(w, t)
      PROVE  Agrees(w)'
  BY <1>1, <1>9, TakenAgrees
<1>10. CASE UNCHANGED <<docs, legs>> /\ job'[w] = job[w] /\ call'[w] = call[w]
  <2>1. faults > 0 => faults' > 0
    BY <1>0
  <2> QED
    BY <1>1, <1>10, <2>1, AgreesKept
<1> QED
  BY <1>0, <1>3, <1>4, <1>5, <1>6, <1>7, <1>8, <1>9, <1>10, AloneSteps DEF HandlerStep, AgreesAlone

\* When nothing runs, every index holds exactly the documents stored: whatever
\* IndexFile, its compensations and CleanupIndex went through, with one query,
\* conversion, leg or report that fails or the deletion of a collection at any
\* moment, and whatever Reindex went through if nothing failed.
THEOREM QuietIndexesAgree == AgreesAlone => (Spec => []SettledAgree)
<1> SUFFICES ASSUME AgreesAlone
             PROVE  Spec => []SettledAgree
  OBVIOUS
<1>1. Init => GoesOn /\ Ordered /\ AgreeInv
  BY IngestAssumption DEF Init, Runner!Init, PipelineInit, Idle, NoCall, Callers, GoesOn, Ordered, AgreeInv, Agrees,
                          Even, AgreesIndexing, AgreesReindexing, AgreesCleaning
<1>2. BaseInv /\ SweepInv /\ DropInv /\ ExecInv /\ GoesOn /\ Ordered /\ AgreeInv /\ [Next]_vars => AgreeInv'
  <2>1. CASE UNCHANGED vars
    <3>1. UNCHANGED <<docs, legs, job, call, faults, status>>
      BY <2>1 DEF vars, runnerVars, storeVars
    <3>2. ASSUME AgreeInv, faults' = 0 \/ NoReindexYet', NEW w \in Workers
          PROVE  Agrees(w)'
      <4>1. Agrees(w)
        BY <3>1, <3>2 DEF AgreeInv, NoReindexYet
      <4> QED
        BY <3>1, <4>1, AgreesKept
    <3> QED
      BY <3>2 DEF AgreeInv
  <2>2. CASE Next
    BY <2>2, AgreeNext
  <2> QED
    BY <2>1, <2>2
<1>3. ExecInv /\ AgreeInv /\ BaseInv => SettledAgree
  <2> SUFFICES ASSUME ExecInv, AgreeInv, BaseInv, Quiet, faults = 0 \/ NoReindexYet
               PROVE  \A l \in Legs : legs[l] = docs
    BY DEF SettledAgree, NoReindexYet
  <2>1. PICK w \in Workers : TRUE
    BY DEF AgreesAlone
  <2>2. Agrees(w)
    BY DEF AgreeInv
  <2>3. job[w].task \notin Tasks
    BY DEF Quiet, ExecInv
  <2>4. job[w].step = "idle"
    BY <2>3, JobFields DEF BaseInv, JobTyped, JobsOfKind
  <2> QED
    BY <2>2, <2>4 DEF Agrees, Even
<1>4. BaseInv /\ ExecInv /\ GoesOn /\ [Next]_vars => GoesOn'
  BY GoesOnNext
<1> QED
  BY <1>1, <1>2, <1>3, <1>4, BaseInit, BaseNext, SweepInit, SweepNext, ExecInit, ExecNext, OrderedNext,
     PTL DEF Spec
=============================================================================
