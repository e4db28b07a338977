---------------------------- MODULE IndexPipeline ----------------------------
(***************************************************************************)
(* The index pipeline (index/pipeline): one index made of several legs,    *)
(* bleve and the vector indexes.  Index, DeleteBySource and DeleteByID run *)
(* on every leg concurrently and return when all legs have returned; one   *)
(* leg's failure does not undo what another leg did.                       *)
(*                                                                         *)
(* A leg indexes a document in two writes: it erases what it holds for the *)
(* source, then adds the sections of the document.  The vector leg takes a *)
(* lock for both, and computes the embeddings before; bleve takes none.    *)
(* The sections of a document are indexed together (bleve flushes batches  *)
(* of 500), so a leg holds documents.                                      *)
(***************************************************************************)
EXTENDS Integers, FiniteSets

CONSTANTS
    Legs,       \* the indexes of the pipeline
    Vector,     \* the legs that embed and lock (sqlite-vec)
    Sources,    \* document sources (URLs)
    Documents,  \* one identity per document saved: a re-indexed source is a new document
    SourceOf(_),\* the source of a document
    Callers,    \* the goroutines that call the pipeline
    Faults,     \* the kinds of fault that may happen (bound)
    MaxFaults,  \* how many of them (bound)
    None

VARIABLES
    legs,       \* [Legs -> SUBSET Documents]: what each leg holds
    call,       \* the pipeline call each caller is in
    faults

LegStep == {"todo", "erased", "done", "failed"}

Call == [op   : {"none", "index", "erase", "sweep"},
         src  : Sources \union {None},   \* what index and erase delete first
         docs : SUBSET Documents,        \* what index adds and sweep (DeleteByID) deletes
         leg  : [Legs -> LegStep]]

NoCall == [op |-> "none", src |-> None, docs |-> {}, leg |-> [l \in Legs |-> "done"]]

Fault(kind) == kind \in Faults /\ faults < MaxFaults /\ faults' = faults + 1

Calling(op, src, docs) == [op |-> op, src |-> src, docs |-> docs, leg |-> [l \in Legs |-> "todo"]]

\* Index.Index, Index.DeleteBySource, Index.DeleteByID.
CallIndex(c, d)     == call' = [call EXCEPT ![c] = Calling("index", SourceOf(d), {d})]
CallErase(c, s)     == call' = [call EXCEPT ![c] = Calling("erase", s, {})]
CallSweep(c, docs)  == call' = [call EXCEPT ![c] = Calling("sweep", None, docs)]

\* fanOut waits for every leg, then returns their values or their errors.
Returned(c) == call[c].op # "none" /\ \A l \in Legs : call[c].leg[l] \in {"done", "failed"}
Succeeds(c) == Returned(c) /\ \A l \in Legs : call[c].leg[l] = "done"
EndCall(c)  == call' = [call EXCEPT ![c] = NoCall]

\* The lock of a vector leg is held from the erasure to the insertion.
Unlocked(l) == l \in Vector => \A c \in Callers : call[c].leg[l] # "erased"

LegErases(c, l) ==
    /\ call[c].op # "none"
    /\ call[c].leg[l] = "todo"
    /\ Unlocked(l)
    /\ legs' = [legs EXCEPT ![l] =
          IF call[c].op = "sweep" THEN @ \ call[c].docs
                                  ELSE {d \in @ : SourceOf(d) # call[c].src}]
    /\ call' = [call EXCEPT ![c].leg[l] = IF call[c].op = "index" THEN "erased" ELSE "done"]
    /\ UNCHANGED faults

LegWrites(c, l) ==
    /\ call[c].leg[l] = "erased"
    /\ legs' = [legs EXCEPT ![l] = @ \union call[c].docs]
    /\ call' = [call EXCEPT ![c].leg[l] = "done"]
    /\ UNCHANGED faults

\* A write of the leg fails, before or after the erasure.
LegFails(c, l) ==
    /\ call[c].leg[l] \in {"todo", "erased"}
    /\ Fault("leg")
    /\ call' = [call EXCEPT ![c].leg[l] = "failed"]
    /\ UNCHANGED legs

\* The embeddings of a vector leg stop early: their context is canceled by the
\* caller's, or by the leg that has failed.
LegStops(c, l, canceled) ==
    /\ l \in Vector
    /\ call[c].op = "index"
    /\ call[c].leg[l] = "todo"
    /\ canceled \/ \E k \in Legs : call[c].leg[k] = "failed"
    /\ call' = [call EXCEPT ![c].leg[l] = "failed"]
    /\ UNCHANGED <<legs, faults>>

PipelineInit ==
    /\ legs = [l \in Legs |-> {}]
    /\ call = [c \in Callers |-> NoCall]
    /\ faults = 0
=============================================================================
