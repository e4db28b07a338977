------------------------------- MODULE LegSearch -------------------------------
(***************************************************************************)
(* What a leg answers to a search: the nearest rows of the vector index       *)
(* (sqlitevec), the best hits of the full-text index (bleve), and the two      *)
(* queries of the Postgres index, which run at a time over one pool of          *)
(* connections and are fused.                                               *)
(*                                                                         *)
(* A passage is what an index stores of a section.  It has a source, a        *)
(* section, the collections of its document, how well the words of the query    *)
(* match it (0: not at all), and its distances to the query: the true one and    *)
(* that of the binary quantization.                                         *)
(***************************************************************************)
EXTENDS Integers, Sequences, FiniteSets, FiniteSetsExt, SequencesExt

CONSTANTS
    Libraries,           \* what may be indexed: functions from numbers to passages
    Wishes,              \* searches: [max, scope, filtered, valid]
    Engines,             \* "bleve", "vec", "coarse", "postgres", "textOnly"
    Seekers,             \* goroutines that search
    DefaultResults,      \* when no maximum is asked for
    UnfilteredOversample,
    CoarseOversample,
    Connections,         \* of the Postgres pool
    HeapFactor, MinHeap, MaxHeap    \* of the index scan of Postgres (efSearch)

ASSUME ConnectionsAssumption == Connections \in Nat \ {0}

VARIABLES
    passages,   \* what is indexed, alike in every engine
    quest,      \* the search of each seeker and what it returned
    idle        \* connections in the pool

legVars == <<passages, quest, idle>>

NoPlace == 0   \* the partition of what is in no collection
Rrf == 60
Scale == 1000000
Endless == 1000000000   \* +Inf: the inverse of the smallest number

NoWish == [max |-> 0, scope |-> <<>>, filtered |-> FALSE, valid |-> TRUE]

NoQuest ==
    [engine |-> "none", wish |-> NoWish, text |-> "none", vector |-> "none", end |-> "none",
     heard |-> <<<<>>, <<>>>>, results |-> <<>>]

-----------------------------------------------------------------------------
Limit(wish) == IF wish.max > 0 THEN wish.max ELSE DefaultResults

WithinScope(p, wish) == wish.scope = <<>> \/ ToSet(wish.scope) \intersect passages[p].places # {}

Fits(p, wish) == wish.filtered => passages[p].fits

Closer(p, q, measure) ==
    \/ passages[p][measure] < passages[q][measure]
    \/ passages[p][measure] = passages[q][measure] /\ p < q

\* One row for each collection of a passage, in the partition of that collection.
Rows ==
    UNION {IF passages[p].places = {} THEN {<<p, NoPlace>>} ELSE {p} \X passages[p].places : p \in DOMAIN passages}

Nearest(rows, k, measure) ==
    {r \in rows : Cardinality({q \in rows : \/ Closer(q[1], r[1], measure)
                                            \/ q[1] = r[1] /\ q[2] < r[2]}) < k}

\* Mutation of KnnLeg: the filter is applied to what the query returned.
KnnLegThenFilter(rows, k, wish, coarse) ==
    {r \in Nearest(rows, k, "distance") : Fits(r[1], wish)}

\* The filter is within the query: its k rows are k rows that satisfy it.
KnnLeg(rows, k, wish, coarse) ==
    LET fitting == {r \in rows : Fits(r[1], wish)}
    IN  IF coarse
            THEN Nearest(Nearest(fitting, k * CoarseOversample, "hamming"), k, "distance")
            ELSE Nearest(fitting, k, "distance")

\* Mutation of KnnRows: rows of one passage take the places of others.
KnnRowsOnce(wish, coarse) == KnnLeg({r \in Rows : WithinScope(r[1], wish)}, Limit(wish), wish, coarse)

\* A leg for each collection asked for, or one over all of them.
KnnRows(wish, coarse) ==
    IF wish.scope = <<>>
        THEN KnnLeg(Rows, Limit(wish) * UnfilteredOversample, wish, coarse)
        ELSE UNION {KnnLeg({r \in Rows : r[2] = place}, Limit(wish), wish, coarse) : place \in ToSet(wish.scope)}

FirstOf(s, k) == SubSeq(s, 1, IF Len(s) < k THEN Len(s) ELSE k)

VecHits(wish, coarse) ==
    FirstOf(SetToSortSeq({r[1] : r \in KnnRows(wish, coarse)}, LAMBDA p, q : Closer(p, q, "distance")), Limit(wish))

\* The passages of among that a word of the query is in, best first.
TextHits(wish, among) ==
    FirstOf(SetToSortSeq({p \in among : passages[p].words > 0 /\ WithinScope(p, wish)},
                         LAMBDA p, q : \/ passages[p].words > passages[q].words
                                       \/ passages[p].words = passages[q].words /\ p < q),
            Limit(wish))

\* The full-text index has one entry for a section, Postgres one for a passage.
Entries == {p \in DOMAIN passages : \A q \in DOMAIN passages : q < p => passages[q].section # passages[p].section}

Fitting(wish) == {p \in DOMAIN passages : Fits(p, wish)}

\* Mutation of Heap: the server's own.
HeapOfServer(limit) == MinHeap

\* efSearch: the heap of the index scan covers the limit, within what the server
\* accepts; the server's own is MinHeap.
Heap(limit) == Min({Max({limit * HeapFactor, MinHeap}), MaxHeap})

\* The vector leg of Postgres has one row for each passage; what the scan keeps
\* in its heap is filtered, then cut.
AnnHits(wish, heap) ==
    LET scanned == {p \in DOMAIN passages : Cardinality({q \in DOMAIN passages : Closer(q, p, "distance")}) < heap}
    IN  FirstOf(SetToSortSeq({p \in scanned \intersect Fitting(wish) : WithinScope(p, wish)},
                             LAMBDA p, q : Closer(p, q, "distance")), Limit(wish))

-----------------------------------------------------------------------------
\* 1 / distance, or the inverse of the smallest number when they are equal.
Nearness(p) == IF passages[p].distance = 0 THEN Endless ELSE Scale \div passages[p].distance

\* The parts both legs of Postgres give a passage.
Fused(p, text, vector) ==
    LET Part(hits) == IF p \in ToSet(hits) THEN Scale \div (Rrf + CHOOSE n \in DOMAIN hits : hits[n] = p) ELSE 0
    IN  Part(text) + Part(vector)

Total(chosen, Worth(_)) ==
    IF \E p \in chosen : Worth(p) = Endless THEN Endless ELSE MapThenSumSet(Worth, chosen)

\* Mutation of SectionsOf: a section comes as often as its passages.
SectionsOfEach(hits, source, once) ==
    LET places == SetToSortSeq({n \in DOMAIN hits : passages[hits[n]].source = source}, LAMBDA m, n : m < n)
    IN  [n \in DOMAIN places |-> passages[hits[places[n]]].section]

\* The sections of a source, in the order of the hits.
SectionsOf(hits, source, once) ==
    LET Repeated(n) == \E m \in 1 .. n - 1 : passages[hits[m]].section = passages[hits[n]].section
        places == SetToSortSeq({n \in DOMAIN hits : passages[hits[n]].source = source /\ ~(once /\ Repeated(n))},
                               LAMBDA m, n : m < n)
    IN  [n \in DOMAIN places |-> passages[hits[places[n]]].section]

\* One result for each source, by decreasing score; equal ones in any order.
Answers(hits, once, Worth(_)) ==
    LET results == {[source |-> s, sections |-> SectionsOf(hits, s, once),
                     score |-> Total({p \in ToSet(hits) : passages[p].source = s}, Worth)] :
                        s \in {passages[p].source : p \in ToSet(hits)}}
    IN  {order \in SetToSeqs(results) : \A m, n \in DOMAIN order : m < n => order[m].score >= order[n].score}

ByWords(hits) == Answers(hits, FALSE, LAMBDA p : passages[p].words)

ByNearness(hits) == Answers(hits, FALSE, Nearness)

\* The maps of both legs are visited in any order.
ByFusion(text, vector) ==
    UNION {Answers(hits, TRUE, LAMBDA p : Fused(p, text, vector)) : hits \in SetToSeqs(ToSet(text) \union ToSet(vector))}

-----------------------------------------------------------------------------
\* With a model and without: the latter has no vector leg.
Postgres == {"postgres", "textOnly"}

\* Search and SearchFiltered.  A filter with an invalid key is refused at once;
\* the full-text index takes none.
Ask(u, engine, wish) ==
    /\ quest[u].engine = "none"
    /\ engine = "bleve" => ~wish.filtered
    /\ quest' = [quest EXCEPT ![u] =
           IF ~wish.valid THEN [NoQuest EXCEPT !.engine = engine, !.wish = wish, !.end = "failed"]
           ELSE IF engine \notin Postgres THEN [NoQuest EXCEPT !.engine = engine, !.wish = wish]
           ELSE [NoQuest EXCEPT !.engine = engine, !.wish = wish, !.text = "acquire",
                                !.vector = IF engine = "postgres" THEN "embed" ELSE "done"]]
    /\ UNCHANGED <<passages, idle>>

Searching(u) == quest[u].engine # "none" /\ quest[u].end = "none"

BleveSearch(u) ==
    /\ Searching(u) /\ quest[u].engine = "bleve"
    /\ LET hits == TextHits(quest[u].wish, Entries)
       IN  \E results \in ByWords(hits) :
               quest' = [quest EXCEPT ![u].end = "answered", ![u].heard[1] = hits, ![u].results = results]
    /\ UNCHANGED <<passages, idle>>

\* The rows are read in one savepoint, so by one step.
VecSearch(u) ==
    /\ Searching(u) /\ quest[u].engine \in {"vec", "coarse"}
    /\ LET hits == VecHits(quest[u].wish, quest[u].engine = "coarse")
       IN  \E results \in ByNearness(hits) :
               quest' = [quest EXCEPT ![u].end = "answered", ![u].heard[2] = hits, ![u].results = results]
    /\ UNCHANGED <<passages, idle>>

\* The query is not embedded, or the index is not read.
LegFails(u) ==
    /\ Searching(u) /\ quest[u].engine \notin Postgres
    /\ quest' = [quest EXCEPT ![u].end = "failed"]
    /\ UNCHANGED <<passages, idle>>

-----------------------------------------------------------------------------
(***************************************************************************)
(* Postgres: ftsSearch and vecSearch in one errgroup.                        *)
(***************************************************************************)
On(u, leg, step) == Searching(u) /\ quest[u].engine \in Postgres /\ quest[u][leg] = step

Acquires(u, leg, from, to) ==
    /\ On(u, leg, from) /\ idle > 0
    /\ idle' = idle - 1
    /\ quest' = [quest EXCEPT ![u][leg] = to]
    /\ UNCHANGED passages

FtsAcquire(u) == Acquires(u, "text", "acquire", "query")

FtsQuery(u) ==
    /\ On(u, "text", "query")
    /\ quest' = [quest EXCEPT ![u].text = "done", ![u].heard[1] = TextHits(quest[u].wish, Fitting(quest[u].wish))]
    /\ idle' = idle + 1
    /\ UNCHANGED passages

Embed(u) ==
    /\ On(u, "vector", "embed")
    /\ quest' = [quest EXCEPT ![u].vector = "acquire"]
    /\ UNCHANGED <<passages, idle>>

Begin(u) == Acquires(u, "vector", "acquire", "set")

SetHeap(u) ==
    /\ On(u, "vector", "set")
    /\ quest' = [quest EXCEPT ![u].vector = "query"]
    /\ UNCHANGED <<passages, idle>>

FallingBack == {u \in Seekers : quest[u].vector \in {"replay", "replaying"}}

\* SET LOCAL fails: the transaction is given back at the return only.
SetHeapFails(u) ==
    /\ On(u, "vector", "set")
    /\ quest' = [quest EXCEPT ![u].vector = "replay"]
    /\ UNCHANGED <<passages, idle>>

VecQuery(u) ==
    /\ On(u, "vector", "query")
    /\ quest' = [quest EXCEPT ![u].vector = "done", ![u].heard[2] = AnnHits(quest[u].wish, Heap(Limit(quest[u].wish)))]
    /\ idle' = idle + 1
    /\ UNCHANGED passages

\* The second connection, next to the transaction that failed.
ReplayAcquire(u) == Acquires(u, "vector", "replay", "replaying")

Replay(u) ==
    /\ On(u, "vector", "replaying")
    /\ quest' = [quest EXCEPT ![u].vector = "replayed", ![u].heard[2] = AnnHits(quest[u].wish, MinHeap)]
    /\ idle' = idle + 2
    /\ UNCHANGED passages

Over == {"done", "replayed", "failed"}

HeldBy(u, leg) ==
    CASE quest[u][leg] \in {"set", "query", "replay"} -> 1
      [] quest[u][leg] = "replaying" -> 2
      [] OTHER -> 0

\* Mutation of PgFails: a leg that fails keeps its connections.
PgFailsLeaking(u, leg) ==
    /\ Searching(u) /\ quest[u].engine \in Postgres /\ quest[u][leg] \notin Over
    /\ quest' = [quest EXCEPT ![u][leg] = "failed"]
    /\ UNCHANGED <<passages, idle>>

\* A leg fails by itself, or because the other one did, or the caller is gone:
\* whatever it waits for returns, and its connections go back.
PgFails(u, leg) ==
    /\ Searching(u) /\ quest[u].engine \in Postgres /\ quest[u][leg] \notin Over
    /\ quest' = [quest EXCEPT ![u][leg] = "failed"]
    /\ idle' = idle + HeldBy(u, leg)
    /\ UNCHANGED passages

\* Mutation of Joins: what one leg found is answered.
JoinsEither(u) == \E leg \in {"text", "vector"} : On(u, leg, "done")

\* group.Wait: both legs are over.
Joins(u) == On(u, "text", "done") /\ quest[u].vector \in Over \ {"failed"}

Fuse(u) ==
    /\ Joins(u)
    /\ \E results \in ByFusion(quest[u].heard[1], quest[u].heard[2]) :
           quest' = [quest EXCEPT ![u].end = "answered", ![u].results = results]
    /\ UNCHANGED <<passages, idle>>

GiveError(u) ==
    /\ Searching(u) /\ quest[u].engine \in Postgres
    /\ {quest[u].text, quest[u].vector} \subseteq Over
    /\ "failed" \in {quest[u].text, quest[u].vector}
    /\ quest' = [quest EXCEPT ![u].end = "failed"]
    /\ UNCHANGED <<passages, idle>>

-----------------------------------------------------------------------------
LegInit ==
    /\ passages \in Libraries
    /\ quest = [u \in Seekers |-> NoQuest]
    /\ idle = Connections

LegNext ==
    \E u \in Seekers :
        \/ \E engine \in Engines, wish \in Wishes : Ask(u, engine, wish)
        \/ BleveSearch(u) \/ VecSearch(u) \/ LegFails(u)
        \/ FtsAcquire(u) \/ FtsQuery(u) \/ Embed(u) \/ Begin(u) \/ SetHeap(u) \/ SetHeapFails(u)
        \/ VecQuery(u) \/ ReplayAcquire(u) \/ Replay(u)
        \/ PgFails(u, "text") \/ PgFails(u, "vector") \/ Fuse(u) \/ GiveError(u)

LegSpec == LegInit /\ [][LegNext]_legVars

-----------------------------------------------------------------------------
LegTypeOK ==
    /\ idle \in 0 .. Connections
    /\ \A u \in Seekers : quest[u].end \in {"none", "answered", "failed"}

Answered(u) == quest[u].end = "answered"

\* The passages a search may return.
Eligible(wish) == {p \in Fitting(wish) : WithinScope(p, wish)}

\* The most collections that a passage the search may return is in.
Spread(wish) == Max({1} \union {Cardinality(passages[p].places) : p \in Eligible(wish)})

\* The passages that the rows of the query hold at least: those of a search over
\* all collections are oversampled, as they repeat what is in several.
Reach(wish) ==
    IF wish.scope = <<>> THEN (Limit(wish) * UnfilteredOversample + Spread(wish) - 1) \div Spread(wish)
                         ELSE Limit(wish)

\* A vector leg is "guaranteed to return up to maxResults matches": as many
\* passages as there are, in any partition and under any filter, the nearest
\* ones unless they were preselected, each once; and over all collections at least
\* those that the oversample reaches, all of them if none is in more collections.
LegFills ==
    \A u \in Seekers : Answered(u) /\ quest[u].engine \in {"vec", "coarse"} =>
        LET wish == quest[u].wish
            hits == ToSet(quest[u].heard[2])
        IN  /\ hits \subseteq Eligible(wish)
            /\ IsInjective(quest[u].heard[2]) /\ Len(quest[u].heard[2]) <= Limit(wish)
            /\ Cardinality(hits) >= Min({Limit(wish), Reach(wish), Cardinality(Eligible(wish))})
            /\ quest[u].engine = "vec" => \A p \in hits, q \in Eligible(wish) \ hits : Closer(p, q, "distance")

\* "oversampled to absorb the duplicate rows of multi-collection chunks"
\* (sqlitevec/index.go:801-802): a search over all collections returns as many
\* passages as are asked for, if there are as many. The code does not keep this
\* for passages in more collections than the factor.
OversampleAbsorbs ==
    \A u \in Seekers : Answered(u) /\ quest[u].engine = "vec" /\ quest[u].wish.scope = <<>> =>
        Len(quest[u].heard[2]) = Min({Limit(quest[u].wish), Cardinality(Eligible(quest[u].wish))})

\* A search of Postgres returns what both legs found, each section once; a
\* vector leg without restrictions does not "silently come back short", unless
\* it fell back to the heap of the server.
FusionIsWhole ==
    \A u \in Seekers : Answered(u) /\ quest[u].engine \in Postgres =>
        LET wish == quest[u].wish
            results == quest[u].results
            found == ToSet(quest[u].heard[1]) \union ToSet(quest[u].heard[2])
        IN  /\ ToSet(TextHits(wish, Fitting(wish))) \subseteq found
            /\ quest[u].vector = "done" /\ quest[u].engine = "postgres" /\ wish.scope = <<>> /\ ~wish.filtered
                   => Len(quest[u].heard[2]) = Min({Limit(wish), Cardinality(DOMAIN passages)})
            /\ UNION {ToSet(results[n].sections) : n \in DOMAIN results} = {passages[p].section : p \in found}
            /\ \A n \in DOMAIN results : IsInjective(results[n].sections)
            /\ {results[n].source : n \in DOMAIN results} = {passages[p].source : p \in found}

\* The connections that are lent: to which leg of which search, and how many to it.
Lent == {l \in Seekers \X {"text", "vector"} \X {1, 2} : l[3] <= HeldBy(l[1], l[2])}

\* No search loses a connection, whichever leg of it fails when.
ConnectionsReturn == idle = Connections - Cardinality(Lent)

\* A leg that needs no further connection to go on.
GoesOn(u) == quest[u].text = "query" \/ quest[u].vector \in {"set", "query", "replaying"}

\* "falls back to a plain query rather than failing the search"
\* (postgres/index.go:773-774): when the pool is empty, somebody will give a
\* connection back without waiting for another. The code does not keep this;
\* what it keeps is OnlyFallbacksStarve.
FallbacksGoOn == idle = 0 => \E u \in Seekers : GoesOn(u)

\* The pool is exhausted for good by nothing but as many fallbacks as it has
\* connections, each with one and waiting for its second.
OnlyFallbacksStarve == FallbacksGoOn \/ Cardinality(FallingBack) >= Connections

\* What the legs promise the pipeline: they fill, they are fused whole, no search
\* keeps a connection, and only fallbacks wait for one that cannot come.
LegsKeepFaith ==
    /\ LegTypeOK
    /\ LegFills
    /\ FusionIsWhole
    /\ ConnectionsReturn
    /\ OnlyFallbacksStarve
=============================================================================
