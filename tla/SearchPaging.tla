----------------------------- MODULE SearchPaging -----------------------------
(***************************************************************************)
(* A reader that turns the pages of a search (ingest/manager.go Search,       *)
(* amoxtli.go searchPage) while documents come, go and change.  A cursor is    *)
(* all that is kept between two pages: the source it is anchored on, the rank   *)
(* that source had, and the fingerprint of the filter.                       *)
(***************************************************************************)
EXTENDS Integers, Sequences, FiniteSets, SequencesExt, Selecting

CONSTANTS
    Sources,
    Orders,          \* [limit -> sequence of sources]: how the index ranks when asked for limit
    Preference,      \* the sources as the reranker ranks them
    Pool,            \* searchCandidatePool
    DefaultPool,     \* defaultCandidatePool
    FetchFactor,     \* candidateFetchFactor
    FetchGrowth,     \* candidateFetchGrowth
    MaxFetch,        \* maxCandidateFetch
    RerankFactor,    \* rerankWindowFactor
    MinRerank,       \* minRerankWindow
    Readers,         \* the ways to read: page size, pool override, filter, grounding
    Corpora,         \* what the store may hold at first
    Tags,            \* and which documents may satisfy the filter
    MaxEdits         \* bound on the changes of the corpus

\* A ranking has one result for each source.
RankingOf(o) == o \in Seq(Sources) /\ IsInjective(o)

\* Codex.Search leaves the pool to the manager, SearchPage gives its own.
ReaderOf(r) ==
    /\ r.size \in Nat \ {0} /\ r.pool \in {0, Pool}
    /\ {r.filtered, r.pushed, r.vacant, r.reranks, r.failOpen} \subseteq BOOLEAN

ASSUME PagingAssumption ==
    /\ {FetchFactor, MaxFetch} \subseteq Nat \ {0} /\ FetchGrowth \in Nat /\ FetchGrowth > 1
    /\ {DefaultPool, RerankFactor, MinRerank, MaxEdits} \subseteq Nat /\ Pool \in 1 .. MaxFetch
    /\ Preference \in Seq(Sources) /\ IsInjective(Preference) /\ ToSet(Preference) = Sources
    /\ Orders # {} /\ \A o \in Orders : 1 .. MaxFetch \subseteq DOMAIN o /\ \A n \in DOMAIN o : RankingOf(o[n])
    /\ Readers # {} /\ \A r \in Readers : ReaderOf(r)
    /\ Corpora \union Tags \subseteq SUBSET Sources

VARIABLES
    order,      \* how the index ranks
    stored,     \* the documents of the store and the index
    tagged,     \* those whose metadata satisfy the filter
    edits,
    reader,     \* how the reader reads
    step,       \* "new", "rest", "fetch", "judge", "rerank", "page", "ground"; "refused", "failed"
    cursor,     \* what the next page starts from
    fetch,      \* the window asked of the index
    verdicts,   \* [sources judged -> whether the document satisfies the filter]
    list,       \* candidates
    page,       \* the page, as cut
    answer,     \* the page, as answered
    shown,      \* the pages so far
    changed,    \* the corpus has changed since the first page was asked for
    candidates  \* what the filter has selected at some time of the request

corpusVars == <<order, stored, tagged, edits>>
requestVars == <<reader, step, cursor, fetch, verdicts, list, page, answer, shown>>
pagingVars == <<corpusVars, requestVars, changed, candidates>>

Start == [source |-> "start", offset |-> -1, filter |-> "any"]
End   == [source |-> "end", offset |-> -1, filter |-> "any"]

Fewer(m, n) == IF m < n THEN m ELSE n
More(m, n)  == IF m > n THEN m ELSE n

-----------------------------------------------------------------------------
\* The index answers with the first of its ranking.  Under a filter it has
\* pushed down, the first that match.
Satisfying == stored \intersect tagged

\* What the filter selects by the metadata in the store. A document that is gone
\* has none, and a filter on the absence of a key (reader.vacant) selects it.
Fitting == {s \in Sources : IF s \in stored THEN s \in tagged ELSE reader.vacant}

Answer(limit, among) ==
    LET ranked == Among(order[limit], among)
    IN  SubSeq(ranked, 1, Fewer(limit, Len(ranked)))

\* What the cursor skips, the page, and one more to tell whether there is more.
Target == cursor.offset + 1 + reader.size + 1

CandidateWindow == IF Target > MaxFetch THEN MaxFetch ELSE Fewer(Target * FetchFactor, MaxFetch)

\* The first window asked of the index.
Window ==
    CASE reader.filtered /\ reader.pushed -> Fewer(IF reader.pool > 0 THEN reader.pool ELSE Target, MaxFetch)
      [] ~(reader.filtered /\ reader.pushed) /\ reader.pool > 0 -> reader.pool
      [] ~reader.filtered /\ reader.pool = 0 -> Fewer(More(Target, DefaultPool), MaxFetch)
      [] OTHER -> CandidateWindow

\* What the reranker is handed.
RerankWindow(results) == Fewer(Len(results), More(reader.size * RerankFactor, MinRerank))

Reranked(results) == Among(Preference, ToSet(SubSeq(results, 1, RerankWindow(results))))

\* Mutation of RerankTop: what the reranker is not handed is dropped.
RerankTopOnly(results) == Reranked(results)

\* Only the top window is reranked.
RerankTop(results) == Reranked(results) \o SubSeq(results, RerankWindow(results) + 1, Len(results))

\* Mutation of FirstAfter: the cursor is a rank.
FirstAfterOffset(results) == cursor.offset + 2

\* The place of the page: after the anchor, or after all when it is gone.
FirstAfter(results) ==
    CASE cursor = Start -> 1
      [] cursor # Start /\ cursor.source \in ToSet(results) ->
             1 + CHOOSE i \in DOMAIN results : results[i] = cursor.source
      [] OTHER -> Len(results) + 1

-----------------------------------------------------------------------------
PagingInit ==
    /\ order = CHOOSE o \in Orders : TRUE
    /\ stored = {}
    /\ tagged = {}
    /\ edits = 0
    /\ reader = CHOOSE r \in Readers : TRUE
    /\ step = "new"
    /\ cursor = Start
    /\ fetch = 0
    /\ verdicts = << >>
    /\ list = <<>>
    /\ page = <<>>
    /\ answer = [results |-> <<>>, grounding |-> "none"]
    /\ shown = <<>>
    /\ changed = FALSE
    /\ candidates = {}

\* A reader turns to a corpus.
Begin(ranking, documents, tags, r) ==
    /\ step = "new" /\ step' = "rest"
    /\ order' = ranking /\ stored' = documents /\ tagged' = tags /\ reader' = r
    /\ UNCHANGED <<edits, cursor, fetch, verdicts, list, page, answer, shown, changed, candidates>>

\* The next page is asked for, under a filter that selects alike or another.
\* A cursor is refused under a filter it was not issued for.
Ask(filter) ==
    /\ step = "rest" /\ cursor # End
    /\ step' = IF cursor # Start /\ cursor.filter # filter THEN "refused" ELSE "fetch"
    /\ fetch' = Window
    /\ verdicts' = << >>
    /\ candidates' = Fitting
    /\ changed' = (cursor # Start /\ changed)
    /\ UNCHANGED <<corpusVars, reader, cursor, list, page, answer, shown>>

AfterList == IF reader.reranks THEN "rerank" ELSE "page"

RequestTo(next) ==
    /\ step' = next
    /\ UNCHANGED <<corpusVars, reader, shown, changed, candidates>>

Search ==
    /\ step = "fetch"
    /\ list' = Answer(fetch, IF reader.filtered /\ reader.pushed THEN Satisfying ELSE stored)
    /\ RequestTo(IF reader.filtered /\ ~reader.pushed THEN "judge" ELSE AfterList)
    /\ UNCHANGED <<cursor, fetch, verdicts, page, answer>>

\* Mutation of Verdicts: what was marked to be judged passes when its metadata is
\* not found.
VerdictsLenient ==
    [s \in DOMAIN verdicts \union ToSet(list) |->
        IF s \in DOMAIN verdicts THEN verdicts[s] ELSE s \in tagged \/ s \notin stored]

\* The metadata of what is not judged yet is loaded.
Verdicts ==
    [s \in DOMAIN verdicts \union ToSet(list) |-> IF s \in DOMAIN verdicts THEN verdicts[s] ELSE s \in Fitting]

Enough(kept) == Len(kept) >= Target \/ Len(list) < fetch \/ fetch >= MaxFetch

\* Mutation of Wider: the window grows past its bound.
WiderBeyond == fetch * FetchGrowth

\* Mutation of Wider: the window does not grow.
WiderNot == fetch

Wider == Fewer(fetch * FetchGrowth, MaxFetch)

\* Drop what does not satisfy the filter, and ask for more when too little is
\* left.
JudgeMetadata ==
    LET kept == Among(list, {s \in ToSet(list) : Verdicts[s]})
    IN  /\ step = "judge"
        /\ verdicts' = Verdicts
        /\ IF reader.pool > 0 \/ Enough(kept)
           THEN list' = kept /\ RequestTo(AfterList) /\ UNCHANGED fetch
           ELSE fetch' = Wider /\ RequestTo("fetch") /\ UNCHANGED list
        /\ UNCHANGED <<cursor, page, answer>>

Rerank ==
    /\ step = "rerank"
    /\ list' = RerankTop(list)
    /\ RequestTo("page")
    /\ UNCHANGED <<cursor, fetch, verdicts, page, answer>>

\* The index, the store or the reranker fails.
RequestFails ==
    /\ step \in {"fetch", "judge", "rerank"}
    /\ RequestTo("failed")
    /\ UNCHANGED <<cursor, fetch, verdicts, list, page, answer>>

\* Mutation of NextCursor: a page that shows something has a next one.
NextCursorAlways(first, last) ==
    IF first <= Len(list) THEN [source |-> list[last], offset |-> last - 1, filter |-> reader.filter] ELSE End

NextCursor(first, last) ==
    IF first <= Len(list) /\ last < Len(list)
    THEN [source |-> list[last], offset |-> last - 1, filter |-> reader.filter]
    ELSE End

\* The page, and the cursor of the next one when the list goes on.
Paginate ==
    LET first == FirstAfter(list)
        last  == Fewer(first + reader.size - 1, Len(list))
    IN  /\ step = "page"
        /\ page' = SubSeq(list, first, last)
        /\ cursor' = NextCursor(first, last)
        /\ answer' = [results |-> page', grounding |-> "none"]
        /\ shown' = shown \o page'
        /\ step' = IF reader.grounding = "off" THEN "rest" ELSE "ground"
        /\ UNCHANGED <<corpusVars, reader, fetch, verdicts, list, changed, candidates>>

GroundedTo(results, verdict) ==
    /\ step = "ground"
    /\ answer' = [results |-> results, grounding |-> verdict]
    /\ RequestTo("rest")
    /\ UNCHANGED <<cursor, fetch, verdicts, list, page>>

\* Mutation of Demoted: what is not relevant goes.
DemotedAway(relevant) == Among(page, relevant)

Demoted(relevant) == Among(page, relevant) \o Among(page, ToSet(page) \ relevant)

\* The evaluator's verdict; irrelevant results are dropped, or go last.
Ground(relevant) ==
    GroundedTo(IF reader.grounding = "demote" THEN Demoted(relevant)
               ELSE Among(page, relevant), "verdict")

\* The evaluator fails: the page is answered as it is, if the reader has it so.
GroundingFails ==
    IF reader.failOpen THEN GroundedTo(page, "none")
    ELSE step = "ground" /\ RequestTo("failed") /\ UNCHANGED <<cursor, fetch, verdicts, list, page, answer>>

-----------------------------------------------------------------------------
\* Somebody adds, deletes or tags a document, between the steps of a request too.
Edit(documents, tags) ==
    /\ edits < MaxEdits /\ step # "new"
    /\ edits' = edits + 1
    /\ stored' = documents /\ tagged' = tags
    /\ UNCHANGED <<order, requestVars>>
    /\ candidates' = candidates \union Fitting'
    /\ changed' = TRUE

EditSome ==
    \E s \in Sources :
        \/ s \notin stored /\ Edit(stored \union {s}, tagged)
        \/ s \in stored /\ Edit(stored \ {s}, tagged)
        \/ s \in stored /\ Edit(stored, (tagged \ {s}) \union ({s} \ tagged))

RequestGoesOn ==
    \/ Search \/ JudgeMetadata \/ Rerank \/ RequestFails \/ Paginate
    \/ \E relevant \in SUBSET ToSet(page) : Ground(relevant)
    \/ GroundingFails

PagingNext ==
    \/ \E ranking \in Orders, documents \in Corpora, tags \in Tags, r \in Readers :
           Begin(ranking, documents, tags, r)
    \/ \E filter \in {reader.filter, "another"} : Ask(filter)
    \/ RequestGoesOn
    \/ EditSome

-----------------------------------------------------------------------------
PagingTypeOK ==
    /\ stored \subseteq Sources /\ tagged \subseteq Sources /\ edits \in 0 .. MaxEdits
    /\ step \in {"new", "rest", "fetch", "judge", "rerank", "page", "ground", "refused", "failed"}
    /\ fetch \in 0 .. More(MaxFetch, Pool)
    /\ DOMAIN verdicts \subseteq Sources
    /\ Len(page) <= reader.size

\* The index ranks alike whatever it is asked for.
Steady == \A m, n \in DOMAIN order : order[m] = order[n]

\* The ways to read whose window is the same for every page; or grows over a
\* ranking that stays as it is.
Stable == reader.pool > 0 \/ (Steady /\ ~reader.reranks)

\* What there is to show, whatever the pages: a filter outside the index selects
\* among what the widest window holds.
ToShow ==
    ToSet(Answer(IF reader.pool > 0 THEN reader.pool ELSE MaxFetch,
                 IF reader.filtered /\ reader.pushed THEN Satisfying ELSE stored))
    \intersect (IF reader.filtered THEN tagged ELSE Sources)

\* docs/architecture.md:121-130: over a corpus that does not change the pages
\* show every candidate once, however they are cut, and end with the last one.
\* With a fixed pool even when the ranking depends on the window.
PagesPartition ==
    Stable /\ ~changed /\ step \in {"rest", "ground"} =>
        /\ IsInjective(shown)
        /\ ToSet(shown) \subseteq ToShow
        /\ cursor = End => ToSet(shown) = ToShow

\* Documents that come and go do not make a page repeat what another has shown:
\* a cursor is anchored on a source, not on a rank.
NothingTwice == Steady /\ ~reader.reranks => IsInjective(shown)

\* What a page shows under a filter was selected by it while the page was made,
\* although verdicts are kept from one round to the next.
ShownSatisfied ==
    reader.filtered /\ step \in {"rest", "ground"} => ToSet(page) \subseteq candidates

\* There is a next page only after a full one, and a page is cut short, or left
\* empty by the evaluator, without losing the way to the next.
FullBeforeMore ==
    step \in {"rest", "ground"} /\ cursor \notin {Start, End} =>
        Len(page) = reader.size /\ cursor.source = Last(page) /\ cursor.filter = reader.filter

\* Demoting loses nothing, and a verdict is given exactly when there was one.
GroundingKeepsResults ==
    step = "rest" =>
        /\ ToSet(answer.results) \subseteq ToSet(page)
        /\ reader.grounding = "demote" \/ answer.grounding = "none" => ToSet(answer.results) = ToSet(page)
        /\ reader.grounding = "off" => answer.grounding = "none"

\* A request ends: the window grows until its bound.
PageEnds == step \in {"fetch", "judge", "rerank", "page", "ground"} ~> step \in {"rest", "refused", "failed"}

\* What the pages of one search promise together (manager.go:540-670): they share
\* the results out, repeat none, show none the filter refuses, announce a next
\* page only after a full one, and grounding takes away only what it judged.
PagesKeepFaith ==
    /\ PagingTypeOK
    /\ PagesPartition
    /\ NothingTwice
    /\ ShownSatisfied
    /\ FullBeforeMore
    /\ GroundingKeepsResults
=============================================================================
