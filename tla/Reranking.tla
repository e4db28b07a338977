------------------------------- MODULE Reranking -------------------------------
(***************************************************************************)
(* Putting the results of a search in another order (retrieval/rerank.go,     *)
(* retrieval/lexical_rerank.go, profile.go).  The model-free reranker scans     *)
(* each section once, with two pointers over the places of the query's terms,   *)
(* and scores the pool; the other asks a language model for the order.           *)
(* Both end in applyRanking.                                                *)
(*                                                                         *)
(* A text is a sequence of terms.  Scores are in thousandths.                  *)
(***************************************************************************)
EXTENDS Integers, Sequences, FiniteSets, SequencesExt, TLC

CONSTANTS
    Pools,         \* lists of results: [source, sections, score]
    Texts,         \* [sections the store knows -> sequence of terms], one per corpus
    Questions,     \* sequences of terms
    Idf,           \* [number of sections -> [those that hold the term -> its weight]]
    Weights,       \* LexicalWeights: [prior, bm25, coverage, proximity]
    IdOrder,       \* [sections -> place in the order of strings]
    Rankings,      \* what the language model answers
    Rerankers      \* how the Codex is built and asked: [llm, lexical, skipped]

ASSUME RerankAssumption ==
    \A n \in DOMAIN Idf : \A k \in DOMAIN Idf[n] : Idf[n][k] \in Nat

VARIABLES
    reranker,
    retrieved,        \* the results, as retrieved
    texts,
    weights,
    terms,       \* the distinct terms of the query
    rerankStep,  \* "new", "scan", "score", "ask"; "reranked", "asRetrieved", "rerankFailed"
    scanned,     \* sections whose window is known -> its width
    left, right, \* the two pointers of the section being scanned
    best,        \* the smallest window so far, 0 for none
    reranked     \* the results, in their new order

rerankVars == <<reranker, retrieved, texts, weights, terms, rerankStep, scanned, left, right, best, reranked>>

Unranked == 1000000

UniqueTerms(question) == SelectSeq([i \in DOMAIN question |-> <<i, question[i]>>],
                                   LAMBDA p : \A j \in 1 .. p[1] - 1 : question[j] # p[2])

SectionsListed(results) == FlattenSeq([i \in DOMAIN results |-> results[i].sections])

\* The sections the store still has, each once.
Candidates(results) == SelectSeq(SectionsListed(results), LAMBDA s : s \in DOMAIN texts)

Positions(s, term) == {p \in DOMAIN texts[s] : texts[s][p] = term}

MatchedTerms(s) == {t \in terms : Positions(s, t) # {}}

\* Where the terms of the query stand, in order.
Occurrences(s) == SetToSortSeq(UNION {Positions(s, t) : t \in terms}, <)

-----------------------------------------------------------------------------
\* The features of a section, over the pool.
DocumentFrequency(results, term) == Cardinality({s \in ToSet(Candidates(results)) : Positions(s, term) # {}})

TermIdf(results, term) == Idf[Len(Candidates(results))][DocumentFrequency(results, term)]

TotalTokens(results) == MapThenSumSet(LAMBDA s : Len(texts[s]), ToSet(Candidates(results)))

\* bm25K1 * (1 - bm25B + bm25B * length / average), in thousandths.
LengthNorm(results, s) ==
    LET total == TotalTokens(results)
    IN  300 + (IF total = 0 THEN 900 * Len(texts[s]) ELSE (900 * Len(texts[s]) * Len(Candidates(results))) \div total)

Bm25(results, s) ==
    LET Part(t) ==
            LET tf == Cardinality(Positions(s, t))
            IN  (TermIdf(results, t) * tf * 2200) \div (tf * 1000 + LengthNorm(results, s))
    IN  MapThenSumSet(Part, MatchedTerms(s))

\* The share of the query's weight the section holds.
Coverage(results, s) ==
    LET Rarity(t) == TermIdf(results, t)
        total     == MapThenSumSet(Rarity, terms)
    IN  IF total = 0 THEN 0 ELSE (1000 * MapThenSumSet(Rarity, MatchedTerms(s))) \div total

Proximity(s) ==
    LET distinct == Cardinality(MatchedTerms(s))
        width    == scanned[s]
    IN  CASE distinct = 0 -> 0
          [] distinct = 1 -> 1000 \div Cardinality(terms)
          [] OTHER -> (1000 * distinct * distinct) \div (width * Cardinality(terms))

Prior(results, s) == results[CHOOSE i \in DOMAIN results : s \in ToSet(results[i].sections)].score

\* A feature, brought to [0, 1000] over the pool; none when all are alike.
Normalize(results, Feature(_), s) ==
    LET all  == {Feature(c) : c \in ToSet(Candidates(results))}
        span == Max(all) - Min(all)
    IN  IF span = 0 THEN 0 ELSE ((Feature(s) - Min(all)) * 1000) \div span

Score(results, s) ==
    LET PriorOf(c) == Prior(results, c)
        Bm25Of(c)  == Bm25(results, c)
    IN  weights.prior * Normalize(results, PriorOf, s)
        + weights.bm25 * Normalize(results, Bm25Of, s)
        + weights.coverage * Coverage(results, s)
        + weights.proximity * Proximity(s)

\* Mutation of Before: nothing but the score decides.
BeforeByScore(results, s, t, scores) ==
    \/ scores[s] > scores[t]
    \/ scores[s] = scores[t] /\ \E i, j \in DOMAIN SectionsListed(results) :
           i < j /\ SectionsListed(results)[i] = s /\ SectionsListed(results)[j] = t

\* Ties are decided by the identifier.
Before(results, s, t, scores) ==
    scores[s] > scores[t] \/ (scores[s] = scores[t] /\ IdOrder[s] < IdOrder[t])

RankFromScores(results) ==
    LET scores == [s \in ToSet(Candidates(results)) |-> Score(results, s)]
    IN  [s \in DOMAIN scores |-> Cardinality({t \in DOMAIN scores : Before(results, t, s, scores)})]

-----------------------------------------------------------------------------
\* Mutation of RankOf: what has no rank goes by its identifier.
RankOfById(rank, s) == IF s \in DOMAIN rank THEN rank[s] ELSE Unranked - IdOrder[s]

RankOf(rank, s) == IF s \in DOMAIN rank THEN rank[s] ELSE Unranked

\* A stable sort of a sequence by a key.
StableSort(list, Key(_)) ==
    LET places == SortSeq([i \in DOMAIN list |-> i],
                          LAMBDA i, j : Key(list[i]) < Key(list[j]) \/ (Key(list[i]) = Key(list[j]) /\ i < j))
    IN  [i \in DOMAIN list |-> list[places[i]]]

BestRank(rank, sections) == Min({RankOf(rank, s) : s \in ToSet(sections)} \union {Unranked})

\* Mutation of ApplyRanking: what was not ranked goes.
ApplyRankingKnown(results, rank) ==
    LET SectionRank(s) == RankOf(rank, s)
        BestOf(r) == BestRank(rank, r.sections)
    IN  StableSort(SelectSeq([i \in DOMAIN results |->
                        [results[i] EXCEPT !.sections = StableSort(@, SectionRank),
                                           !.score = 1000 \div (1 + BestRank(rank, results[i].sections))]],
                             LAMBDA r : BestOf(r) < Unranked),
                   BestOf)

\* Mutation of ApplyRanking: the scores stay as they were.
ApplyRankingScores(results, rank) ==
    LET SectionRank(s) == RankOf(rank, s)
        BestOf(r) == BestRank(rank, r.sections)
    IN  StableSort([i \in DOMAIN results |-> [results[i] EXCEPT !.sections = StableSort(@, SectionRank)]], BestOf)

\* The sections of each result by rank, the results by their best section; the
\* score is one over one plus the rank.
ApplyRanking(results, rank) ==
    LET SectionRank(s) == RankOf(rank, s)
        BestOf(r) == BestRank(rank, r.sections)
    IN  StableSort([i \in DOMAIN results |->
                        [results[i] EXCEPT !.sections = StableSort(@, SectionRank),
                                           !.score = 1000 \div (1 + BestRank(rank, results[i].sections))]],
                   BestOf)

-----------------------------------------------------------------------------
RerankInit ==
    /\ reranker = CHOOSE r \in Rerankers : TRUE
    /\ retrieved = <<>>
    /\ texts = CHOOSE t \in Texts : TRUE
    /\ weights = CHOOSE w \in Weights : TRUE
    /\ terms = {}
    /\ rerankStep = "new"
    /\ scanned = << >>
    /\ left = 1 /\ right = 0
    /\ best = 0
    /\ reranked = <<>>

\* stagedReranker: the language model when it may, else the lexical one.
UsesModel(r) == r.llm /\ ~r.skipped

FirstStep(r, results, corpus, question) ==
    CASE Len(results) <= 1 \/ ~(UsesModel(r) \/ r.lexical) -> "asRetrieved"
      [] Len(results) > 1 /\ UsesModel(r) -> "ask"
      [] Len(results) > 1 /\ ~UsesModel(r) /\ r.lexical ->
             IF question = <<>> \/ ~\E i \in DOMAIN results : ToSet(results[i].sections) \intersect DOMAIN corpus # {}
             THEN "asRetrieved" ELSE "scan"

AskReranker(r, results, corpus, question, w) ==
    /\ rerankStep = "new"
    /\ reranker' = r /\ retrieved' = results /\ texts' = corpus /\ weights' = w
    /\ terms' = {p[2] : p \in ToSet(UniqueTerms(question))}
    /\ rerankStep' = FirstStep(r, results, corpus, question)
    /\ reranked' = results
    /\ UNCHANGED <<scanned, left, right, best>>

\* The section whose turn it is.
Scanning == (SelectSeq(Candidates(retrieved), LAMBDA s : s \notin DOMAIN scanned))[1]

TermsBetween(s, from, to) == {texts[s][Occurrences(s)[i]] : i \in from .. to}

Complete == TermsBetween(Scanning, left, right) = MatchedTerms(Scanning)

ScanTo(width, l, r) ==
    /\ best' = width /\ left' = l /\ right' = r
    /\ UNCHANGED <<reranker, retrieved, texts, weights, terms, rerankStep, scanned, reranked>>

\* Mutation of Shrink: the window moves on as a whole.
ShrinkMoves ==
    LET width == Occurrences(Scanning)[right] - Occurrences(Scanning)[left] + 1
    IN  ScanTo(IF best = 0 \/ width < best THEN width ELSE best, right + 1, right)

\* The window holds every term: it is measured, and its first place left out.
Shrink ==
    LET width == Occurrences(Scanning)[right] - Occurrences(Scanning)[left] + 1
    IN  ScanTo(IF best = 0 \/ width < best THEN width ELSE best, left + 1, right)

\* The window slides over the places of the terms.
Slide ==
    /\ rerankStep = "scan" /\ \E s \in ToSet(Candidates(retrieved)) : s \notin DOMAIN scanned
    /\ Cardinality(MatchedTerms(Scanning)) > 1
    /\ IF left <= right /\ Complete THEN Shrink
       ELSE right < Len(Occurrences(Scanning)) /\ ScanTo(best, left, right + 1)

\* A section is over; with one term at most there is no window to look for.
EndSection ==
    /\ rerankStep = "scan" /\ \E s \in ToSet(Candidates(retrieved)) : s \notin DOMAIN scanned
    /\ \/ Cardinality(MatchedTerms(Scanning)) <= 1
       \/ right = Len(Occurrences(Scanning)) /\ ~(left <= right /\ Complete)
    /\ scanned' = scanned @@ (Scanning :> best)
    /\ left' = 1 /\ right' = 0 /\ best' = 0
    /\ UNCHANGED <<reranker, retrieved, texts, weights, terms, rerankStep, reranked>>

RerankTo(step, results) ==
    /\ rerankStep' = step /\ reranked' = results
    /\ UNCHANGED <<reranker, retrieved, texts, weights, terms, scanned, left, right, best>>

ScorePool ==
    /\ rerankStep = "scan" /\ ToSet(Candidates(retrieved)) = DOMAIN scanned
    /\ RerankTo("reranked", ApplyRanking(retrieved, RankFromScores(retrieved)))

\* The order the model answers: an identifier counts once, where it stands first.
ModelRank(ranking) ==
    LET first == {i \in DOMAIN ranking : \A j \in 1 .. i - 1 : ranking[j] # ranking[i]}
    IN  [s \in ToSet(ranking) |->
            Cardinality({i \in first : \E k \in first : ranking[k] = s /\ i < k})]

AskModel(ranking) ==
    /\ rerankStep = "ask"
    /\ RerankTo("reranked", ApplyRanking(retrieved, ModelRank(ranking)))

RerankFails ==
    /\ rerankStep \in {"scan", "ask"}
    /\ RerankTo("rerankFailed", retrieved)

RerankNext ==
    \/ \E r \in Rerankers, results \in Pools, corpus \in Texts, question \in Questions, w \in Weights :
           AskReranker(r, results, corpus, question, w)
    \/ Slide
    \/ EndSection
    \/ ScorePool
    \/ \E ranking \in Rankings : AskModel(ranking)
    \/ RerankFails

-----------------------------------------------------------------------------
\* lexical_rerank.go, proximityScore: "Smallest window containing all distinct
\* terms, by the standard two pointers".
WindowIsSmallest ==
    \A s \in DOMAIN scanned :
        Cardinality(MatchedTerms(s)) > 1 =>
            scanned[s] = Min({j - i + 1 : <<i, j>> \in
                {p \in (DOMAIN texts[s]) \X (DOMAIN texts[s]) :
                    p[1] <= p[2] /\ MatchedTerms(s) \subseteq {texts[s][k] : k \in p[1] .. p[2]}}})

\* rerank.go:19-20: "every input result is preserved", whatever the model
\* answers, with the sections it had.
OnlyReorders ==
    LET Held(r) == [source |-> r.source, sections |-> ToSet(r.sections)]
    IN  rerankStep # "new" =>
            /\ Len(reranked) = Len(retrieved)
            /\ {Held(r) : r \in ToSet(reranked)} = {Held(r) : r \in ToSet(retrieved)}

\* Scores follow the order, as what merges and cuts the list goes by them.
ScoresFollowOrder ==
    rerankStep = "reranked" =>
        \A i, j \in DOMAIN reranked : i < j => reranked[i].score >= reranked[j].score

\* applyRanking: what the model did not rank, or the store has lost, stays "in
\* its prior relative order at the tail".
UnrankedKeepOrder ==
    rerankStep = "reranked" =>
        LET tail == SelectSeq(reranked, LAMBDA r : r.score = 0)
            PlaceOf(r) == CHOOSE i \in DOMAIN retrieved : retrieved[i].source = r.source
        IN  /\ \A i, j \in DOMAIN tail : i < j => PlaceOf(tail[i]) < PlaceOf(tail[j])
            /\ \A i, j \in DOMAIN reranked : i < j /\ reranked[i].score = 0 => reranked[j].score = 0

\* rankFromScores: "the ordering deterministic across runs and instances": it
\* does not depend on the order in which the pool came.
PoolOrderIrrelevant ==
    rerankStep = "reranked" /\ ~UsesModel(reranker)
    /\ (\A r \in ToSet(retrieved) : ToSet(r.sections) \subseteq DOMAIN texts) =>
        ApplyRanking(Reverse(retrieved), RankFromScores(Reverse(retrieved))) = reranked

\* What reranking promises: the same sections in another order, scores that follow
\* it, what was not ranked in the order it had, independently of how the pool
\* came; the proximity of a section is that of its smallest window.
RerankKeepsFaith ==
    /\ WindowIsSmallest
    /\ OnlyReorders
    /\ ScoresFollowOrder
    /\ UnrankedKeepOrder
    /\ PoolOrderIrrelevant
=============================================================================
