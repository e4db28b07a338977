------------------------------- MODULE Retrieval -------------------------------
(***************************************************************************)
(* The iterative search (retrieval/orchestrator.go and the stages it calls):  *)
(* a question is split, its parts searched side by side, what they found        *)
(* fused, judged and, while the verdict is not confident, searched for again    *)
(* in other words.                                                          *)
(***************************************************************************)
EXTENDS Integers, Sequences, FiniteSets, SequencesExt, Selecting

CONSTANTS
    Question,        \* the query of the caller
    Hits,            \* [queries -> sequence of results], one per corpus
    Trimmed,         \* [what a model writes -> the query it is]
    Decompositions,  \* what the decomposer writes
    Reformulations,  \* what the reformulator writes
    MaxSubQueries,
    Concurrency,     \* retrieveConcurrency
    Known,           \* the sections the store still has
    Budget,          \* how many sections fit the evaluator's prompt
    Scores,          \* what the evaluator writes, in tenths
    MinScore,        \* groundingMinScore, in tenths
    Settings         \* how the orchestrator is built and asked

\* What is left of a text of blanks.
Blank == ""

\* A section is of one document, a search has one result for each document, and a
\* result has each section once.
HitsOf(h, q) ==
    /\ h[q] \in Seq(ToSet(h[q]))
    /\ \A r \in ToSet(h[q]) : r \in [source : {r.source}, sections : Seq(ToSet(r.sections))]
    /\ \A r \in ToSet(h[q]) : IsInjective(r.sections)
    /\ \A i, j \in DOMAIN h[q] : i # j => ToSet(h[q][i].sections) \intersect ToSet(h[q][j].sections) = {}

ASSUME RetrievalAssumption ==
    /\ {MaxSubQueries, Concurrency} \subseteq Nat \ {0} /\ Scores \subseteq Int
    /\ Settings # {} /\ \A s \in Settings : s.maxRounds \in Nat \ {0}
    /\ \A d \in Decompositions : d \in Seq(DOMAIN Trimmed)
    /\ Reformulations \subseteq DOMAIN Trimmed
    /\ Hits # {} /\ \A h \in Hits : \A q \in DOMAIN h : HitsOf(h, q)
    /\ \A h \in Hits : {Question} \union ({Trimmed[w] : w \in DOMAIN Trimmed} \ {Blank}) \subseteq DOMAIN h

VARIABLES
    setting,
    hits,        \* what the searches find
    phase,       \* "new", "decompose", "search", "evaluate", "reformulate"; "done", "failed"
    asked,       \* the query being retrieved
    queries,     \* what it was split into
    legs,        \* per query: "waits", "searches", "done", "failed"
    groups,      \* per query: its results
    evidence,    \* the results so far
    verdict,     \* [status, score] or NoVerdict
    judged,      \* the sections the verdict is about, and those it kept
    kept,
    rounds,
    calls        \* calls of the language model per stage

retrievalVars ==
    <<setting, hits, phase, asked, queries, legs, groups, evidence, verdict, judged, kept, rounds, calls>>

NoVerdict == [status |-> "none", score |-> 0]

SectionsOf(results) == UNION {ToSet(results[i].sections) : i \in DOMAIN results}

Runs(stage) == stage \in setting.stages /\ stage \notin setting.skipped

-----------------------------------------------------------------------------
\* Mutation of FuseResults: a section comes once per group.
FuseResultsPerGroup(results) == results

Earlier(results, i) == UNION {ToSet(results[j].sections) : j \in 1 .. i - 1}

WithSections(results) == Among(results, {r \in ToSet(results) : r.sections # <<>>})

\* The union of groups, each section with the first that has it; what is left
\* with no section goes.
FuseResults(results) ==
    WithSections([i \in DOMAIN results |->
        [results[i] EXCEPT !.sections = Among(@, ToSet(@) \ Earlier(results, i))]])

FilterRelevant(results, relevant) ==
    WithSections([i \in DOMAIN results |-> [results[i] EXCEPT !.sections = Among(@, relevant)]])

\* Mutation of DemoteIrrelevant: what is not relevant goes.
DemoteDrops(results, relevant) == SelectSeq(results, LAMBDA r : ToSet(r.sections) \intersect relevant # {})

DemoteIrrelevant(results, relevant) ==
    LET some == {r \in ToSet(results) : ToSet(r.sections) \intersect relevant # {}}
    IN  Among(results, some) \o Among(results, ToSet(results) \ some)

\* The distinct sub-queries of an answer, at most MaxSubQueries, the query itself
\* when there is none.
SubQueries(written) ==
    LET read  == [i \in DOMAIN written |-> Trimmed[written[i]]]
        First == {i \in DOMAIN read : read[i] # Blank /\ \A j \in 1 .. i - 1 : read[j] # read[i]}
        first == Among([i \in DOMAIN read |-> i], First)
        count == IF Len(first) < MaxSubQueries THEN Len(first) ELSE MaxSubQueries
    IN  IF first = <<>> THEN <<asked>> ELSE [n \in 1 .. count |-> read[first[n]]]

Queries(written) ==
    LET others == Among(SubQueries(written), ToSet(SubQueries(written)) \ {asked})
    IN  <<asked>> \o others

\* What the evaluator is shown: the first sections the store knows, as long as
\* the budget lasts.
EvidenceShown ==
    LET sections == Among(FlattenSeq([i \in DOMAIN evidence |-> evidence[i].sections]), Known)
    IN  ToSet(SubSeq(sections, 1, IF Len(sections) < Budget THEN Len(sections) ELSE Budget))

\* Mutation of Clamped: a score beyond one is kept.
ClampedBelow(score) == IF score < 0 THEN 0 ELSE score

Clamped(score) == IF score < 0 THEN 0 ELSE IF score > 10 THEN 10 ELSE score

NormalizedStatus(status) == IF status \in {"valid", "partial"} THEN status ELSE "invalid"

Confident(v) == v.status = "valid" /\ v.score >= MinScore

-----------------------------------------------------------------------------
RetrievalInit ==
    /\ setting = CHOOSE s \in Settings : TRUE
    /\ hits = CHOOSE h \in Hits : TRUE
    /\ phase = "new"
    /\ asked = Question
    /\ queries = <<>>
    /\ legs = <<>>
    /\ groups = <<>>
    /\ evidence = <<>>
    /\ verdict = NoVerdict
    /\ judged = {}
    /\ kept = {}
    /\ rounds = 0
    /\ calls = [s \in {"decompose", "evaluate", "reformulate"} |-> 0]

Called(stage) == calls' = [calls EXCEPT ![stage] = @ + 1]

\* The queries of a retrieval, with nothing found yet.
LegsFor(qs) ==
    /\ phase' = "search"
    /\ queries' = qs
    /\ legs' = [i \in DOMAIN qs |-> "waits"]
    /\ groups' = [i \in DOMAIN qs |-> <<>>]

\* orchestrator.retrieve: split the query if a decomposer may, or search it.
Retrieve(query, runs) ==
    /\ asked' = query
    /\ IF runs THEN phase' = "decompose" /\ UNCHANGED <<queries, legs, groups>> ELSE LegsFor(<<query>>)

AskQuestion(s, h) ==
    /\ phase = "new"
    /\ setting' = s /\ hits' = h
    /\ Retrieve(Question, "decompose" \in s.stages \ s.skipped)
    /\ UNCHANGED <<evidence, verdict, judged, kept, rounds, calls>>

Decompose(written) ==
    /\ phase = "decompose"
    /\ Called("decompose")
    /\ LegsFor(Queries(written))
    /\ UNCHANGED <<setting, hits, asked, evidence, verdict, judged, kept, rounds>>

\* The searches start in order, at most Concurrency at once; the failure of one
\* cancels the context of the others, which may still end or fail.
StartLeg(i) ==
    /\ phase = "search" /\ legs[i] = "waits"
    /\ \A j \in 1 .. i - 1 : legs[j] # "waits"
    /\ Cardinality({j \in DOMAIN legs : legs[j] = "searches"}) < Concurrency
    /\ legs' = [legs EXCEPT ![i] = "searches"]
    /\ UNCHANGED <<setting, hits, phase, asked, queries, groups, evidence, verdict, judged, kept, rounds, calls>>

\* Mutation of Group: the results are kept in the order in which they come.
GroupByArrival(i) ==
    LET done == Cardinality({j \in DOMAIN legs : legs[j] \in {"done", "failed"}})
    IN  [groups EXCEPT ![done + 1] = hits[queries[i]]]

\* Each search writes at its own place.
Group(i) == [groups EXCEPT ![i] = hits[queries[i]]]

EndLeg(i, how) ==
    /\ phase = "search" /\ legs[i] = "searches"
    /\ legs' = [legs EXCEPT ![i] = how]
    /\ groups' = IF how = "done" THEN Group(i) ELSE groups
    /\ UNCHANGED <<setting, hits, phase, asked, queries, evidence, verdict, judged, kept, rounds, calls>>

\* Mutation of AfterFusion: the last round is not judged.
AfterFusionLast(results) ==
    IF Runs("grounding") /\ results # <<>> /\ rounds < setting.maxRounds THEN "evaluate" ELSE "done"

\* With evidence there is something to evaluate; without there is no verdict.
AfterFusion(results) ==
    IF Runs("grounding") /\ results # <<>> THEN "evaluate" ELSE "done"

\* Mutation of SearchesOver: a search that failed is waited for.
SearchesDone == \A i \in DOMAIN legs : legs[i] = "done"

SearchesOver == \A i \in DOMAIN legs : legs[i] \in {"done", "failed"}

\* What the searches found, as one list of results.
Found == IF Runs("decompose") THEN FuseResults(FlattenSeq(groups)) ELSE groups[1]

FuseTo(all) ==
    /\ evidence' = all
    /\ phase' = AfterFusion(all)

\* All searches are over: what they found is added to the evidence.
Fuse ==
    /\ phase = "search" /\ SearchesOver
    /\ IF \A i \in DOMAIN legs : legs[i] = "done"
       THEN \E found \in {Found} : \E all \in {IF rounds = 0 THEN found ELSE FuseResults(evidence \o found)} : FuseTo(all)
       ELSE phase' = "failed" /\ UNCHANGED evidence
    /\ UNCHANGED <<setting, hits, asked, queries, legs, groups, verdict, judged, kept, rounds, calls>>

\* Mutation of AfterVerdict: the bound is one more round.
AfterVerdictOnce(v) ==
    IF Confident(v) \/ ~Runs("reformulate") \/ rounds > setting.maxRounds THEN "done" ELSE "reformulate"

\* A confident verdict ends the search, and so does the last round.
AfterVerdict(v) ==
    IF Confident(v) \/ ~Runs("reformulate") \/ rounds >= setting.maxRounds THEN "done" ELSE "reformulate"

RelevanceApplied(relevant) ==
    IF setting.mode = "demote" THEN DemoteIrrelevant(evidence, relevant) ELSE FilterRelevant(evidence, relevant)

\* The verdict on all the evidence, and what it does to it.
EvaluateTo(relevant, v) ==
    /\ phase = "evaluate"
    /\ Called("evaluate")
    /\ verdict' = v
    /\ judged' = SectionsOf(evidence)
    /\ kept' = relevant
    /\ evidence' = RelevanceApplied(relevant)
    /\ phase' = AfterVerdict(v)
    /\ UNCHANGED <<setting, hits, asked, queries, legs, groups, rounds>>

\* The model names sections it was shown, or some it was not.
Evaluate(relevant, status, score) ==
    EvaluateTo(relevant, [status |-> NormalizedStatus(status), score |-> Clamped(score)])

\* The answer of the model holds no verdict: everything is kept.
EvaluateNothing == EvaluateTo(SectionsOf(evidence), [status |-> "partial", score |-> 5])

\* The question in other words; nothing, or the question itself, ends the search.
Reformulate(written) ==
    LET query == Trimmed[written]
    IN  /\ phase = "reformulate"
        /\ Called("reformulate")
        /\ IF query \in {Blank, Question}
           THEN phase' = "done" /\ UNCHANGED <<asked, queries, legs, groups, rounds>>
           ELSE Retrieve(query, Runs("decompose")) /\ rounds' = rounds + 1
        /\ UNCHANGED <<setting, hits, evidence, verdict, judged, kept>>

\* A stage fails, and the search with it.
RetrievalStageFails ==
    /\ phase \in {"decompose", "evaluate", "reformulate"}
    /\ Called(phase)
    /\ phase' = "failed"
    /\ UNCHANGED <<setting, hits, asked, queries, legs, groups, evidence, verdict, judged, kept, rounds>>

RetrievalGoesOn ==
    \/ \E written \in Decompositions : Decompose(written)
    \/ \E i \in DOMAIN legs : StartLeg(i) \/ EndLeg(i, "done") \/ EndLeg(i, "failed")
    \/ Fuse
    \/ \E relevant \in SUBSET EvidenceShown, status \in {"valid", "maybe"}, score \in Scores :
           Evaluate(relevant \union {"unknown"}, status, score)
    \/ EvaluateNothing
    \/ \E written \in Reformulations : Reformulate(written)
    \/ RetrievalStageFails

RetrievalNext ==
    \/ \E s \in Settings, h \in Hits : AskQuestion(s, h)
    \/ RetrievalGoesOn

-----------------------------------------------------------------------------
RetrievalTypeOK ==
    /\ phase \in {"new", "decompose", "search", "evaluate", "reformulate", "done", "failed"}
    /\ legs \in Seq({"waits", "searches", "done", "failed"})
    /\ Len(groups) = Len(legs) /\ Len(legs) <= MaxSubQueries + 1
    /\ verdict.score \in 0 .. 10 /\ verdict.status \in {"none", "valid", "partial", "invalid"}

\* However queries and rounds overlap, a section is in the evidence once, and no
\* query is searched twice in one retrieval.
EvidenceOnce ==
    /\ \A i, j \in DOMAIN evidence : i # j => ToSet(evidence[i].sections) \intersect ToSet(evidence[j].sections) = {}
    /\ IsInjective(queries)

\* retrieval/orchestrator.go, retrieve: fusion is "identical to the sequential
\* form": what an earlier query found leads, in whatever order the searches end.
EarlierQueriesLead ==
    rounds = 0 /\ phase = "evaluate" =>
        LET FirstOf(s) == CHOOSE i \in DOMAIN queries :
                /\ s \in SectionsOf(hits[queries[i]])
                /\ \A j \in 1 .. i - 1 : s \notin SectionsOf(hits[queries[j]])
        IN  /\ queries[1] = Question
            /\ \A i, j \in DOMAIN evidence : i < j =>
                   \A s \in ToSet(evidence[i].sections), t \in ToSet(evidence[j].sections) : FirstOf(s) <= FirstOf(t)

\* What the caller is given with a verdict is what the verdict is about: nothing
\* that came after it, and under GroundingFilter nothing it did not keep.
VerdictIsCurrent ==
    phase = "done" /\ verdict # NoVerdict =>
        /\ SectionsOf(evidence) \subseteq judged
        /\ setting.mode = "filter" => SectionsOf(evidence) \subseteq kept

\* GroundingDemote: no round loses what another has found.
DemoteKeepsAll ==
    phase = "done" /\ setting.mode = "demote" =>
        /\ judged \subseteq SectionsOf(evidence)
        /\ SectionsOf(hits[asked]) \subseteq SectionsOf(evidence)
        /\ SectionsOf(hits[Question]) \subseteq SectionsOf(evidence)

\* The language model is called a bounded number of times; a confident verdict
\* is the last call.
CallsBounded ==
    /\ rounds <= setting.maxRounds
    /\ calls["evaluate"] <= rounds + 1
    /\ calls["decompose"] <= rounds + 1
    /\ calls["reformulate"] <= setting.maxRounds
    /\ Confident(verdict) => phase = "done"

\* An iterative search ends.
RetrievalEnds == phase # "new" ~> phase \in {"done", "failed"}

\* What an iterative search promises of its evidence: each section once, the
\* results of earlier queries first, a verdict on the evidence that is returned,
\* nothing lost by demoting, and a bounded number of calls to the model.
EvidenceKeepsFaith ==
    /\ RetrievalTypeOK
    /\ EvidenceOnce
    /\ EarlierQueriesLead
    /\ VerdictIsCurrent
    /\ DemoteKeepsAll
    /\ CallsBounded
=============================================================================
