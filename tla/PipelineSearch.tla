---------------------------- MODULE PipelineSearch ----------------------------
(***************************************************************************)
(* One search of the index pipeline (index/pipeline, wired by amoxtli.go):    *)
(* every leg searches, at once, the variant of the query its kind calls for;  *)
(* the lists are fused by reciprocal rank, then reduced by the transformers.  *)
(*                                                                         *)
(* A query is the sequence of the texts it is made of.  A result is a source  *)
(* and its sections, best first; scores are exact fractions over Scale.       *)
(***************************************************************************)
EXTENDS Integers, Sequences, FiniteSets, SequencesExt, TLC

CONSTANTS
    Legs,
    Capabilities,     \* [Legs -> sequence of sets]: an index under its decorators, outermost
                      \* first, and what each declares ("semantic", "filterable")
    MaxUnwrap,        \* maxUnwrapDepth
    Weight,           \* [Legs -> positive integer]
    Lists,            \* the lists of results a leg may find
    Matching,         \* the sources that satisfy the filter
    Order,            \* [sources and sections -> place in the order of strings]
    Branch,           \* [sections -> sections from the root to itself]
    Words,            \* [sections of the store -> length]
    MaxTotalWords,    \* words the judge is shown
    MaxSectionWords,  \* and of each section
    Requests,         \* searches: the stages the Codex is built with and the options of one
    Replies,          \* what the translator may answer, sequences of texts
    MaxTargets        \* languages a query is translated into

VARIABLES
    request,    \* the options of the Codex and of the search
    stage,      \* "idle", "legs", "reduce", "judge", "answered", "failed"
    variant,    \* per kind: "idle", "running", "ready" or "failed"
    text,       \* per kind: the query it has become
    leg,        \* per leg: "waits", "searches", "done", "failed"
    found,      \* per leg: the results
    paid,       \* calls of a language model per stage
    merged,     \* the results as fused
    results

pipeVars == <<request, stage, variant, text, leg, found, paid, merged, results>>

UserQuery == "question"
Hypothesis == "hypothesis"
Kinds == {"semantic", "lexical"}

Least(m, n) == IF m < n THEN m ELSE n

-----------------------------------------------------------------------------
\* Capabilities, through at most MaxUnwrap decorators.

\* Mutation of Capable: decorators are not looked through.
CapableItself(l, capability) == capability \in Head(Capabilities[l])

Capable(l, capability) ==
    \E i \in 1 .. Least(MaxUnwrap, Len(Capabilities[l])) : capability \in Capabilities[l][i]

KindOf(l) == IF Capable(l, "semantic") THEN "semantic" ELSE "lexical"

\* The pipeline filters when every leg does.
Filterable == Legs # {} /\ \A l \in Legs : Capable(l, "filterable")

-----------------------------------------------------------------------------
\* The transformers.  New passes an option for each; an option replaces what
\* those before it have set.

QueryOptions == (IF request.hyde THEN <<<<"hyde">>>> ELSE <<>>)
                \o (IF request.translates THEN <<<<"translate">>>> ELSE <<>>)

QueryTransformers == IF QueryOptions = <<>> THEN <<>> ELSE Last(QueryOptions)

\* Mutation of Scope: translation serves every leg.
ScopeWide(transformer) == IF transformer = "hyde" THEN {"semantic"} ELSE Kinds

Scope(transformer) == IF transformer = "hyde" THEN {"semantic"} ELSE {"lexical"}

Applied(kind) == SelectSeq(QueryTransformers, LAMBDA t : kind \in Scope(t) /\ t \notin request.skipped)

\* Mutation of Targets: the inventory is cut first.
TargetsCutFirst ==
    SelectSeq(SubSeq(request.corpus, 1, Least(MaxTargets, Len(request.corpus))), LAMBDA c : c # request.language)

\* The languages of the corpus, the one the query is surely in excepted;
\* "unsure" is the language of no document.
Targets ==
    LET others == SelectSeq(request.corpus, LAMBDA c : c # request.language)
    IN  SubSeq(others, 1, Least(MaxTargets, Len(others)))

\* The query and the translations that say something else.
RECURSIVE Widened(_, _)
Widened(query, translations) ==
    IF translations = <<>> THEN query
    ELSE LET t == Head(translations)
         IN  Widened(IF t = "blank" \/ t \in ToSet(query) THEN query ELSE Append(query, t), Tail(translations))

-----------------------------------------------------------------------------
\* Reciprocal rank fusion, k = 60.  Lists hold at most three entries, and an
\* entry once.
Scale == 61 * 62 * 63

\* Mutation of Share: an occurrence counts, whatever its rank.
ShareOfOccurrence(l, rank) == IF rank = 0 THEN 0 ELSE Weight[l] * Scale

\* What a leg adds for a rank; rank 0 is that of what it has not found.
Share(l, rank) == IF rank = 0 THEN 0 ELSE (Weight[l] * Scale) \div (60 + rank)

RankIn(s, x) == IF x \in ToSet(s) THEN CHOOSE i \in DOMAIN s : s[i] = x ELSE 0

SourcesOf(l) == [i \in DOMAIN found[l] |-> found[l][i].source]
SectionsIn(l, source) ==
    LET rank == RankIn(SourcesOf(l), source) IN IF rank = 0 THEN <<>> ELSE found[l][rank].sections

SumOverLegs(F(_)) == FoldSet(LAMBDA l, sum : sum + F(l), 0, Legs)

SourceScore(source) == SumOverLegs(LAMBDA l : Share(l, RankIn(SourcesOf(l), source)))
SectionScore(source, section) == SumOverLegs(LAMBDA l : Share(l, RankIn(SectionsIn(l, source), section)))

\* A set as a sequence, best score first, then in the order of strings.
Ranked(S, Score(_)) ==
    SortSeq(SetToSeq(S), LAMBDA a, b : Score(a) > Score(b) \/ (Score(a) = Score(b) /\ Order[a] < Order[b]))

FoundSources == UNION {ToSet(SourcesOf(l)) : l \in Legs}

Fused ==
    LET Entry(source) ==
            [source |-> source,
             sections |-> Ranked(UNION {ToSet(SectionsIn(l, source)) : l \in Legs},
                                 LAMBDA s : SectionScore(source, s))]
        sources == Ranked(FoundSources, SourceScore)
    IN  [i \in DOMAIN sources |-> Entry(sources[i])]

MaxResults == IF request.max = 0 THEN 3 ELSE request.max

-----------------------------------------------------------------------------
\* The reduction of the sections of a result to those that do not repeat each
\* other (DuplicateContentResultsTransformer).

IsParentOf(s, child) == Len(Branch[child]) > 1 /\ Branch[child][Len(Branch[child]) - 1] = s
IsAncestor(s, other) == IsPrefix(Branch[s], Branch[other])

\* Mutation of Undoubled: a section gives way to its ancestors only.
UndoubledUpwards(sections) ==
    LET stored == SelectSeq(sections, LAMBDA s : s \in DOMAIN Words)
    IN  SelectSeq(stored, LAMBDA s : ~\E o \in ToSet(stored) : IsParentOf(o, s))

\* A section gives way to its children, and what is left to its ancestors.
Undoubled(sections) ==
    LET stored == SelectSeq(sections, LAMBDA s : s \in DOMAIN Words)
        leaves == SelectSeq(stored, LAMBDA s : ~\E c \in ToSet(stored) : c # s /\ IsParentOf(s, c))
    IN  SelectSeq(leaves, LAMBDA s : ~\E o \in ToSet(leaves) : o # s /\ IsAncestor(o, s))

Empty(list) == \A i \in DOMAIN list : list[i].sections = <<>>

\* The sections the judge is shown: while words are left, in the order of the
\* results.
AllSections(list) == FlattenSeq([i \in DOMAIN list |-> list[i].sections])

RECURSIVE WordsOf(_)
WordsOf(sections) ==
    IF sections = <<>> THEN 0
    ELSE Least(MaxSectionWords, Words[Head(sections)]) + WordsOf(Tail(sections))

Shown(list) ==
    LET known == SelectSeq(AllSections(list), LAMBDA s : s \in DOMAIN Words)
    IN  {known[i] : i \in {j \in DOMAIN known : WordsOf(SubSeq(known, 1, j - 1)) < MaxTotalWords}}

\* Mutation of Kept: a result stays when its sections go.
KeptEmpty(list, relevant) ==
    [i \in DOMAIN list |->
        [list[i] EXCEPT !.sections = SelectSeq(@, LAMBDA s : s \in relevant)]]

Kept(list, relevant) ==
    SelectSeq([i \in DOMAIN list |->
                [list[i] EXCEPT !.sections = SelectSeq(@, LAMBDA s : s \in relevant)]],
              LAMBDA r : r.sections # <<>>)

-----------------------------------------------------------------------------
NoRequest ==
    [hyde |-> FALSE, translates |-> FALSE, judges |-> FALSE, filtered |-> FALSE,
     skipped |-> {}, max |-> 0, corpus |-> <<>>, language |-> "unsure"]

PipeInit ==
    /\ request = NoRequest
    /\ stage = "idle"
    /\ variant = [k \in Kinds |-> "idle"]
    /\ text = [k \in Kinds |-> <<UserQuery>>]
    /\ leg = [l \in Legs |-> "waits"]
    /\ found = [l \in Legs |-> <<>>]
    /\ paid = [s \in {"hyde", "translate", "judge"} |-> 0]
    /\ merged = <<>>
    /\ results = <<>>

\* A filter is refused when a leg does not filter.
StartSearch(r) ==
    /\ stage = "idle"
    /\ request' = r
    /\ stage' = IF r.filtered /\ ~Filterable THEN "failed" ELSE "legs"
    /\ UNCHANGED <<variant, text, leg, found, paid, merged, results>>

\* Mutation of AskVariant: each leg computes its own.
AskVariantAgain(l) ==
    /\ stage = "legs" /\ leg[l] = "waits" /\ variant[KindOf(l)] \in {"idle", "ready"}
    /\ variant' = [variant EXCEPT ![KindOf(l)] = "running"]
    /\ UNCHANGED <<request, stage, text, leg, found, paid, merged, results>>

\* The first leg of a kind computes the variant (sync.OnceValues).
AskVariant(l) ==
    /\ stage = "legs" /\ leg[l] = "waits" /\ variant[KindOf(l)] = "idle"
    /\ variant' = [variant EXCEPT ![KindOf(l)] = "running"]
    /\ UNCHANGED <<request, stage, text, leg, found, paid, merged, results>>

BecomesReady(kind, query, calls) ==
    /\ variant[kind] = "running"
    /\ variant' = [variant EXCEPT ![kind] = "ready"]
    /\ text' = [text EXCEPT ![kind] = query]
    /\ paid' = calls
    /\ UNCHANGED <<request, stage, leg, found, merged, results>>

\* Nothing to transform it with, or into.
KeepQuery(kind) ==
    /\ Applied(kind) = <<>> \/ (Applied(kind) = <<"translate">> /\ Targets = <<>>)
    /\ BecomesReady(kind, text[kind], paid)

Hypothesize(kind) ==
    /\ Applied(kind) = <<"hyde">>
    /\ BecomesReady(kind, Append(text[kind], Hypothesis), [paid EXCEPT !["hyde"] = @ + 1])

\* The model may answer with the query itself, with nothing, or twice alike.
Translate(kind) ==
    /\ Applied(kind) = <<"translate">> /\ Targets # <<>>
    /\ \E reply \in Replies : BecomesReady(kind, Widened(text[kind], reply), [paid EXCEPT !["translate"] = @ + 1])

\* A transformer fails or panics.
VariantFails(kind) ==
    /\ variant[kind] = "running" /\ Applied(kind) # <<>>
    /\ variant' = [variant EXCEPT ![kind] = "failed"]
    /\ UNCHANGED <<request, stage, text, leg, found, paid, merged, results>>

LegTo(l, state) ==
    /\ leg' = [leg EXCEPT ![l] = state]
    /\ UNCHANGED <<request, stage, variant, text, paid, merged, results>>

SendQuery(l) ==
    /\ stage = "legs" /\ leg[l] = "waits" /\ variant[KindOf(l)] = "ready"
    /\ LegTo(l, "searches")
    /\ UNCHANGED found

\* Mutation of LegFinds: the results are there before the leg is done.
LegFindsEarly(l) ==
    /\ leg[l] = "searches" /\ found[l] = <<>>
    /\ \E list \in Lists : list # <<>> /\ found' = [found EXCEPT ![l] = list]
    /\ LegTo(l, "searches")

\* A leg finds at most twice what is asked for, and what matches when the filter
\* is pushed down.
LegFinds(l) ==
    /\ leg[l] = "searches"
    /\ \E list \in Lists :
        /\ Len(list) <= 2 * MaxResults
        /\ request.filtered => \A i \in DOMAIN list : list[i].source \in Matching
        /\ found' = [found EXCEPT ![l] = list]
    /\ LegTo(l, "done")

\* Mutation of LegFails: a panic in the variant ends the leg without a word.
LegFailsAlone(l) ==
    /\ leg[l] = "searches"
    /\ LegTo(l, "failed")
    /\ UNCHANGED found

\* Its variant has failed, or it fails or panics: fanOut makes an error of it.
LegFails(l) ==
    /\ leg[l] = "searches" \/ (leg[l] = "waits" /\ variant[KindOf(l)] = "failed")
    /\ LegTo(l, "failed")
    /\ UNCHANGED found

\* Mutation of Merge: the legs that have succeeded are enough.
MergeWhatIsThere ==
    /\ stage = "legs" /\ \A l \in Legs : leg[l] \in {"done", "failed"}
    /\ stage' = "reduce"
    /\ merged' = SubSeq(Fused, 1, Least(MaxResults, Len(Fused)))
    /\ results' = merged'
    /\ UNCHANGED <<request, variant, text, leg, found, paid>>

\* Every leg has returned.
Merge ==
    /\ stage = "legs" /\ \A l \in Legs : leg[l] \in {"done", "failed"}
    /\ IF \E l \in Legs : leg[l] = "failed"
       THEN stage' = "failed" /\ UNCHANGED <<merged, results>>
       ELSE /\ stage' = "reduce"
            /\ merged' = SubSeq(Fused, 1, Least(MaxResults, Len(Fused)))
            /\ results' = merged'
    /\ UNCHANGED <<request, variant, text, leg, found, paid>>

Judged == request.judges /\ "judge" \notin request.skipped

Reduce ==
    LET reduced == [i \in DOMAIN results |-> [results[i] EXCEPT !.sections = Undoubled(@)]]
    IN  /\ stage = "reduce"
        /\ results' = IF Empty(reduced) THEN <<>> ELSE reduced
        /\ stage' = IF ~Empty(reduced) /\ Judged THEN "judge" ELSE "answered"
        /\ UNCHANGED <<request, variant, text, leg, found, paid, merged>>

\* The judge names the sections to keep.
Judge ==
    /\ stage = "judge"
    /\ \E relevant \in SUBSET Shown(results) : results' = Kept(results, relevant)
    /\ stage' = "answered"
    /\ paid' = [paid EXCEPT !["judge"] = @ + 1]
    /\ UNCHANGED <<request, variant, text, leg, found, merged>>

\* The store or the judge fails.
StageFails ==
    /\ stage \in {"reduce", "judge"}
    /\ stage' = "failed"
    /\ UNCHANGED <<request, variant, text, leg, found, paid, merged, results>>

VariantGoesOn(kind) == KeepQuery(kind) \/ Hypothesize(kind) \/ Translate(kind) \/ VariantFails(kind)

LegGoesOn(l) == AskVariant(l) \/ SendQuery(l) \/ LegFinds(l) \/ LegFails(l)

PipeGoesOn ==
    \/ \E kind \in Kinds : VariantGoesOn(kind)
    \/ \E l \in Legs : LegGoesOn(l)
    \/ Merge \/ Reduce \/ Judge \/ StageFails

PipeNext == (\E r \in Requests : StartSearch(r)) \/ PipeGoesOn
-----------------------------------------------------------------------------
PipeTypeOK ==
    /\ stage \in {"idle", "legs", "reduce", "judge", "answered", "failed"}
    /\ variant \in [Kinds -> {"idle", "running", "ready", "failed"}]
    /\ leg \in [Legs -> {"waits", "searches", "done", "failed"}]
    /\ \A l \in Legs : leg[l] # "done" => found[l] = <<>>

\* index/pipeline/index.go:154-159: neither variant leaks into the query of the
\* other kind of leg, and no leg loses the question itself.
VariantsStayApart ==
    \A l \in Legs : leg[l] \in {"searches", "done"} =>
        /\ Head(text[KindOf(l)]) = UserQuery
        /\ Hypothesis \in ToSet(text[KindOf(l)]) => Capable(l, "semantic")
        /\ ToSet(text[KindOf(l)]) \subseteq {UserQuery, Hypothesis} \/ ~Capable(l, "semantic")
        /\ IsInjective(text[KindOf(l)])

\* However many legs share a variant, a stage calls its model once at most, and
\* never without a leg to use the answer (index.go:165-171).
StagesPaidOnce ==
    /\ \A s \in DOMAIN paid : paid[s] <= 1 /\ (paid[s] = 1 => s \notin request.skipped)
    /\ paid["hyde"] = 1 => \E l \in Legs : Capable(l, "semantic")
    /\ paid["translate"] = 1 => \E l \in Legs : ~Capable(l, "semantic")

\* translate_query_transformer.go:207-210: as long as the corpus has a language
\* other than the query's there is something to translate into, and never the
\* query's own.
TargetsAreOthers ==
    stage # "idle" =>
        /\ request.language \notin ToSet(Targets)
        /\ ToSet(request.corpus) \ {request.language} # {} => Targets # <<>>

\* A search is answered from all of its legs, and under a filter from nothing
\* that does not match.
AnswersAreWhole ==
    stage \in {"reduce", "judge", "answered"} =>
        /\ \A l \in Legs : leg[l] = "done"
        /\ request.filtered => \A i \in DOMAIN results : results[i].source \in Matching

\* Behind decorators too, and a decorated leg is searched as what it is.
PushedDownWhenPossible ==
    stage = "failed" /\ (\A l \in Legs : leg[l] = "waits") /\ (\A k \in Kinds : variant[k] = "idle") =>
        \E l \in Legs : \A i \in 1 .. Least(MaxUnwrap, Len(Capabilities[l])) : "filterable" \notin Capabilities[l][i]

\* What every leg that has y ranks ahead of y is ahead of it once fused: the
\* fusion keeps what the legs agree on, whatever they weigh and in whatever
\* order they finish.
FusionKeepsConsensus ==
    merged # <<>> =>
        \A x, y \in FoundSources :
            (x # y /\ \A l \in Legs : y \in ToSet(SourcesOf(l)) =>
                        x \in ToSet(SourcesOf(l)) /\ RankIn(SourcesOf(l), x) < RankIn(SourcesOf(l), y))
            => \A n \in DOMAIN merged :
                   merged[n].source = y => \E m \in 1 .. n : merged[m].source = x

\* No section of an answer contains another, and a section that was found is
\* there itself or through its ancestors or descendants.
SectionsOnce ==
    stage \in {"judge", "answered"} =>
        \A i \in DOMAIN results :
            LET kept == ToSet(results[i].sections)
                Akin(s, o) == IsAncestor(s, o) \/ IsAncestor(o, s)
            IN  /\ \A s, o \in kept : s # o => ~IsAncestor(s, o)
                /\ stage = "judge" =>
                    \A m \in DOMAIN merged :
                        merged[m].source = results[i].source =>
                            \A s \in ToSet(merged[m].sections) \intersect DOMAIN Words :
                                \E o \in kept : Akin(s, o)

\* The judge leaves no result without a section and no source twice.
JudgeLeavesSections ==
    stage = "answered" /\ paid["judge"] = 1 =>
        /\ \A i \in DOMAIN results : results[i].sections # <<>>
        /\ \A i, j \in DOMAIN results : results[i].source = results[j].source => i = j

\* A search ends, even when a leg or a transformer panics (index.go:269-277).
SearchEnds == stage = "legs" ~> stage \in {"answered", "failed"}

\* What a search over several legs promises (pipeline/index.go:125-557): nothing
\* partial is answered, variants keep to their collection, every stage is paid at
\* most once, a filter goes down where the leg can, sources that several legs
\* agree on lead, and no section comes twice.
SearchKeepsFaith ==
    /\ PipeTypeOK
    /\ VariantsStayApart
    /\ StagesPaidOnce
    /\ TargetsAreOthers
    /\ AnswersAreWhole
    /\ PushedDownWhenPossible
    /\ FusionKeepsConsensus
    /\ SectionsOnce
    /\ JudgeLeavesSections
=============================================================================
