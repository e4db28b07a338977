------------------------------- MODULE MCSearch -------------------------------
(***************************************************************************)
(* What a search is made of, for TLC: components that share no state, one     *)
(* part of the run for each.                                                *)
(***************************************************************************)
EXTENDS Filters, FilterExpr, PipelineSearch, SearchPaging, Retrieval, Reranking, Answering, TLC

VARIABLE part

vars == <<part, filterVars, expr, pipeVars, pagingVars, retrievalVars, rerankVars, answerVars>>

others(p) ==
    /\ UNCHANGED part
    /\ p # "filters" => UNCHANGED filterVars
    /\ p # "expr" => UNCHANGED expr
    /\ p # "pipeline" => UNCHANGED pipeVars
    /\ p # "paging" => UNCHANGED pagingVars
    /\ p # "retrieval" => UNCHANGED retrievalVars
    /\ p # "rerank" => UNCHANGED rerankVars
    /\ p # "answer" => UNCHANGED answerVars

MCKind ==
    ("one" :> "number") @@ ("two" :> "number") @@ ("a" :> "text") @@ ("b" :> "text")
    @@ ("noon" :> "text") @@ ("noonParis" :> "text") @@ ("noonTime" :> "time") @@ ("yes" :> "bool")
    @@ ("null" :> "null") @@ ("ones" :> "list") @@ ("noons" :> "list") @@ ("map" :> "map")
    @@ ("nan" :> "number")

MCExact == ("one" :> 1) @@ ("two" :> 2)
MCRank == ("noon" :> 0) @@ ("noonParis" :> 1) @@ ("a" :> 2) @@ ("b" :> 3)

\* One instant, as a time and as texts in two zones.
MCCanonical == [v \in {"noon", "noonParis", "noonTime"} |-> "noon"]
MCListOf == ("ones" :> <<"one", "a">>) @@ ("noons" :> <<"noonParis", "null">>)

Operands == DOMAIN MCKind \ {"nan"}

MCWritten == {NoRow} \union {[k \in {"k"} |-> v] : v \in Operands} \union {("k" :> "one") @@ ("l" :> "a")}

Condition(op, values) == [op |-> op, key |-> "k", values |-> values, alternatives |-> <<>>]

Plain ==
    {Condition(op, <<v>>) : op \in {"eq", "ne", "gt", "gte", "lt", "lte"}, v \in Operands \ {"ones", "noons", "map", "null"}}
    \union {Condition(op, <<v, w>>) : op \in {"in", "any"}, v \in {"one", "noonTime"}, w \in {"a", "yes", "one"}}
    \union {Condition(op, <<>>) : op \in {"in", "any", "exists", "absent"}}

Disjunction(c, d) == [op |-> "or", key |-> "none", values |-> <<>>, alternatives |-> <<c, d>>]

Absent == Condition("absent", <<>>)
IsTwo == Condition("eq", <<"two">>)
OtherKey == [op |-> "eq", key |-> "l", values |-> <<"a">>, alternatives |-> <<>>]

MCFilters ==
    {<<>>} \union {<<c>> : c \in Plain}
    \union {<<Disjunction(c, d)>> : c \in {Absent, IsTwo}, d \in Plain}
    \union {<<Disjunction(d, c)>> : c \in {IsTwo}, d \in Plain}
    \union {<<c, OtherKey>> : c \in Plain} \union {<<OtherKey, c>> : c \in {IsTwo}}

-----------------------------------------------------------------------------
\* A full-text leg behind a decorator, two vector legs.
MCCapabilities ==
    ("bleve" :> <<{}, {"filterable"}>>) @@ ("vec" :> <<{"semantic", "filterable"}>>)
    @@ ("vec2" :> <<{}, {"semantic", "filterable"}, {}>>)
MCWeight == ("bleve" :> 2) @@ ("vec" :> 1) @@ ("vec2" :> 1)

\* d0 contains d1 and d2, d1 contains d3; the store has lost e1.
MCBranch ==
    ("d0" :> <<"d0">>) @@ ("d1" :> <<"d0", "d1">>) @@ ("d2" :> <<"d0", "d2">>)
    @@ ("d3" :> <<"d0", "d1", "d3">>) @@ ("e0" :> <<"e0">>) @@ ("e1" :> <<"e0", "e1">>) @@ ("f0" :> <<"f0">>)
MCWords == [s \in {"d0", "d1", "d2", "d3", "e0", "f0"} |-> 3]
MCOrder == ("d" :> 1) @@ ("e" :> 2) @@ ("f" :> 3) @@ ("d0" :> 4) @@ ("d1" :> 5) @@ ("d2" :> 6)
           @@ ("d3" :> 7) @@ ("e0" :> 8) @@ ("e1" :> 9) @@ ("f0" :> 10)

Result(source, sections) == [source |-> source, sections |-> sections]

MCLists == {
    <<>>,
    <<Result("d", <<"d3", "d0">>), Result("e", <<"e1", "e0">>)>>,
    <<Result("e", <<"e0">>), Result("d", <<"d2", "d1">>)>>,
    <<Result("f", <<"f0">>), Result("d", <<"d0">>), Result("e", <<"e1">>)>>}

Request(hyde, translates, judges, filtered, skipped, max, corpus) ==
    [hyde |-> hyde, translates |-> translates, judges |-> judges, filtered |-> filtered,
     skipped |-> skipped, max |-> max, corpus |-> corpus, language |-> "fr"]

MCRequests == {
    Request(TRUE, FALSE, TRUE, FALSE, {}, 2, <<"fr", "en">>),
    Request(FALSE, TRUE, TRUE, FALSE, {"judge"}, 0, <<"fr", "en", "de">>),
    Request(FALSE, TRUE, FALSE, TRUE, {}, 0, <<"fr">>),
    Request(TRUE, TRUE, TRUE, FALSE, {"hyde"}, 1, <<"en", "de", "es">>)}

MCReplies == {<<"dog", "hund">>, <<UserQuery, "blank", "dog", "dog">>}

-----------------------------------------------------------------------------
\* Four documents; an index that ranks alike whatever it is asked for, and one
\* that does not.
MCSources == {"a", "b", "c", "d"}
Alphabetic == <<"a", "b", "c", "d">>
MCOrders == {
    [n \in 1 .. 4 |-> Alphabetic],
    [n \in 1 .. 4 |-> IF n <= 2 THEN <<"c", "a", "d", "b">> ELSE <<"b", "c", "a", "d">>]}
MCPreference == <<"d", "b", "c", "a">>
MCCorpora == {MCSources, MCSources \ {"c"}}
MCTags == {MCSources, {"b", "d"}, {"c"}, {"c", "d"}}

Reader(size, pool, filter, reranks, grounding, failOpen) ==
    [size |-> size, pool |-> pool, filtered |-> filter # "no", pushed |-> filter = "pushed",
     vacant |-> filter = "absence", reranks |-> reranks, filter |-> IF filter = "no" THEN "any" ELSE "one",
     grounding |-> grounding, failOpen |-> failOpen]

MCReaders ==
    {Reader(size, pool, filter, reranks, "off", TRUE) :
        size \in {1, 2}, pool \in {0, 3}, filter \in {"no", "outside", "pushed"}, reranks \in BOOLEAN}
    \union {Reader(size, pool, "absence", FALSE, "off", TRUE) : size \in {1, 2}, pool \in {0, 3}}
    \union {Reader(2, 3, "outside", FALSE, g, o) : g \in {"filter", "demote"}, o \in BOOLEAN}

-----------------------------------------------------------------------------
\* A question in three parts whose answers overlap, and one only a part answers.
Hit(source, sections) == [source |-> source, sections |-> sections]
MCHits == {
    ("q" :> <<Hit("a", <<"a1", "a2">>), Hit("b", <<"b1">>)>>)
    @@ ("s1" :> <<Hit("b", <<"b1", "b2">>), Hit("a", <<"a1">>)>>)
    @@ ("s2" :> <<Hit("c", <<"c1">>)>>) @@ ("r" :> <<Hit("c", <<"c1">>), Hit("a", <<"a2">>)>>),
    ("q" :> <<>>) @@ ("s1" :> <<>>) @@ ("s2" :> <<Hit("c", <<"c1">>)>>) @@ ("r" :> <<>>)}
MCTrimmed == ("q" :> "q") @@ ("s1" :> "s1") @@ (" s1" :> "s1") @@ ("s2" :> "s2") @@ ("r" :> "r") @@ (" " :> "")
MCDecompositions == {<<"s1", " ", " s1", "q">>, <<" ">>, <<"s2", "s1", "q">>}
Setting(stages, mode, maxRounds, skipped) ==
    [stages |-> stages, mode |-> mode, maxRounds |-> maxRounds, skipped |-> skipped]
MCSettings ==
    {Setting({"decompose", "grounding", "reformulate"}, "filter", 1, {}),
     Setting({"decompose", "grounding", "reformulate"}, "demote", 1, {}),
     Setting({"grounding", "reformulate"}, "filter", 2, {}),
     Setting({"grounding", "reformulate"}, "demote", 2, {"decompose"}),
     Setting({"decompose", "grounding", "reformulate"}, "demote", 1, {"grounding"}),
     Setting({}, "filter", 1, {})}

-----------------------------------------------------------------------------
\* Four sections in three results, a store that has lost some; weights on and off.
Held(source, sections, score) == [source |-> source, sections |-> sections, score |-> score]
MCPools == {<<Held("a", <<"a1", "a2">>, 900), Held("b", <<"b1">>, 900), Held("c", <<"c1">>, 100)>>,
            <<Held("b", <<"b1">>, 500), Held("a", <<"a2", "a1">>, 300)>>,
            <<Held("a", <<"a1">>, 500)>>}
MCTexts == {
   [s \in {"a1", "a2", "b1", "c1"} |-> CASE s = "a1" -> <<"x", "o", "y", "x", "y", "z">> [] s = "a2" -> <<"z", "y", "o">>
        [] s = "b1" -> <<"x", "x", "o", "z", "o", "y", "z", "x">> [] s = "c1" -> <<>>],
   [s \in {"a1", "b1"} |-> <<"x", "y">>],
   [s \in {"a1", "a2", "b1", "c1"} |-> <<"o">>],
   [s \in {"zz"} |-> <<"o">>]}
MCQuestions == {<<>>, <<"x">>, <<"x", "y", "x">>, <<"x", "y", "z">>, <<"z", "w">>}
MCIdf == (1 :> (0 :> 1386 @@ 1 :> 288)) @@ (2 :> (0 :> 1792 @@ 1 :> 693 @@ 2 :> 182))
      @@ (3 :> (0 :> 2079 @@ 1 :> 981 @@ 2 :> 470 @@ 3 :> 134))
      @@ (4 :> (0 :> 2303 @@ 1 :> 1204 @@ 2 :> 693 @@ 3 :> 357 @@ 4 :> 105))
MCWeights == {[prior |-> 1, bm25 |-> 1, coverage |-> 0, proximity |-> 0], [prior |-> 1, bm25 |-> 1, coverage |-> 1, proximity |-> 1]}
MCIdOrder == ("a1" :> 1) @@ ("a2" :> 2) @@ ("b1" :> 3) @@ ("c1" :> 4)
MCRankings == {<<>>, <<"b1", "zz", "b1", "a2">>, <<"c1", "a2", "a1", "b1">>}
MCRerankers == {[llm |-> l, lexical |-> x, skipped |-> s] : l \in BOOLEAN, x \in BOOLEAN, s \in BOOLEAN}

-----------------------------------------------------------------------------
\* Sections of several lengths under budgets that each bind; streams that end, fail or are silent.
Cited(source, sections) == [source |-> source, sections |-> sections]
MCEvidences == {<<>>, <<Cited("a", <<"a1", "a2">>), Cited("b", <<"b1", "b2">>)>>, <<Cited("b", <<"b2">>), Cited("a", <<"a2", "a1">>)>>}
MCLengths == {("a1" :> 1) @@ ("a2" :> 1) @@ ("b1" :> 1) @@ ("b2" :> 1), ("a1" :> 2) @@ ("a2" :> 0) @@ ("b1" :> 3) @@ ("b2" :> 1), ("a1" :> 9) @@ ("b1" :> 9) @@ ("b2" :> 9), ("a2" :> 0) @@ ("b2" :> 1)}
MCStreams == {<<>>, <<"text", "silent", "text">>, <<"text", "error", "text">>}
MCAnswers == {<<2, 1, 2, 7>>, <<0, 3>>, <<1, 1>>}

MCInit ==
    /\ part \in {"filters", "expr", "pipeline", "paging", "retrieval", "rerank", "answer"}
    /\ PagingInit
    /\ RetrievalInit
    /\ FilterInit
    /\ ExprInit
    /\ PipeInit
    /\ RerankInit
    /\ AnswerInit

MCNext ==
    \/ part = "filters" /\ FilterNext /\ others("filters")
    \/ part = "expr" /\ ExprNext /\ others("expr")
    \/ part = "pipeline" /\ PipeNext /\ others("pipeline")
    \/ part = "paging" /\ PagingNext /\ others("paging")
    \/ part = "retrieval" /\ RetrievalNext /\ others("retrieval")
    \/ part = "rerank" /\ RerankNext /\ others("rerank")
    \/ part = "answer" /\ AnswerNext /\ others("answer")

Fairness ==
    WF_vars(\/ part = "pipeline" /\ PipeGoesOn /\ others("pipeline")
            \/ part = "paging" /\ RequestGoesOn /\ others("paging")
            \/ part = "retrieval" /\ RetrievalGoesOn /\ others("retrieval")
            \/ part = "answer" /\ StreamGoesOn /\ others("answer"))

MCSpec == MCInit /\ [][MCNext]_vars /\ Fairness

\* What a filter promises from the command line to the legs (index/filter.go,
\* index/filterexpr, internal/filternorm): it is read as it is written, and means
\* one set of documents wherever it is evaluated and whatever it is printed as.
FiltersKeepFaith ==
    /\ FilterTypeOK
    /\ FiltersAgree
    /\ FingerprintsSelectAlike
    /\ ReadAsWritten
    /\ PlainIsAccepted

\* Every search, page, iterative search and answer comes to its end, whatever
\* panics, fails or stays silent on the way.
SearchesEnd ==
    /\ SearchEnds
    /\ PageEnds
    /\ RetrievalEnds
    /\ AnswerCloses
=============================================================================
