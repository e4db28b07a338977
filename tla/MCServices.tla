------------------------------- MODULE MCServices ------------------------------
(***************************************************************************)
(* What the ingestion and the command line rest on, for TLC: components that   *)
(* share no state, one part of the run for each.                            *)
(***************************************************************************)
EXTENDS LlmCache, ImageText, Staging, Assembly, TLC

CONSTANTS h1, h2, h3

VARIABLE part

vars == <<part, cacheVars, textVars, stagingVars, assemblyVars>>

others(p) ==
    /\ UNCHANGED part
    /\ p # "cache" => UNCHANGED cacheVars
    /\ p # "text" => UNCHANGED textVars
    /\ p # "staging" => UNCHANGED stagingVars
    /\ p # "assembly" => UNCHANGED assemblyVars

\* h1 fits everywhere, h2 must be shrunk, no provider accepts h3.
MCImageKind == (h1 :> "plain") @@ (h2 :> "heavy") @@ (h3 :> "foreign")

Img(scheme, h) == Token("image", scheme, h)
Link(scheme, h) == Token("link", scheme, h)
Word == Token("text", "none", NoImage)

\* One image twice, the second time after a link to it; a remote image; and one
\* image alone.
Sources == {
    <<Img("data", h1), Word, Img("local", h2), Break, Link("local", h1), Img("local", h1), Break, Img("data", h3)>>,
    <<Img("local", h2), Img("remote", NoImage), Word, Break, Img("data", h1), Word>>,
    <<Img("local", h1), Word>>}

MCFiles ==
    [kind : {"markdown", "document"}, source : Sources, beside : {{}, {h1}, {h1, h2}}]
    \union [kind : {"image"}, source : {<<Img("file", h)>> : h \in {h1, h2, h3}}, beside : {{}}]
    \union [kind : {"unknown"}, source : {<<>>}, beside : {{}}]

-----------------------------------------------------------------------------
\* What a caller may give: two models, the options that meet, four profiles.
Option(name, value) == [name |-> name, value |-> value]

OwnClient(name, client) == Option("stageClient", [stage |-> name, client |-> client])

MCOptions ==
    {Option("store", "gorm"), Option("index", "indexers"), Option("index", "made")} \union {Option("client", "big"), Option("client", NoClient)}
    \union {OwnClient("grounding", "small"), OwnClient("judge", "small"), OwnClient("grounding", NoClient)}
    \union {Option("switch", s) : s \in {"observability", "grounding", "translate", "rerank", "lexical"}}
    \union {Option("iterative", 2), Option("images", [describer |-> FALSE, blobs |-> FALSE]), Option("blobs", TRUE)}
    \union {Option("persistent", "kept"), Option("persistent", "none"), Option("runner", TRUE)}

MCProfiles == {AllStages, {}, {"translate", "rerank"}, {"reformulate", "judge"}}

MCInit ==
    /\ part \in {"cache", "text", "staging", "assembly"}
    /\ CacheInit
    /\ TextInit
    /\ StagingInit
    /\ AssemblyInit

MCNext ==
    \/ part = "cache" /\ CacheNext /\ others("cache")
    \/ part = "text" /\ TextNext /\ others("text")
    \/ part = "staging" /\ StagingNext /\ others("staging")
    \/ part = "assembly" /\ AssemblyNext /\ others("assembly")

Fairness ==
    /\ \A c \in Callers : WF_vars(part = "cache" /\ CallGoesOn(c) /\ others("cache"))
    /\ WF_vars(
            \/ part = "text" /\ DescribesOn /\ others("text")
            \/ part = "staging" /\ CloseGoesOn /\ others("staging"))

MCSpec == MCInit /\ [][MCNext]_vars /\ Fairness

\* Every call to a cache is answered, every document is enriched or fails, and
\* Close returns, whatever leaders and handlers do.
ServicesEnd ==
    /\ CallersEnd
    /\ TextEnds
    /\ CloseReturns
=============================================================================
