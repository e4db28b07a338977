-------------------------------- MODULE Assembly -------------------------------
(***************************************************************************)
(* What a Codex is made of (options.go, amoxtli.go New, profile.go): options    *)
(* are given one after the other, New turns them into components or refuses     *)
(* them, and each search then runs the stages its profile allows.            *)
(***************************************************************************)
EXTENDS Integers, FiniteSets, TLC

CONSTANTS
    Options,     \* what a caller may give: [name, value]
    MaxOptions,  \* options given to one Codex (bound)
    Profiles,    \* the sets of stages of the search profiles; AllStages stands for none
    NoClient

VARIABLES
    options,     \* the options so far
    given,       \* how many
    codex,       \* NoCodex, "refused" as status, or what New has built
    request      \* the last search: [entry, profile], and the stages it ran

assemblyVars == <<options, given, codex, request>>

Stages == {"hyde", "translate", "judge", "grounding", "rerank", "decompose", "reformulate", "answer"}

AllStages == Stages

DefaultOptions ==
    [llm |-> NoClient, own |-> <<>>, switches |-> {}, rounds |-> 1, subQueries |-> 3,
     store |-> "none", index |-> "none", runner |-> FALSE, stagingDir |-> "none",
     describer |-> FALSE, blobs |-> FALSE, imageBlobs |-> FALSE]

NoCodex ==
    [status |-> "none", stages |-> <<>>, lexical |-> FALSE, rounds |-> 0, runner |-> "none",
     stagingDir |-> "none", describes |-> FALSE, imageBlobs |-> FALSE]

NoRequest == [entry |-> "none", profile |-> AllStages, ran |-> {}]

AssemblyInit ==
    /\ options = DefaultOptions
    /\ given = 0
    /\ codex = NoCodex
    /\ request = NoRequest

Dropping(f, key) == [k \in DOMAIN f \ {key} |-> f[k]]

Bounded(n, default) == IF n > 0 THEN n ELSE default

\* What one option changes.  Each replaces what was given before, but for the
\* stages' clients and the options of the images, which accumulate, and an index
\* of the caller, which New prefers to indexers in whatever order they come.
Applied(o, x) ==
    CASE x.name = "client" -> [o EXCEPT !.llm = x.value]
      [] x.name = "stageClient" ->
             [o EXCEPT !.own = IF x.value.client = NoClient THEN Dropping(@, x.value.stage)
                               ELSE (x.value.stage :> x.value.client) @@ @]
      [] x.name = "switch" -> [o EXCEPT !.switches = @ \union {x.value}]
      [] x.name = "iterative" -> [o EXCEPT !.switches = @ \union {"reformulate"}, !.rounds = Bounded(x.value, @)]
      [] x.name = "decomposition" -> [o EXCEPT !.switches = @ \union {"decompose"}, !.subQueries = Bounded(x.value, @)]
      [] x.name = "store" -> [o EXCEPT !.store = x.value]
      [] x.name = "index" -> [o EXCEPT !.index = IF "made" \in {@, x.value} THEN "made" ELSE x.value]
      [] x.name = "runner" -> [o EXCEPT !.runner = TRUE]
      [] x.name = "persistent" -> [o EXCEPT !.switches = @ \union {"persistent"}, !.stagingDir = x.value]
      [] x.name = "images" ->
             [o EXCEPT !.switches = @ \union {"images"}, !.describer = @ \/ x.value.describer,
                       !.imageBlobs = @ \/ x.value.blobs]
      [] x.name = "blobs" -> [o EXCEPT !.blobs = TRUE]

Give(x) ==
    /\ codex = NoCodex /\ given < MaxOptions
    /\ options' = Applied(options, x)
    /\ given' = given + 1
    /\ UNCHANGED <<codex, request>>

-----------------------------------------------------------------------------
ClientFor(o, stage) == IF stage \in DOMAIN o.own THEN o.own[stage] ELSE o.llm

On(o, switch) == switch \in o.switches

\* Mutation of Wanted: the judge is kept beside the evaluator.
WantedBoth(o) ==
    {s \in Stages :
        CASE s = "hyde" -> ~On(o, "no hyde")
          [] s = "judge" -> ~On(o, "no judge")
          [] s = "answer" -> TRUE
          [] OTHER -> On(o, s)}

\* The stages the options ask for.  The evaluator takes the judge's place.
Wanted(o) ==
    {s \in Stages :
        CASE s = "hyde" -> ~On(o, "no hyde")
          [] s = "judge" -> ~On(o, "no judge") /\ ~On(o, "grounding")
          [] s = "answer" -> TRUE
          [] OTHER -> On(o, s)}

\* What only the pipeline runs is left out when the index is ready-made, or when
\* the store cannot list what the stage needs.
Possible(o) ==
    IF o.index = "made" THEN Stages \ {"hyde", "translate", "judge"}
    ELSE IF o.store = "plain" THEN Stages \ {"hyde", "translate"} ELSE Stages

Ready(o) == {s \in Wanted(o) \intersect Possible(o) : ClientFor(o, s) # NoClient}

\* Each call of WithQueryTransformers replaces the list: the translation comes
\* last.
Built(o) == IF "translate" \in Ready(o) THEN Ready(o) \ {"hyde"} ELSE Ready(o)

\* Mutation of Observed: the stages' own clients are not wrapped.
ObservedDefault(o, client) == [name |-> client, observed |-> On(o, "observability") /\ client = o.llm]

\* Every client New was given is wrapped before it is handed on.
Observed(o, client) == [name |-> client, observed |-> On(o, "observability")]

\* Who runs the tasks, and where files wait: a runner of the caller's own comes
\* first.
RunnerOf(o) == IF o.runner THEN "given" ELSE IF On(o, "persistent") THEN "persistent" ELSE "memory"

\* Mutation of StagingOf: a given directory is used by any runner.
StagingOfAny(o) == o.stagingDir

StagingOf(o) == IF RunnerOf(o) = "persistent" THEN o.stagingDir ELSE "none"

\* The images are described by the describer given or by the default model.
Describes(o) == On(o, "images") /\ (o.describer \/ o.llm # NoClient)

StoresImages(o) == On(o, "images") /\ (o.imageBlobs \/ o.blobs)

Refusal(o) ==
    \/ o.store = "none" \/ o.index = "none"
    \/ RunnerOf(o) = "persistent" /\ (o.stagingDir = "none" \/ o.store # "gorm")
    \/ On(o, "images") /\ ~Describes(o) /\ ~StoresImages(o)

New ==
    /\ codex = NoCodex
    /\ codex' =
           IF Refusal(options) THEN [NoCodex EXCEPT !.status = "refused"]
           ELSE [status     |-> "open",
                 stages     |-> [s \in Built(options) |-> Observed(options, ClientFor(options, s))],
                 lexical    |-> On(options, "lexical"),
                 rounds     |-> IF "reformulate" \in Built(options) THEN options.rounds ELSE 1,
                 runner     |-> RunnerOf(options),
                 stagingDir |-> StagingOf(options),
                 describes  |-> Describes(options),
                 imageBlobs |-> StoresImages(options)]
    /\ UNCHANGED <<options, given, request>>

-----------------------------------------------------------------------------
\* Mutation of Allowed: every configured stage runs.
AllowedAll(profile) == DOMAIN codex.stages

\* stagectx: without a profile, what is configured; with one, what is in both.
Allowed(profile) == DOMAIN codex.stages \intersect profile

\* Mutation of Reranker: the two rerankers run one after the other.
RerankerBoth(profile) ==
    (IF "rerank" \in Allowed(profile) THEN {"rerank"} ELSE {})
    \union (IF codex.lexical THEN {"lexical"} ELSE {})

\* stagedReranker: the model's when it is allowed, else the lexical one.
Reranker(profile) ==
    IF "rerank" \in Allowed(profile) THEN {"rerank"} ELSE IF codex.lexical THEN {"lexical"} ELSE {}

InPipeline == {"hyde", "translate", "judge"}

\* Search and SearchPage; SearchIterative decomposes before them, and
\* reformulates when the verdict asks for it.
Ran(entry, profile) ==
    (Allowed(profile) \intersect InPipeline) \union Reranker(profile)
    \union (Allowed(profile) \intersect
            (IF entry = "search" THEN {"grounding"}
             ELSE {"decompose", "grounding"} \union
                  (IF "grounding" \in Allowed(profile) THEN {"reformulate"} ELSE {})))

Request(entry, profile) ==
    /\ codex.status = "open" /\ request = NoRequest
    /\ request' = [entry |-> entry, profile |-> profile, ran |-> Ran(entry, profile)]
    /\ UNCHANGED <<options, given, codex>>

AssemblyNext ==
    \/ \E x \in Options : Give(x)
    \/ New
    \/ \E entry \in {"search", "iterative"}, profile \in Profiles : Request(entry, profile)

-----------------------------------------------------------------------------
\* WithObservability: whichever client answers, its calls are measured.
EveryStageObserved ==
    codex.status = "open" /\ On(options, "observability") =>
        \A s \in DOMAIN codex.stages : codex.stages[s].observed

\* WithGroundingCheck "replaces the Judge results transformer", "avoiding a
\* redundant LLM pass over the same evidence".
JudgedOnce == ~({"judge", "grounding"} \subseteq request.ran)

\* WithSearchProfile: a profile takes stages away and adds none.
ProfileOnlyRestricts ==
    request # NoRequest =>
        request.ran \ {"lexical"} \subseteq
            Ran(request.entry, AllStages) \intersect DOMAIN codex.stages \intersect request.profile

\* WithLexicalReranking: it "takes over for the searches whose profile skips
\* StageRerank", and for no other.
RerankedOnce ==
    request # NoRequest /\ codex.lexical =>
        Cardinality(request.ran \intersect {"rerank", "lexical"}) = 1

\* WithPersistentTasks: the tasks the database keeps find their files in a
\* directory that outlives the process; those in memory leave none there.
StagingFollowsRunner ==
    codex.status = "open" => (codex.runner = "persistent" <=> codex.stagingDir # "none")

\* What New (amoxtli.go:45-390) makes of any options in any order: each stage is
\* observed, grounding is judged at one place, a profile only takes stages away,
\* one reranker runs, and the staging directory outlives what the tasks outlive.
AssembledAsAsked ==
    /\ EveryStageObserved
    /\ JudgedOnce
    /\ ProfileOnlyRestricts
    /\ RerankedOnce
    /\ StagingFollowsRunner
=============================================================================
