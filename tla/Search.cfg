SPECIFICATION MCSpec
CONSTANTS
    Keys = {"k", "l"}
    Kind <- MCKind
    Exact <- MCExact
    Float64 <- MCExact
    Rank <- MCRank
    Canonical <- MCCanonical
    ListOf <- MCListOf
    NaN = "nan"
    Written <- MCWritten
    MaxWrites = 2
    Filters <- MCFilters
    MaxLength = 5
    Legs = {"bleve", "vec", "vec2"}
    Capabilities <- MCCapabilities
    MaxUnwrap = 2
    Weight <- MCWeight
    Lists <- MCLists
    Matching = {"d"}
    Order <- MCOrder
    Branch <- MCBranch
    Words <- MCWords
    MaxTotalWords = 3
    MaxSectionWords = 2
    Requests <- MCRequests
    Replies <- MCReplies
    MaxTargets = 1
    Sources <- MCSources
    Orders <- MCOrders
    Preference <- MCPreference
    Pool = 3
    DefaultPool = 2
    FetchFactor = 1
    FetchGrowth = 2
    MaxFetch = 3
    RerankFactor = 2
    MinRerank = 1
    Readers <- MCReaders
    Corpora <- MCCorpora
    Tags <- MCTags
    MaxEdits = 1
    Question = "q"
    Hits <- MCHits
    Trimmed <- MCTrimmed
    Decompositions <- MCDecompositions
    Reformulations = {"q", "r", " "}
    MaxSubQueries = 2
    Concurrency = 2
    Known = {"a1", "a2", "b1", "c1"}
    Budget = 3
    Scores = {3, 12}
    MinScore = 4
    Settings <- MCSettings
    Pools <- MCPools
    Texts <- MCTexts
    Questions <- MCQuestions
    Idf <- MCIdf
    Weights <- MCWeights
    IdOrder <- MCIdOrder
    Rankings <- MCRankings
    Rerankers <- MCRerankers
    Evidences <- MCEvidences
    Lengths <- MCLengths
    MaxSources = 2
    MaxWordsOfOne = 2
    MaxWordsOfAll = 3
    Streams <- MCStreams
    Answers <- MCAnswers
CHECK_DEADLOCK FALSE
INVARIANT FiltersKeepFaith
INVARIANT SearchKeepsFaith
INVARIANT PagesKeepFaith
INVARIANT EvidenceKeepsFaith
INVARIANT RerankKeepsFaith
INVARIANT AnswerKeepsFaith
PROPERTY SearchesEnd
