SPECIFICATION MCSpec
CONSTANTS
    Corpus = {1, 2}
    Versions = {2}
    Chunks = 2
    Indexers = {"w1", "w2"}
    Searchers = {"s1"}
    Keeper = "k"
    PoolSize = 1
    KeeperOverlaps = FALSE
    MaxUses = 3
    MaxFailures = 1
    Users = {a, b}
    Hashes = {1, 2}
    Mimes = {png, jpg}
    ListBatch = 1
    WritersOverlap = FALSE
    MaxCalls = 3
    MaxBroken = 1
    NoMime = NoMime
    Urls = {"a", "b", "c"}
    Groups = {"g", "h"}
    Values = {"x", "y"}
    Metas <- MCMetas
    Places <- MCPlaces
    Listings <- MCListings
    Stocks <- MCStocks
    Editors = {"e1"}
    HeaderPage = 1
    EditsOverlap = FALSE
    MaxChanges = 2
    MaxLists = 1
    MaxBreaks = 1
    Files = {"f1", "f2", "f3", "f4"}
    Pictures = {1, 2, 3}
    PicturesOf <- MCPicturesOf
    Collected <- MCCollected
    DocPage = 2
    DocBatch = 2
    MaxWritesHere = 2
    MaxArchives = 1
    MaxRestores = 2
    MaxStops = 1
    Procs = {11, 12, 13}
    Nobody = 0
    Strangers = {}
    Names = {1, 2, 3}
    InTree = {1, 2}
    Excluded <- MCExcluded
    Cascade <- MCCascade
    Patterns <- MCPatterns
    DigestPage = 1
    SameStamp = FALSE
    MaxWrites = 3
    MaxSyncs = 3
    MaxKills = 1
    MaxMishaps = 1
    Libraries <- MCLibraries
    Wishes <- MCWishes
    Engines = {"bleve", "vec", "coarse", "postgres", "textOnly"}
    Seekers = {"q1", "q2"}
    DefaultResults = 3
    UnfilteredOversample = 2
    CoarseOversample = 2
    Connections = 2
    HeapFactor = 1
    MinHeap = 1
    MaxHeap = 3
CHECK_DEADLOCK FALSE
PROPERTY VectorsKeepFaith
PROPERTY BlobsKeepFaith
PROPERTY CatalogKeepsFaith
PROPERTY ArchivesKeepFaith
PROPERTY LockKeepsFaith
PROPERTY SyncKeepsFaith
INVARIANT LegsKeepFaith
