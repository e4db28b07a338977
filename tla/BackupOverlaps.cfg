INIT VecInit
NEXT VecNext
CONSTANTS
    Corpus = {1, 2}
    Versions = {2}
    Chunks = 2
    Indexers = {"w1", "w2"}
    Searchers = {"s1"}
    Keeper = "k"
    PoolSize = 1
    KeeperOverlaps = TRUE
    MaxUses = 3
    MaxFailures = 1
CHECK_DEADLOCK FALSE
INVARIANT ReturnedIsCommitted
