SPECIFICATION Spec
CONSTANTS
    i1 = i1
    i2 = i2
    i3 = i3
    c = c
    r = r
    s1 = s1
    s2 = s2
    h1 = h1
    b = b
    v = v
    w1 = w1
    w2 = w2
    None = None
    Tasks = {i1, i2, c}
    KindOf <- Kinds
    Target <- TwoSources
    Images <- OneImage
    Hashes = {h1}
    Sources = {s1, s2}
    Workers = {w1}
    Legs = {b, v}
    Vector = {v}
    PageSize = 2
    OrphanBatch = 2
    Deletable = {}
    Movable = {s1}
    MaxSaves = 4
    Faults = {"save", "crash", "timeout", "collection", "cancel", "report"}
    MaxFaults = 2
CHECK_DEADLOCK FALSE
INVARIANT CleanupIsRight
PROPERTY DropsOrphansOrMoved
