SPECIFICATION Spec
CONSTANTS
    i1 = i1
    i2 = i2
    i3 = i3
    c = c
    r = r
    s1 = s1
    s2 = s2
    h1 = h1
    b = b
    v = v
    w1 = w1
    w2 = w2
    None = None
    Tasks = {i1, i2, c}
    KindOf <- Kinds
    Target <- TwoSources
    Images <- NoImages
    Hashes = {h1}
    Sources = {s1, s2}
    Workers = {w1, w2}
    Legs = {b, v}
    Vector = {v}
    PageSize = 2
    OrphanBatch = 1
    Deletable = {s1}
    Movable = {}
    MaxSaves = 3
    Faults = {"crash", "report", "leg", "cancel"}
    MaxFaults = 1
INVARIANT SucceededIsSearchable
PROPERTY SweepsOnlyGone
CHECK_DEADLOCK FALSE
