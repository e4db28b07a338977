SPECIFICATION MCSpec
CONSTANTS
    Callers = {a, b}
    Texts = {x, y}
    Prompts = {p}
    MaxInputs = 2
    MaxSpoils = 2
    NoCaller = NoCaller
    h1 = h1
    h2 = h2
    h3 = h3
    Images = {h1, h2, h3}
    Calls = {h1, h2, h3}
    ImageKind <- MCImageKind
    Files <- MCFiles
    HasBlobs = TRUE
    MaxImages = 2
    Concurrency = 2
    NoImage = NoImage
    MaxRetries = 1
    BaseBackoff = 2
    MaxBackoff = 3
    Mandates = {0, 5}
    Instances = {"i1", "i2"}
    Uploads = {"f1", "f2"}
    StaleAge = 1
    MaxClock = 1
    MaxCrashes = 1
    Options <- MCOptions
    MaxOptions = 5
    Profiles <- MCProfiles
    NoClient = "no client"
CHECK_DEADLOCK FALSE
INVARIANT AssembledAsAsked
PROPERTY CacheKeepsFaith
PROPERTY EnrichmentKeepsFaith
PROPERTY CopiesFollowTasks
PROPERTY ServicesEnd
