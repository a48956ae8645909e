\* One edit, of the catalog selection or of the retry annotation, with an informer
\* cache that lags behind every write.
SPECIFICATION FairSpec
CONSTANTS
    Digests = {d1}
    IsOpenShift = TRUE
    StreamFromRelease = FALSE
    Created <- FollowsRelease
    SelectionsOf <- PinSelections
    Retries = {0, 1}
    Deadline = 1
    StaleCache = TRUE
    TimePasses = FALSE
    MaxEdits = 1
    MaxImports = 1
    MaxFaults = 0
    PodOutcomes = {"ready", "fatal"}
    d1 = d1
INVARIANTS
    MemoryIsConsistent
    ReadyIsEarned
    StatusIsEarned
PROPERTIES
    ImplementsLifecycle
    EditsAreHonoured
    UpIsReported
