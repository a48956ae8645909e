\* Two import generations, each of which succeeds, fails or stays pending.
\* A contained Catalog without a further import really stops.
SPECIFICATION Spec
CONSTANTS
    Digests = {d1}
    IsOpenShift = TRUE
    StreamFromRelease = FALSE
    Created <- FollowsStream
    SelectionsOf <- StableSelections
    Retries = {0}
    Deadline = 1
    StaleCache = FALSE
    TimePasses = FALSE
    MaxEdits = 0
    MaxImports = 2
    MaxFaults = 0
    PodOutcomes = {"ready"}
    d1 = d1
INVARIANTS
    TypeOK
PROPERTIES
    FaultIsLeftBySuccess
    HealthyReimportKeepsAttempt
    ScaleDownIsJustified
CHECK_DEADLOCK FALSE
