\* A stale cache only: no edit, no error.
SPECIFICATION Spec
CONSTANTS
    Digests = {d1}
    IsOpenShift = TRUE
    StreamFromRelease = FALSE
    Created <- FollowsRelease
    SelectionsOf <- ReleaseSelections
    Retries = {0}
    Deadline = 1
    StaleCache = TRUE
    TimePasses = FALSE
    MaxEdits = 0
    MaxImports = 1
    MaxFaults = 0
    PodOutcomes = {"ready", "fatal"}
    d1 = d1
PROPERTIES
    FailedStaysDown
