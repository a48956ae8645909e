\* Pods in every phase, passing time, and one API error or restart anywhere in a
\* pass.
SPECIFICATION FairSpec
CONSTANTS
    Digests = {d1}
    IsOpenShift = TRUE
    StreamFromRelease = FALSE
    Created <- FollowsRelease
    SelectionsOf <- ReleaseSelections
    Retries = {0}
    Deadline = 1
    StaleCache = FALSE
    TimePasses = TRUE
    MaxEdits = 0
    MaxImports = 1
    MaxFaults = 1
    PodOutcomes = {"ready", "retrying", "fatal"}
    d1 = d1
INVARIANTS
    PersistedFirst
PROPERTIES
    FailedIsTerminal
    FailedStaysDown
    ResolvedRecoveryWindow
    FailedIsContained
    PendingIsDecided
