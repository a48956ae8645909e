\* The release image runs while the first import of the selected stream is pending;
\* its pod restarts. No edit, no error.
SPECIFICATION Spec
CONSTANTS
    Digests = {d1}
    IsOpenShift = TRUE
    StreamFromRelease = FALSE
    Created <- FollowsStream
    SelectionsOf <- StableSelections
    Retries = {0}
    Deadline = 1
    StaleCache = FALSE
    TimePasses = TRUE
    MaxEdits = 0
    MaxImports = 1
    MaxFaults = 0
    PodOutcomes = {"ready", "retrying"}
    d1 = d1
PROPERTIES
    RecoveryWindow
