\* Two overlapping operator processes, two objects, one user write, one error.
SPECIFICATION FairSpec
CONSTANTS
    Processes = {p1, p2}
    Registries = {r1, r2}
    SvmSupported = TRUE
    MaxEdits = 1
    MaxFaults = 1
INVARIANTS
    SuccessIsEarned
    Progress
PROPERTIES
    UserWritesSurvive
    RestartsMigrate
