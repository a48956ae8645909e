SPECIFICATION FairSpec
CONSTANTS
    IsOpenShift = TRUE
    DomainGens = {2}
    Lagging = {{"cat"}, {"registry"}}
    MaxEvents = 1
INVARIANTS
    Consistent
    NoLeakWithoutRace
    ObservedIsDeployed
    DataReadyIsEarned
PROPERTIES
    TeardownEnds
    StatusFollows
    MigratedSelectionIsKept
    OnlyLegacyIsDeleted
CHECK_DEADLOCK FALSE
