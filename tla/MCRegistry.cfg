\* One registry; two edits, faults or restarts; its own informer and the one of
\* Deployments behind.
SPECIFICATION FairSpec
CONSTANTS
    HasUserAPI = TRUE
    Lagging = {"registry", "dep"}
    MaxEvents = 2
INVARIANTS FinalizerGuards GoneMeansClean
PROPERTIES DeletionEnds ObjectsFollow StatusFollows
CHECK_DEADLOCK FALSE
