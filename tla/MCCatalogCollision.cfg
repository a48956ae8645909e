\* A registry named "model" of an older release; one event, the Catalog operator's
\* takeover, with the informer of catalog Deployments behind.
SPECIFICATION Spec
CONSTANTS
    HasUserAPI = TRUE
    Lagging = {"catalog"}
    MaxEvents = 1
PROPERTIES CatalogObjectsSurvive
CHECK_DEADLOCK FALSE
