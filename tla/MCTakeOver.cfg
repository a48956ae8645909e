\* The catalog operator reconciles before its Deployment is Available.
SPECIFICATION Spec
CONSTANTS
    IsOpenShift = TRUE
    DomainGens = {1}
    Lagging = {{}}
    MaxEvents = 0
INVARIANT NoLeak
CHECK_DEADLOCK FALSE
