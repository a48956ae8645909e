\* Two user sources ConfigMaps, two HuggingFace secrets for one variable; two edits or
\* faults, with the ConfigMap, RoleBinding and Deployment informers behind.
SPECIFICATION FairSpec
CONSTANTS
    NMaps = 2
    HfSecrets = {1, 2}
    EnvVars = {"env"}
    Passwords = {p1, p2, p3, p4, p5}
    Lagging = {"maps", "dep", "binding", "pg"}
    MaxEvents = 2
INVARIANT TypeOK
PROPERTIES PasswordIsKept DeploymentFollows AdminsFollow ObjectsReturn
CHECK_DEADLOCK FALSE
