\* The default source is stripped from a ConfigMap while an administrator edits it.
SPECIFICATION Spec
CONSTANTS
    NMaps = 2
    HfSecrets = {1}
    EnvVars = {"env"}
    Passwords = {p1, p2, p3, p4, p5}
    Lagging = {"maps"}
    MaxEvents = 1
PROPERTY UserEditsSurvive
CHECK_DEADLOCK FALSE
