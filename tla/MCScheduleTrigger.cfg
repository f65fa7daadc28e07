CONSTANTS
    Workflow = {1}
    Configs <- MCConfigs
    Cycle = 3
    MaxTime = 9
    MaxToggles = 3
    Late = 2
    Slow = FALSE
SPECIFICATION Spec
INVARIANTS
    TypeOK
    LimitKept
    CachedIsEnabled
PROPERTIES
    NoneMissed
CHECK_DEADLOCK FALSE
