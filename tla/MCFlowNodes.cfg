CONSTANTS
    e1 = e1
    Nobody = Nobody
    Editors = {e1}
    MaxNodes = 5
    MaxBranch = 1
SPECIFICATION Spec
INVARIANTS
    TypeOK
    LinksAgree
    OneTree
PROPERTY OrderKept
CHECK_DEADLOCK FALSE
