CONSTANTS
    u1 = u1
    u2 = u2
    u3 = u3
    r1 = r1
    r2 = r2
    r3 = r3
    Requests = {r1, r2, r3}
    Owner <- ThreeRequests
    Assignees <- ThreeUsers
    MaxResumes = 3
SPECIFICATION FairSpec
INVARIANTS
    TypeOK
    DecisionIsComing
    AllHaveResolved
PROPERTY DecisionComes
CHECK_DEADLOCK FALSE
