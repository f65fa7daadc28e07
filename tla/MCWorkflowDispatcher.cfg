CONSTANTS
    f1 = f1
    f2 = f2
    f3 = f3
    Fibers = {f1, f2, f3}
    MaxWorkflows = 2
    MaxExecutions = 2
    MaxTriggers = 2
    j1 = j1
    j2 = j2
    Jobs = {j1, j2}
    NoJob = NoJob
    MaxResumptions = 2
    MaxRestarts = 0
SPECIFICATION Spec
SYMMETRY FiberAndJobSymmetry
INVARIANTS
    TypeOK
    NoStrandedEvent
    NoStrandedExecution
    NoStrandedResumption
    ExecutingIsProcessed
    StartedIsOwned
CHECK_DEADLOCK FALSE
