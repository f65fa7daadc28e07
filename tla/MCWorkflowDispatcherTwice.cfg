CONSTANTS
    f1 = f1
    f2 = f2
    Fibers = {f1, f2}
    MaxWorkflows = 1
    MaxExecutions = 2
    MaxTriggers = 2
    j1 = j1
    Jobs = {j1}
    NoJob = NoJob
    MaxResumptions = 1
    MaxRestarts = 0
SPECIFICATION Spec
PROPERTY StartedOnce
CHECK_DEADLOCK FALSE
