CONSTANTS
    f1 = f1
    f2 = f2
    Fibers = {f1, f2}
    MaxWorkflows = 2
    MaxExecutions = 2
    MaxTriggers = 2
    j1 = j1
    Jobs = {j1}
    NoJob = NoJob
    MaxResumptions = 2
    MaxRestarts = 1
SPECIFICATION FairSpec
INVARIANT
    StartedIsOwned
PROPERTIES
    QueuedStarts
    QueuesDrain
CHECK_DEADLOCK FALSE
