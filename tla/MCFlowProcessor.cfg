CONSTANTS
    Flows <- AllFlows
    MaxStale = 1
SPECIFICATION FairSpec
INVARIANTS
    TypeOK
    ResultsAgree
    JoinWaits
    SuspendedCanResume
PROPERTIES
    EndedJobsStay
    Returns
CHECK_DEADLOCK FALSE
