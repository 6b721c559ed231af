CONSTANTS
    NbWorkers = 3
    MaxJobs = 5
SPECIFICATION FairSpec
INVARIANTS
    Inv
    NobodyOversleeps
PROPERTIES
    SliceJobsSpec
    ExecuteReturns
    FreeReturns
CHECK_DEADLOCK FALSE
