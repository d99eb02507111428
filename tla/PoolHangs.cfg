SPECIFICATION FairSpec
CONSTANTS
    N = 2
    MaxJobs = 1
PROPERTIES
    PoolEnds
CHECK_DEADLOCK FALSE
