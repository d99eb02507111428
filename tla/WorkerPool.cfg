SPECIFICATION FairSpec
CONSTANTS
    N = 2
    MaxJobs = 3
INVARIANTS
    TypeOK
    JobsNotLost
    DeletedAfterUse
PROPERTIES
    JoinedMeansDone
    SyncMeansDone
    CallsReturn
    EndsUnlessMissed
CHECK_DEADLOCK FALSE
