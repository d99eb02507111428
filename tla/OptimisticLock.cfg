SPECIFICATION FairSpec
CONSTANTS
    Workers = {w1, w2}
    NumLines = 2
    Modes <- SoundModes
    MaxUpdates <- TwoAndOne
INVARIANTS
    TypeOK
    LatchExclusive
    SnapshotConsistent
    NoLostUpdate
    ReadsOwnWrites
PROPERTIES
    VersionsStepUp
    OperationsEnd
CHECK_DEADLOCK FALSE
