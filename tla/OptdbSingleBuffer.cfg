SPECIFICATION Spec
CONSTANTS
    Workers = {w1, w2}
    NumLines = 2
    Modes <- OptdbV2Footer
    MaxUpdates <- TwoEach
INVARIANT
    SnapshotConsistent
CHECK_DEADLOCK FALSE
