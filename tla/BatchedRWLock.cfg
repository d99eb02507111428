SPECIFICATION Spec
CONSTANTS
    Workers = {w1, w2}
    Lines = {l1, l2}
    Excl = 4
    WordSize = 64
    BatchSize = 2
    MaxUpdates = 2
INVARIANTS
    TypeOK
    LockWordExact
    WriterSnapshot
    NoLostUpdate
