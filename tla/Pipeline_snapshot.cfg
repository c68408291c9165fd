\* Messages that all parse, and a ring and an output array that are large enough
\* for every book.
SPECIFICATION Spec
CONSTANTS
    N = 2
    MaxLots = 1
    I64Max = 3
    Capacity = 4
    OutLen = 4
    Readings = {TRUE}
    MaxSeq = 3
INVARIANT
    SnapshotReplayed
