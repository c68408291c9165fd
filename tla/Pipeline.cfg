\* One instrument, a ring that is full as soon as it holds an event, and books
\* of up to four levels of which two fit into the decoder's output.
SPECIFICATION Spec
CONSTANTS
    N = 2
    MaxLots = 1
    I64Max = 3
    Capacity = 1
    OutLen = 2
    Readings = {TRUE, FALSE}
    MaxSeq = 4
INVARIANTS
    NothingLostSilently
    SnapshotEnds
    NoPhantomLevels
