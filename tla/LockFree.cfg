\* Both engines, with split handles and raw; the indices wrap round.  A sequence
\* lock on x86-64, where stores become visible in program order; its counter
\* wraps.
SPECIFICATION MCSpec
CONSTANTS
    Cap = 4
    MinCapacity = 3
    BatchSizes = {2, 3, 5}
    MaxSent = 7
    Readers = {r1}
    Words = {1, 2, 3}
    Ordered = TRUE
    SeqMod = 4
    MaxStores = 4
INVARIANTS
    TypeOK
    NoDataRace
    RingOrder
    InOrder
    DropReleasesAll
    NoTornRead
    NotStale
PROPERTIES
    FifoSpec
    AllDelivered
    LoadReturns
\* A ring that was dropped stops for good.
CHECK_DEADLOCK FALSE
