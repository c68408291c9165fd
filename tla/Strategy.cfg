\* Orders: three orders share two slots.  Queue: three lots at two levels.
\* Numeric: i64 has 8 bits and its scales are 1, 10 and 100; words have 4 bits.
SPECIFICATION MCSpec
CONSTANTS
    I64Max = 7
    MaxTracked = 2
    MaxOrders = 3
    MaxQty = 2
    Prices = {1, 2}
    InOrder = TRUE
    MaxQueued = 2
    MaxRates = 1
    ProbPowerN = 3
    Levels <- MCLevels
    QueueIds = {1, 2}
    MaxLots = 3
    MaxTrade = 2
    W = 4
    Bits = 8
    MaxPlaces = 2
    UsdcPlaces = 1
    BtcPlaces = 2
    Magnitudes = {0, 1, 2, 3, 9, 10, 11, 50, 100, 127, 128}
    Alphabet = {"-", "+", ".", "e", "0", "1", "2", "7", "8"}
    MaxText = 5
    MaxSize = 130
INVARIANTS
    TypeOK
    CountExact
    ExposureSound
    SlotsRecovered
    PnlConserved
    DriftBounded
    TrackedExact
    RatesIsolated
    MulDivExact
    ConversionsBounded
    ParseFaithful
    WordsExact
\* Orders run out, and a pure routine is called once.
CHECK_DEADLOCK FALSE
