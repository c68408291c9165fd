\* A read timeout of 3 chunks of 100 ms.
SPECIFICATION MCSpec
CONSTANTS
    Initial = 1
    MaxDelay = 8
    JitterDiv = 4
    MaxAttempt = 3
    PingIntervals = {2}
    ReadTimeouts = {3}
    TickInterval = 4
    HeartbeatIntervals = {2, 6, 8}
    MaxLag = 3
    MaxSymbols = 2
    SymbolNames = {s1, s2}
    LongName = LongName
    TickSize <- MCTickSize
    LotSize <- MCLotSize
    Numbers <- MCNumbers
    Bad = Bad
    QueueCap = 2
    MaxFrames = 4
INVARIANT
    ShutdownWithinChunk
CHECK_DEADLOCK FALSE
