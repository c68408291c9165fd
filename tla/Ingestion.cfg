\* Back-off 1, 2, 4, 8 chunks, give or take a quarter; a tick is 4 chunks.  The
\* ids of the registry run out after four instruments; three tokens rotate.
SPECIFICATION IngestionSpec
CONSTANTS
    Initial = 1
    MaxDelay = 8
    JitterDiv = 4
    MaxAttempt = 3
    PingIntervals = {0, 2, 5}
    ReadTimeouts = {0, 3}
    TickInterval = 4
    HeartbeatIntervals = {2, 6, 8}
    MaxLag = 3
    MaxSymbols = 2
    SymbolNames = {s1, s2}
    LongName = LongName
    TickSize <- MCTickSize
    LotSize <- MCLotSize
    Numbers <- MCNumbers
    Bad = Bad
    QueueCap = 2
    MaxFrames = 4
    Markets = {m1}
    References = {ref}
    Symbols = {b1}
    Tokens = {t1, t2, t3}
    MaxId = 4
    FreshTokens = TRUE
    None = None
INVARIANTS
    ReconnectsCounted
    PingGap
    ShutdownPrompt
    TobAccounted
    TypeOK
    KeysExact
    TokensExact
PROPERTIES
    StaleTimely
    FeedLives
    StableIdentity
\* A thread that has ended and a registry whose keys are all taken are at rest.
CHECK_DEADLOCK FALSE
