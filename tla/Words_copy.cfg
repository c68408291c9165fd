SPECIFICATION WordsSpec
CONSTANTS
    W = 1
    MaxSize = 130
INVARIANT CopyMovesTheValue
CHECK_DEADLOCK FALSE
