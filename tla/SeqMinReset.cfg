\* A conversation is cleared while messages go on being stored.
SPECIFICATION Spec
CONSTANTS
    Caller = {a, b}
    Sizes = {1}
    Basic = 1
    LockValues = {0}
    MinSeqs = {2}
    MaxTries = 2
    MaxCalls = 4
    TimelyLock = TRUE
    LostReplies = FALSE
PROPERTY ClearedStaysHidden
CHECK_DEADLOCK FALSE
