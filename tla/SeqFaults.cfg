\* Every fault at once: progress, and numbers above all that was handed out.
SPECIFICATION FairSpec
CONSTANTS
    Caller = {a, b}
    Sizes = {1}
    Basic = 1
    LockValues = {0}
    MinSeqs = {1}
    MaxTries = 2
    MaxCalls = 3
    TimelyLock = FALSE
    LostReplies = TRUE
INVARIANT DurableAbove
PROPERTY EveryCallEnds
CHECK_DEADLOCK FALSE
