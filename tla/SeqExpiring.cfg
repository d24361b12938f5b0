\* Locks that expire under slow holders: uniqueness, and the abstract allocator;
\* and, as long as none does, order and freshness of the answers.
SPECIFICATION MCSpec
CONSTANTS
    Caller = {a, b, c}
    Sizes = {1, 3}
    Basic = 1
    LockValues = {0, 1}
    MinSeqs = {}
    MaxTries = 2
    MaxCalls = 3
    TimelyLock = FALSE
    LostReplies = FALSE
SYMMETRY CallerSymmetry
INVARIANTS EveryNumberOnce LaterIsHigherInTime PeekIsCurrentInTime
PROPERTY Implements
CHECK_DEADLOCK FALSE
