\* A setSeq whose answer is lost is sent again after the hash has gone.  (With
\* three calls of one number each no lock value coincides on the way there.)
SPECIFICATION MCSpec
CONSTANTS
    Caller = {a, b, c}
    Sizes = {1}
    Basic = 1
    LockValues = {0, 1}
    MinSeqs = {}
    MaxTries = 2
    MaxCalls = 3
    TimelyLock = FALSE
    LostReplies = TRUE
SYMMETRY CallerSymmetry
INVARIANT NoDuplicates
CHECK_DEADLOCK FALSE
