\* Receipts of two groups in one batch.
SPECIFICATION ReadPositionsSpec
CONSTANTS
    Conversations = {c1, c2}
    Private = {}
    Requests = {r1}
    Sender = Sender
    Nil = Nil
    MaxSeq = 2
    MaxRequests = 3
    MaxLosses = 0
INVARIANT PositionWasRead
CHECK_DEADLOCK FALSE
