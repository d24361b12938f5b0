\* Two goroutines at a time, every kind of event.
SPECIFICATION Spec
CONSTANTS
    Member = {m1, m2}
    Goroutine = {g1, g2}
    MaxSeq = 2
    MaxEvents = 3
SYMMETRY Symmetry
INVARIANTS TypeOK StateIsLeastCursorInTurn NoEyeTooEarly SubscriberIsUpToDate
CHECK_DEADLOCK FALSE
