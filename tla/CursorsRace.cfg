\* Two goroutines that recalculate at the same time.
SPECIFICATION Spec
CONSTANTS
    Member = {m1, m2}
    Goroutine = {g1, g2}
    MaxSeq = 2
    MaxEvents = 3
SYMMETRY Symmetry
INVARIANT StateIsLeastCursor
CHECK_DEADLOCK FALSE
