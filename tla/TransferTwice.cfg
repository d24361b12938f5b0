\* A batch that is read again after a crash.
SPECIFICATION Spec
CONSTANTS
    k1 = k1
    k2 = k2
    anna = anna
    ben = ben
    Partition = {1, 2}
    Topic <- TwoKeys
    Shard <- TwoWorkers
    BatchSize = 3
    InsertLimit = 2
    Faulty = {}
    MaxCrashes = 1
    MaxRestarts = 0
INVARIANT StoredOnce
CHECK_DEADLOCK FALSE
