\* Two workers, a crash at any moment, and a second reading of toMongo.
SPECIFICATION FairSpec
CONSTANTS
    k1 = k1
    k2 = k2
    anna = anna
    ben = ben
    Partition = {1, 2}
    Topic <- TwoKeys
    Shard <- TwoWorkers
    BatchSize = 3
    InsertLimit = 2
    Faulty = {}
    MaxCrashes = 1
    MaxRestarts = 0
INVARIANTS NothingSkipped OrderKept
PROPERTIES AllHandled KeepsTheLog
CHECK_DEADLOCK FALSE
