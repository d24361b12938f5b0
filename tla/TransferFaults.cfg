\* Every call may fail, and both consumers may restart.
SPECIFICATION FairSpec
CONSTANTS
    k1 = k1
    k2 = k2
    anna = anna
    ben = ben
    Partition = {1}
    Topic <- OneKey
    Shard <- OneWorker
    BatchSize = 2
    InsertLimit = 1
    Faulty = {"malloc", "cache", "read", "create", "mongo", "push", "db"}
    MaxCrashes = 0
    MaxRestarts = 1
INVARIANTS PushedIsReadable ConversationBeforePush
PROPERTY AllHandled
CHECK_DEADLOCK FALSE
