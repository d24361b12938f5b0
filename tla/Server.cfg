\* A user with two devices, two connections at a time, two gateways, two groups,
\* three messages in two documents.
SPECIFICATION MCSpec
CONSTANTS
    ios = ios
    android = android
    windows = windows
    Mobile = Mobile
    PC = PC
    Platforms = {ios, android, windows}
    Class <- ClassOf
    Android = android
    Policies = {"DefalutNotKick", "AllLoginButSameTermKick", "PCAndOther",
                "AllLoginButSameClassKick"}
    MaxNumOneEnd = 2
    Callers = {g1}
    EventLoop = EventLoop
    MaxLogins = 3
    MaxForced = 1
    MaxWaiting = 1
    Objects = {o1, o2}
    Loop = Loop
    Rpc = Rpc
    Nobody = Nobody
    ChanSize = 2
    MaxConns = 3
    MaxKicks = 1
    Gateways = {w1, w2}
    Terminals = {p1, p2}
    None = None
    MaxMoves = 3
    MaxDrops = 1
    MaxCrashes = 1
    Conversations = {c1, c2}
    Private = {c2}
    Requests = {r1}
    Sender = Sender
    Nil = Nil
    MaxSeq = 2
    MaxRequests = 3
    MaxLosses = 1
    DocSize = 2
    Clients = {m1, m2}
    m1 = m1
    m2 = m2
    Consumer = Consumer
    Free = Free
    Deleted = Deleted
    LastMsg = 3
    MaxCalls = 2
    MaxFailures = 1
INVARIANTS ServerTypeOK LimitKept NewestStaysValid OneTerminal QuietIsRight
           OnlyReadIsStored NothingStoredIsLost CallsAreTold
PROPERTIES KickedStaysKicked LoopComesBack OnlineInTheEnd PushInTheEnd
           PositionStays
CHECK_DEADLOCK FALSE
