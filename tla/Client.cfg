\* A chat and a notification conversation of a client that connects, wakes up,
\* crashes and is reinstalled; three friends, two elements of the log in an
\* answer, pages of one, two in a full synchronisation; a connection with channels
\* of one place, three requests, two questions.
SPECIFICATION MCSpec
CONSTANTS
    Chats = {c1}
    Notices = {n1}
    LastSeq = 2
    Sent = 3
    ConnectPull = 1
    DefaultPull = 2
    SplitPull = 2
    WorkLen = 1
    InboxLen = 1
    Events = 2
    Friends = {f1, f2, f3}
    LogLimit = 2
    PageSize = 1
    MaxItems = 2
    Handlers = 2
    MaxChanges = 3
    MaxIncidents = 1
    Syncs = {s1}
    Sends = {m1, m2}
    Logouts = {o1}
    Calls = {1, 2}
    Users = {u1, u2}
    SendLen = 1
    MailLen = 1
    Attempts = 2
    Breaks = 1
    Pushes = 1
    Turns = 1
INVARIANTS ClientTypeOK NothingPassedOver LatestIsStored QueuedAreNew
           VersionIsHonest KnownIsTrue
PROPERTIES CatchesUp NewestInTheEnd RestInTheEnd
CHECK_DEADLOCK FALSE
