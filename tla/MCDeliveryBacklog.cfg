\* A backlog one message longer than the catch-up limit.
SPECIFICATION DSpec
CONSTANTS
    c1 = c1
    Publishers = {p1}
    Subs = {1}
    ChanSize = 3
    Faults = {}
    QuietPurge = TRUE
    MaxPub = 3
    MaxCrashes = 0
    MaxPurges = 0
    Clients = {c1}
    Sessions = {1}
    ClientOf <- OneClient
    QoSs <- Reliable
    CatchUpLimit = 1
    CleanStop = TRUE
    PurgeUnread = TRUE
    MaxEvents = 0
    NoSub = NoSub
    NoSession = NoSession
INVARIANT OffsetSound
CHECK_DEADLOCK FALSE
