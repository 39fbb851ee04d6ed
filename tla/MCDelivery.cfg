\* One publisher, one client over two connections, room for every message.
SPECIFICATION DSpec
CONSTANTS
    c1 = c1
    Publishers = {p1}
    Subs = {1, 2}
    ChanSize = 2
    Faults = {}
    QuietPurge = TRUE
    MaxPub = 2
    MaxCrashes = 0
    MaxPurges = 0
    Clients = {c1}
    Sessions = {1, 2}
    ClientOf <- OneClient
    QoSs <- ThenEither
    CatchUpLimit = 2
    CleanStop = TRUE
    PurgeUnread = TRUE
    MaxEvents = 0
    NoSub = NoSub
    NoSession = NoSession
INVARIANTS DTypeOK OffsetSound ConsumerOrder NoLeakedSubscriber
CHECK_DEADLOCK FALSE
