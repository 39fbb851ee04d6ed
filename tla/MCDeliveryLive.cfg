\* One message and one disturbance: a retransmission, a closed connection, a purge or a restart.
SPECIFICATION DFairSpec
CONSTANTS
    c1 = c1
    Publishers = {p1}
    Subs = {1, 2}
    ChanSize = 2
    Faults = {}
    QuietPurge = TRUE
    MaxPub = 1
    MaxCrashes = 1
    MaxPurges = 1
    Clients = {c1}
    Sessions = {1, 2}
    ClientOf <- OneClient
    QoSs <- Reliable
    CatchUpLimit = 2
    CleanStop = TRUE
    PurgeUnread = TRUE
    MaxEvents = 1
    NoSub = NoSub
    NoSession = NoSession
PROPERTIES EveryAckedArrives GoroutinesEnd
CHECK_DEADLOCK FALSE
