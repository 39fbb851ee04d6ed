\* One subscription, one publishing goroutine, a network of one packet each way;
\* three ids, which come round and can run out.
SPECIFICATION Spec
CONSTANTS
    Readers = {r1}
    Callers = {c1}
    Senders = {s0, s1}
    Loop = s0
    Free = Free
    MaxId = 3
    SeenCap = 1
    NetCap = 1
    Nameless = {2}
    MaxMsgs = 4
    MaxPubs = 4
    MaxDups = 1
INVARIANTS LinkTypeOK AckedWasHandled HandlerOnce SubackNotMessage EntryUnderWay
PROPERTY CallsReturn
CHECK_DEADLOCK FALSE
