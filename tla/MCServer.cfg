\* Two connections, a store that may fail to open or load, two names in one directory,
\* one kick, shutdown or new start.
SPECIFICATION Spec
CONSTANTS
    c1 = c1
    c2 = c2
    i1 = i1
    i2 = i2
    a = a
    d1 = d1
    d2 = d2
    Conns = {c1, c2}
    ClientOf <- TwoClients
    Names = {a, b1, b2}
    DirOf <- Shared
    Unreadable = {d1}
    MaxActs = 1
    NoConn = NoConn
    NoId = NoId
    NoName = NoName
INVARIANTS ServerTypeOK DrainedBeforeClose
PROPERTIES NoSpuriousRefusal StoreKeepsName ExitsWhenClientsLeave DroppedEnd
CHECK_DEADLOCK FALSE
