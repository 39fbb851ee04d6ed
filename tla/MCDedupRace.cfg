\* Two sessions that may carry the same id at once.
SPECIFICATION Spec
CONSTANTS
    Handlers = {h1, h2}
    Ids = {i1, i2}
    TTL = 1
    Cap = 2
    Faults = {}
    Overlap = TRUE
    CleanStop = TRUE
    MaxTime = 1
    MaxLog = 2
    MaxRestarts = 0
    NoId = NoId
SYMMETRY Interchangeable
INVARIANTS DedupWindow
CHECK_DEADLOCK FALSE
