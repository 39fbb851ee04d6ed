\* Two sessions that never carry the same id at once; publishes and deletes may fail.
SPECIFICATION Spec
CONSTANTS
    Handlers = {h1, h2}
    Ids = {i1, i2, i3, i4}
    TTL = 1
    Cap = 3
    Faults = {"publish", "delete"}
    Overlap = FALSE
    CleanStop = TRUE
    MaxTime = 2
    MaxLog = 5
    MaxRestarts = 1
    NoId = NoId
SYMMETRY Interchangeable
INVARIANTS DedupTypeOK DedupWindow AckedIsLogged RestartForgetsNothing OwnRejectsFresh
CHECK_DEADLOCK FALSE
