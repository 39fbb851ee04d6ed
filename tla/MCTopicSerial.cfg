\* One publisher, restarts at any point, a quiet purge.
SPECIFICATION Spec
CONSTANTS
    Publishers = {p1}
    Subs = {s1, s2}
    ChanSize = 2
    Faults = {"msgWrite", "delete"}
    QuietPurge = TRUE
    MaxPub = 4
    MaxCrashes = 2
    MaxPurges = 1
SYMMETRY Symmetry
INVARIANT AckedDurable
PROPERTY ImplementsLog
