\* Two publishers, no storage fault, one restart.
SPECIFICATION Spec
CONSTANTS
    Publishers = {p1, p2}
    Subs = {s1}
    ChanSize = 2
    Faults = {}
    QuietPurge = TRUE
    MaxPub = 2
    MaxCrashes = 1
    MaxPurges = 0
SYMMETRY Symmetry
INVARIANT AckedDurable
