\* Two publishers, every storage fault, a quiet purge and a restart.
SPECIFICATION Spec
CONSTANTS
    Publishers = {p1, p2}
    Subs = {s1}
    ChanSize = 2
    Faults = {"msgWrite", "seqWrite", "seqRead", "scan", "delete"}
    QuietPurge = TRUE
    MaxPub = 2
    MaxCrashes = 1
    MaxPurges = 1
SYMMETRY Symmetry
INVARIANTS TypeOK AckedInProcess StoredBeforeFanout PublisherFIFO
