\* Two workers after the prefill of a key of their own and a shared one, every fault, a batch of two.
SPECIFICATION Spec
CONSTANTS
    Workers = {w1, w2}
    Main = main
    Keys = {k1, k2}
    Exclusive = {k1}
    LongLived = {k1}
    BatchSize = 2
    Faults = {"cacheGet", "cacheSet", "cacheDel", "dbGet", "dbSet", "batch"}
    MaxSets = 2
INVARIANTS CacheTypeOK ReadYourWrites ReadsAreDurable ClosePersists
PROPERTY FullBatchTaken
CHECK_DEADLOCK FALSE
