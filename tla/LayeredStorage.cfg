SPECIFICATION MCSpec
CONSTANTS
    Tasks = {t1, t2}
    Writers = {t1, t2}
    PutKeys = {p1}
    BatchKeys = {b1}
    Values = {v1, v2}
    Large = {}
    BatchSize = 2
    Ops = {"get", "put", "prefetch", "flush", "batch", "compact", "crash", "fail"}
    Deleted = Deleted
    None = None
SYMMETRY StorageSymmetry
INVARIANTS FilterCovers WritesKept
CHECK_DEADLOCK FALSE
