SPECIFICATION MCSpec
CONSTANTS
    Tasks = {t1}
    Writers = {t1}
    PutKeys = {}
    BatchKeys = {b1}
    Values = {v1, v2}
    Large = {}
    BatchSize = 2
    Ops = {"get", "batch", "crash"}
    Deleted = Deleted
    None = None
INVARIANTS ReadsLatest
CHECK_DEADLOCK FALSE
