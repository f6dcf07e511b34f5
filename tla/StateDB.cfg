SPECIFICATION MCSpec
CONSTANTS
    Tasks = {t1, t2}
    Addrs = {a1}
    Slots = {s1}
    Balances = {v1}
    Codes = {c1}
    Blocks = {b1}
    CacheSize = 0
    Ops = {"get", "set", "storage", "code", "commit", "rollback", "snapshot"}
    None = None
SYMMETRY StateSymmetry
INVARIANTS CommitsPersist
PROPERTIES ReadsStayTrue
CHECK_DEADLOCK FALSE
