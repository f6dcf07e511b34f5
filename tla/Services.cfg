SPECIFICATION MCSpec
CONSTANTS
    Threads = {t1}
    Keys = {k1, k2, k3}
    Values = {small, large, huge}
    Size <- MCSize
    MaxSize = 3
    MaxQueue = 5
    Ops = {"clear"}
    Word = 8
    None = None
    small = small
    large = large
    huge = huge
    Items = {i1, i2, i3, i4}
    FirstMaxBatch = 2
    MinBatch = 2
    ParallelBatches = 2
    RingCapacity = 4
    Bytes = {0, 1}
    MaxChunk = 3
    y1 = y1
    y2 = y2
    y3 = y3
    y4 = y4
    BlocksPerSlab = 3
    MaxSlabs = 2
    ChunkSize = 4
    Sizes = {1, 3, 5}
    Align = 2
    MaxChunks = 4
    ArenaCalls = {c1, c2}
    PoolLimit = 2
    MaxObjects = 3
    d1 = d1
    d2 = d2
    f1 = f1
    f2 = f2
    EvmCalls = {f1, f2}
    BatchOf <- MCBatchOf
    ContractOf <- MCContractOf
    NoContract = NoContract
    GasOf <- MCGasOf
    EvmCacheSize = 2
INVARIANTS CacheSound BatchesAccounted BuffersSound ResultsFollowGroups
PROPERTIES CacheServes SubmissionsSettle
CHECK_DEADLOCK FALSE
