SPECIFICATION MCSpec
CONSTANTS
    Validators = 4
    LastRound = 2
    HsValidators = 4
    VoteSlots = 3
    MsgSlots = 2
    ExecutedCap = 2
    BftSlots = 2
    MaxProposed = 5
    StateAddrs = {x1, x2}
    Slots = {s1}
    Codes = {k1}
    PlainAccounts = {e1, e2}
    MaxSnapshots = 1
    LastHeight = 2
    Nibbles = {0, 1}
    TrieKeys <- MCTrieKeys
    Values = {v1, v2}
    NoNode = NoNode
    BatchSize = 2
    CacheSize = 1
    Readers = {r1}
    MaxUpdates = 5
    q1 = q1
    q2 = q2
    q3 = q3
    PoolTxs = {q1, q2, q3}
    SenderOf <- MCSenderOf
    PoolSize = 2
    PerAccount = 1
    Peers = {p1, p2}
    PeerSlots = 1
    NetCalls = {n1, n2}
    MaxQueued = 2
    MaxKeys = 3
    KeyCallers = {r1, r2}
    HardwareThere = TRUE
    MaxShared = 1
    Signers = {s1, s2, s3}
    Threshold = 2
    WalletTxs = {w1, w2}
INVARIANTS NothingDecided ProposalsRunOut ExecutedOnce ReplicaIsFaithful LookupsNeverLie PoolKeepsLimits KeysRetire
PROPERTIES MeasureClosesPeers
CHECK_DEADLOCK FALSE
