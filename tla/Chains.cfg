SPECIFICATION MCSpec
CONSTANTS
    Owners = {w1}
    BridgeChains = {1, 2}
    Tokens = {t1}
    LockAmounts = {1, 2, 3, 4}
    MinTransfer = 2
    MaxTransfer = 3
    LastLockTime = 1
    MaxLocks = 2
    q1 = q1
    q2 = q2
    q3 = q3
    m1 = m1
    m2 = m2
    Submissions = {q1, q2, q3}
    TransferOf <- MCTransferOf
    RelayLoops = {l1, l2}
    StatCalls = {z1}
    MinConfirmations = 1
    RelayBatch = 2
    Unlocked = Unlocked
    ca = ca
    cb = cb
    cc = cc
    Channels = {ca, cb, cc}
    ChainOf <- MCChainOf
    NoPeer = NoPeer
    MaxPackets = 2
    g1 = g1
    g2 = g2
    g3 = g3
    g4 = g4
    g5 = g5
    g6 = g6
    NoHeader = NoHeader
    Headers = {g1, g2, g3, g4, g5, g6}
    HeightOf <- MCHeightOf
    TimeOf <- MCTimeOf
    PreviousOf <- MCPreviousOf
    PowerOf <- MCPowerOf
    QuorumPower = 667
    BlockTime = 1
    TrustingPeriod = 2
    HeaderWindow = 2
    Updates = {u1, u2}
    NoUpdate = NoUpdate
    MaxClients = 2
    RollupTxs = {x1, x2, x3, x4}
    InstantTxs = {x4}
    BatchCalls = {b1, b2}
    ChallengeCalls = {d1, d2}
    RollupBatch = 2
    ChallengePeriod = 1
    EndOfRollup = 2
    NoOne = NoOne
    DataIds = {i1, i2}
    DataShards = 4
    ParityShards = 2
    MaxLength = 14
SYMMETRY ChainsSymmetry
INVARIANTS LiquidityBacksLocks RelaySound PacketsAccounted TrustedChain RetrieveIsStored
PROPERTIES RollupSound
CHECK_DEADLOCK FALSE
