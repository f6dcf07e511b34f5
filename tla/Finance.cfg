SPECIFICATION MCSpec
CONSTANTS
    LoanCalls = {l1, l2, l3}
    LoanAmounts = {50, 10000, 10100}
    FeeBps = 9
    LoanOps = {"add", "remove", "loan", "stats"}
    Nobody = Nobody
    Providers = {p1, p2}
    PoolAmounts = {0, 1, 2, 3, 5}
    FeeRate = 30
    MaxReserve = 14
    Ticks <- MCTicks
    TickSpacing = 60
    NoRange = NoRange
    PerpCalls = {c1, c2, c3}
    Traders = {u1, u2}
    Sizes = {1, 2}
    Leverages = {0, 10, 5000, 20000}
    MaxLeverage = 10000
    PenaltyBps = 500
    PerpNobody = PerpNobody
    Contracts = {op1, op2}
    Accounts = {a1, a2}
    Strikes = {1, 2, 5}
    Volumes = {2}
    Spot = 2
    EndOfTime = 2
    s1 = s1
    s2 = s2
    s3 = s3
    SecretTxs = {s1, s2, s3}
    GasPrice <- MCGasPrice
    RevealTimeout = 1
    MinCommitPeriod = 1
    LastSecond = 4
    Bundles = {c1, c2, c3}
    Searchers = {w1}
    Bids = {1, 2}
    MinBid = 2
    MinReputation = 50
    WhitelistOnly = FALSE
    Blocks = {1, 2}
    MaxReports = 1
    MaxCalls = 2
    o1 = o1
    o2 = o2
    o3 = o3
    o4 = o4
    AuctionOrders = {o1, o2, o3, o4}
    BidPrice <- MCBidPrice
    MinBatchSize = 2
    MaxBatchSize = 3
    NoBatch = NoBatch
    CipherTxs = {x1, x2}
    ShareCalls = {h1, h2, h3}
    Threshold = 2
    ShareWindow = 1
    EndOfShares = 2
    NoCall = NoCall
    VaultUsers = {u1, u2}
    VaultCalls = {k1, k2}
    Amounts = {1, 2}
    LockPeriod = 1
    VaultEnd = 1
    MaxDeposited = 3
    OrderCalls = {k1, k2}
    MaxOrders = 3
    tx = tx
    ty = ty
    TokenIn = TokenIn
    TokenOut = TokenOut
    RouteTokens = {TokenIn, TokenOut, tx, ty}
    PoolLists <- MCPoolLists
    HopLimits = {1, 2, 3}
SYMMETRY FinanceSymmetry
INVARIANTS
    LoansSound PoolsAccount RoundTripLoses DerivativesSound
    ExecutedAsOften BundlesServedInOrder ThresholdsCostCalls PathsFound ExchangeSound
PROPERTIES DilutionIsDust
CHECK_DEADLOCK FALSE
