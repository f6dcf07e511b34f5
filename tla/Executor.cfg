SPECIFICATION FairSpec
CONSTANTS
    A = A
    B = B
    C = C
    K = K
    Create = Create
    NoAccount = NoAccount
    Addrs = {A, B, C}
    Contracts = {K}
    Blocks <- MCBlocks
    Genesis <- MCGenesis
    Workers = 2
    BaseGas = 1
    CallGas = 1
    GasPrice = 1
    MaxBlocks = 1
INVARIANTS SerialWhenFree
PROPERTIES BlockEnds
CHECK_DEADLOCK FALSE
