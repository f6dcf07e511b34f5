SPECIFICATION Spec
CONSTANTS
    Create = Create
    NoTask = NoTask
    Addrs = {A, B, C, K}
    Contracts = {K}
    Payers = {A, B}
    Payees = {C, Create}
    Callers = {A}
    Accessed = {{C}}
    N = 2
    Workers = 2
INVARIANTS DependenciesRunFirst
CHECK_DEADLOCK FALSE
