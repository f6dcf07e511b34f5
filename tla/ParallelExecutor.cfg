SPECIFICATION FairSpec
CONSTANTS
    Create = Create
    NoTask = NoTask
    Addrs = {A, B, C, K}
    Contracts = {K}
    Payers = {A, B}
    Payees = {B, C, Create}
    Callers = {A, B, C}
    Accessed = {{}, {C}}
    N = 3
    Workers = 2
PROPERTIES BatchesRunSafely AllExecuted
CHECK_DEADLOCK FALSE
