SPECIFICATION FairSpec
CONSTANTS
    Calls = {c1, c2, c3, c4}
    NoCall = NoCall
    Prices = {1}
    Amounts = {1}
    Types = {"Limit"}
PROPERTIES EveryCallReturns
CHECK_DEADLOCK FALSE
