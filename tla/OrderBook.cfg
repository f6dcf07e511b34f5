SPECIFICATION Spec
CONSTANTS
    Calls = {c1, c2, c3}
    NoCall = NoCall
    Prices = {0, 1}
    Amounts = {0, 1, 2}
    Types = {"Limit", "Market", "Conditional", "Iceberg"}
SYMMETRY CallSymmetry
INVARIANTS BookKeepsAccount
PROPERTIES TradesAreFair
CHECK_DEADLOCK FALSE
