\* Every asset, typed and swept, while fees and balances move.
SPECIFICATION Spec
CONSTANTS
    Typed <- MCTyped
    Frac = 2
    Prec = 3
    Balance = {0, 7, 130, 401}
    BaseFee = {0, 3, 9}
    Tip = 1
    Gas = 5
    MaxFeeWei = 40
    WeiPerUnit = 10
    Unit = 4
    TronCost = {6, 30}
    FeeLimit = 15
INVARIANTS
    CloseToTyped
    SweepComplete
    SweepAffordable
PROPERTIES
    FeeWithinCap
CHECK_DEADLOCK FALSE
