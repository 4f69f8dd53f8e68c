\* A swept swap with the longest memo.
SPECIFICATION Spec
CONSTANTS
    Coin = {c1, c2, c3}
    Value = {2000}
    Amount = {100}
    Rate = {10}
    MemoLen = {80}
    PayeeVB = {31}
SYMMETRY CoinSymmetry
INVARIANTS
    FeeNeverUnderestimated
CHECK_DEADLOCK FALSE
