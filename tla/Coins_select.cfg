\* Three coins around every limit of select_coins and sweep_amount.
SPECIFICATION Spec
CONSTANTS
    Coin = {c1, c2, c3}
    Value = {120, 209, 210, 534, 535, 1200}
    Amount = {100, 294, 700}
    Rate = {10, 13, 40}
    MemoLen = {0, 1, 75, 76, 80}
    PayeeVB = {31, 43}
SYMMETRY CoinSymmetry
INVARIANTS
    TypeOK
    Balanced
    OverpayBounded
    FewestCoins
    FeeNearItsRate
CHECK_DEADLOCK FALSE
