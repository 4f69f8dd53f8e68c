\* A token that refuses to change a non-zero allowance.
SPECIFICATION Spec
CONSTANTS
    NoAddr = NoAddr
    NoExpiry = NoExpiry
    MainNet = MainNet
    d1 = d1
    other = other
    Proc = {p1, p2}
    Job <- EthJobs
    Backend = {"thorchain"}
    Vault = {v1}
    Dest = {d1}
    Router = Router
    Token = Token
    Own = Own
    Coin = {c1, c2}
    Memo <- GoodMemo
    Lifetime = {1}
    MinAmount = {0}
    Fee = {1}
    MaxFee = 4
    Balance = {0, 4}
    DustThreshold = 2
    DepositLife = 2
    Unit = 2
    WeiPerUnit = 10
    ZeroFirst = TRUE
    Reply = {"error", "none"}
    MaxTime = 1
INVARIANTS
    ResidualAllowanceExact
CHECK_DEADLOCK FALSE
