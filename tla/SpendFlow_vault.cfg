\* The vault of a swap and the vault of inbound_addresses.
SPECIFICATION Spec
CONSTANTS
    NoAddr = NoAddr
    NoExpiry = NoExpiry
    MainNet = MainNet
    d1 = d1
    other = other
    Proc = {p1}
    Job <- NativeSwap
    Backend = {"thorchain"}
    Vault = {v1, v2}
    Dest = {d1}
    Router = Router
    Token = Token
    Own = Own
    Coin = {c1}
    Memo <- GoodMemo
    Lifetime = {2}
    MinAmount = {0}
    Fee = {1}
    MaxFee = 4
    Balance = {0, 4}
    DustThreshold = 2
    DepositLife = 2
    Unit = 2
    WeiPerUnit = 10
    ZeroFirst = FALSE
    Reply = {"error", "none"}
    MaxTime = 1
INVARIANTS
    VaultCrossChecked
CHECK_DEADLOCK FALSE
