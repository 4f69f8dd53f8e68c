\* One invocation, every command line, every kind of quote.
SPECIFICATION FairSpec
CONSTANTS
    NoAddr = NoAddr
    NoExpiry = NoExpiry
    MainNet = MainNet
    d1 = d1
    other = other
    Proc = {p1}
    Job <- AllJobs
    Backend = {"thorchain"}
    Vault = {v1}
    Dest = {d1}
    Router = Router
    Token = Token
    Own = Own
    Coin = {c1}
    Memo <- MCMemo
    Lifetime = {0, 2}
    MinAmount = {0, 5}
    Fee = {1, 3}
    MaxFee = 4
    Balance = {0, 4}
    DustThreshold = 2
    DepositLife = 2
    Unit = 2
    WeiPerUnit = 10
    ZeroFirst = FALSE
    Reply = {"error", "none"}
    MaxTime = 2
INVARIANTS
    Authorised
    OnlyIntendedPayments
    DepositNamesDestination
    FeeCapped
    FreshWhenSigned
    OutcomeHonest
PROPERTIES
    Terminates
    KeepsPromise
CHECK_DEADLOCK FALSE
