\* A null answer to a token call.
SPECIFICATION Spec
CONSTANTS
    btc = btc
    eth = eth
    thorchain = thorchain
    maya = maya
    Chain = {btc, eth}
    Chains <- MCChains
    Backend = {thorchain, maya}
    Backends <- MCBackends
    Tokens = {eth}
    Scanned = btc
    MaxAddr = 2
    None = None
INVARIANTS
    TokenFailureContained
CHECK_DEADLOCK FALSE
