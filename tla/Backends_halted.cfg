\* The network with the best quote does not trade the source chain.
SPECIFICATION Spec
CONSTANTS
    thorchain = thorchain
    maya = maya
    Backend = {thorchain, maya}
    Order <- MCOrder
    Args <- MCArgs
    Pool <- MCPool
    Amount = 3
    DEFAULT_TOLERANCE_BPS = 1
    None = None
    MaxMoves = 0
INVARIANTS
    HaltedDropped
CHECK_DEADLOCK FALSE
