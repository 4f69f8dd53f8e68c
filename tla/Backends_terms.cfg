\* --stream-quantity without --stream-interval.
SPECIFICATION Spec
CONSTANTS
    thorchain = thorchain
    maya = maya
    Backend = {thorchain, maya}
    Order <- MCOrder
    Args <- QuantityOnly
    Pool <- MCPool
    Amount = 3
    DEFAULT_TOLERANCE_BPS = 1
    None = None
    MaxMoves = 0
INVARIANTS
    SameTerms
CHECK_DEADLOCK FALSE
