\* Any pools, which may move once while the command runs.
SPECIFICATION Spec
CONSTANTS
    thorchain = thorchain
    maya = maya
    Backend = {thorchain, maya}
    Order <- MCOrder
    Args <- MCArgs
    Pool <- MCPool
    Amount = 3
    DEFAULT_TOLERANCE_BPS = 1
    None = None
    MaxMoves = 1
INVARIANTS
    BestOfAll
    OfferKept
    RefusedForCause
    SessionsClosed
CHECK_DEADLOCK FALSE
