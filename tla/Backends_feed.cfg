\* Any answer of the price feed.
SPECIFICATION Spec
CONSTANTS
    thorchain = thorchain
    maya = maya
    Backend = {thorchain, maya}
    Order <- MCOrder
    Args <- MCArgs
    Pool <- MCPool
    Amount = 3
    DEFAULT_TOLERANCE_BPS = 1
    None = None
    MaxMoves = 0
INVARIANTS
    FeedNeverFatal
CHECK_DEADLOCK FALSE
