\* Any two networks, which change up to three times.
SPECIFICATION Spec
CONSTANTS
    thorchain = thorchain
    maya = maya
    h1 = h1
    h2 = h2
    Backend = {thorchain, maya}
    Order <- MCOrder
    Hash = {h1, h2}
    Args <- MCArgs
    MaxMoves = 3
    None = None
INVARIANTS
    ObservedReported
CHECK_DEADLOCK FALSE
