\* The backend that observed the transaction does not answer.
SPECIFICATION Spec
CONSTANTS
    thorchain = thorchain
    maya = maya
    h1 = h1
    h2 = h2
    Backend = {thorchain, maya}
    Order <- MCOrder
    Hash = {h1, h2}
    Args <- MCArgs
    MaxMoves = 0
    None = None
INVARIANTS
    FellMeansUnobserved
CHECK_DEADLOCK FALSE
