\* Two coins anywhere on two branches, a pool of two workers.  Windows of two
\* against a gap of two: a gap may end inside a window or with it.  No symmetry,
\* since a liveness property is checked.
SPECIFICATION FairSpec
CONSTANTS
    Coin = {c1, c2}
    Branches = 2
    GapLimit = 2
    Window = 2
    Workers = 2
    MaxUsed = 3
    MaxIndex = 8
INVARIANTS
    UsedAddressesFound
    FoundOnce
    StableCoinsListed
    ListedCoinsSignable
    WorkBounded
PROPERTIES
    Terminates
CHECK_DEADLOCK FALSE
