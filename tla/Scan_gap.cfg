\* One branch; the first window holds a full gap and then a used address.
SPECIFICATION Spec
CONSTANTS
    Coin = {c1}
    Branches = 1
    GapLimit = 2
    Window = 3
    Workers = 2
    MaxUsed = 4
    MaxIndex = 8
INVARIANTS
    StopsAfterGap
CHECK_DEADLOCK FALSE
