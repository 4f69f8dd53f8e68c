\* Two additions at the same time.
SPECIFICATION Spec
CONSTANTS
    Proc = {p1, p2}
    Command <- Additions
    Label = {main, spare}
    Phrase = {good, bad}
    Bip39 = {b1}
    Seed = {s0, s1, s2}
    None = None
    InitialFile <- EmptyKeystore
    main = main
    spare = spare
    s0 = s0
    s1 = s1
    s2 = s2
    good = good
    bad = bad
    b1 = b1
INVARIANTS
    AddedKeyStored
CHECK_DEADLOCK FALSE
