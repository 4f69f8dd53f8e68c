\* A destination the user typed.
SPECIFICATION DSpec
CONSTANTS
    Proc = {p1}
    Command <- ReadOnly
    Label = {main, raw, spare}
    Phrase = {good, bad}
    Bip39 = {b1}
    Seed = {s0, s1, s2}
    None = None
    First = First
    Target = {"BTC", "ETH"}
    Form = {"bech32", "BECH32", "base58", "hex", "junk"}
    InitialFile <- OldFile
    main = main
    raw = raw
    spare = spare
    s0 = s0
    s1 = s1
    s2 = s2
    good = good
    bad = bad
    b1 = b1
INVARIANTS
    ValidNeverRejected
CHECK_DEADLOCK FALSE
