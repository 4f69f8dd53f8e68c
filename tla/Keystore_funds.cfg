\* Receiving and spending while other invocations change the keystore, are
\* interrupted anywhere, and the power fails.
SPECIFICATION DSpec
CONSTANTS
    Proc = {p1, p2, p3}
    Command <- AllCommands
    Label = {main, raw, spare}
    Phrase = {good, bad}
    Bip39 = {b1}
    Seed = {s0, s1, s2}
    None = None
    First = First
    Target = {"BTC", "TRON", "LTC"}
    Form = {"bech32", "hex"}
    InitialFile <- AnyFile
    main = main
    raw = raw
    spare = spare
    s0 = s0
    s1 = s1
    s2 = s2
    good = good
    bad = bad
    b1 = b1
INVARIANTS
    TypeOK
    Intact
    LabelsUnique
    OriginalKeysKept
    SoloAdditionsKept
    FundsStaySpendable
SYMMETRY ProcSymmetry
CHECK_DEADLOCK FALSE
