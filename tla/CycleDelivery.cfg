CONSTANTS
    r1 = r1
    r2 = r2
    r3 = r3
    k1 = k1
    k2 = k2
    h1 = h1
    NoKey = NoKey
    NoUrl = NoUrl
    a = a
    b = b
    Runners = {a, b}
    Records <- Offered
    Keys <- TheKeys
    KeyOf <- TheKeyOf
    Hashes <- TheHashes
    HashOf <- TheHashOf
    MaxBatch = 2
    MaxCycles = 3
    MaxCrashes = 1
    MaxUnread = 1
SPECIFICATION Spec
INVARIANTS TypeOK NoSilentLoss RepeatsAreExplained
PROPERTIES IndexGrows
SYMMETRY RunnerSymmetry
CHECK_DEADLOCK FALSE
