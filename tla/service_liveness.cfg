CONSTANTS
    Workers = {w1, w2}
    c1 = c1
    c2 = c2
    c3 = c3
    Chains = {c1, c2, c3}
    Pairs <- SharedSlot
    Roles = {"QP_MINER", "QP_FINALIZER"}
    Hashes = {h1}
    ZeroHash = ZeroHash
    LockKey = LockKey
    NoTx = NoTx
    Timeout = 1
    LeaseTime = 1
    MaxTime = 3
    Faults = {"drop"}
SPECIFICATION FairSpec
PROPERTIES RecordIsCleared PairsKeepBeingProcessed
